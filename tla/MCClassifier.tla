---------------------------- MODULE MCClassifier ----------------------------
EXTENDS Classifier
=============================================================================
