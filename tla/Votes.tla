-------------------------------- MODULE Votes --------------------------------
(***************************************************************************)
(* The five-valued vote of decider and the precedence                      *)
(* deny > ask > passthrough > allow > silent, once as Combine computes it  *)
(* and once as the documentation states it.  A vote's reason is the        *)
(* position of the decider that cast it.                                   *)
(***************************************************************************)
EXTENDS Integers, Sequences

Decisions == {"allow", "ask", "passthrough", "deny", "silent"}

\* No decider is credited with a silent verdict.
NoOne == 0

Cast(votes, d) == \E i \in DOMAIN votes : votes[i] = d

IsFirst(votes, d, i) == votes[i] = d /\ \A j \in DOMAIN votes : j < i => votes[j] # d

First(votes, d) == CHOOSE i \in DOMAIN votes : IsFirst(votes, d, i)

\* Mutant of Combine: an allow outranks a passthrough.
Combine_AllowFirst(votes) ==
    LET verdict(d) == [decision |-> d, by |-> First(votes, d)]
    IN  IF Cast(votes, "deny") THEN verdict("deny")
        ELSE IF Cast(votes, "ask") THEN verdict("ask")
        ELSE IF Cast(votes, "allow") THEN verdict("allow")
        ELSE IF Cast(votes, "passthrough") THEN verdict("passthrough")
        ELSE [decision |-> "silent", by |-> NoOne]

\* decider.Combine.
Combine(votes) ==
    LET verdict(d) == [decision |-> d, by |-> First(votes, d)]
    IN  IF Cast(votes, "deny") THEN verdict("deny")
        ELSE IF Cast(votes, "ask") THEN verdict("ask")
        ELSE IF Cast(votes, "passthrough") THEN verdict("passthrough")
        ELSE IF Cast(votes, "allow") THEN verdict("allow")
        ELSE [decision |-> "silent", by |-> NoOne]

\* What reaches Claude Code: a silent or withheld verdict writes nothing.
Nothing == [decision |-> "none", by |-> NoOne]

\* Mutant of OnWire: a withheld verdict prompts the user.
OnWire_PromptsOnPassthrough(verdict) ==
    IF verdict.decision \in {"allow", "ask", "deny"} THEN verdict
    ELSE IF verdict.decision = "passthrough" THEN [decision |-> "ask", by |-> verdict.by]
    ELSE Nothing

OnWire(verdict) ==
    IF verdict.decision \in {"allow", "ask", "deny"} THEN verdict ELSE Nothing

----------------------------------------------------------------------------

Rank(d) == CASE d = "deny" -> 5 [] d = "ask" -> 4 [] d = "passthrough" -> 3
             [] d = "allow" -> 2 [] d = "silent" -> 1

\* The verdict of a set of opinions: the highest-ranked one, credited to the
\* first decider that holds it.
IsVerdict(opinions, v) ==
    /\ \A i \in DOMAIN opinions : Rank(opinions[i]) <= Rank(v.decision)
    /\ \/ v.decision = "silent" /\ v.by = NoOne
       \/ /\ v.decision # "silent"
          /\ v.by \in DOMAIN opinions
          /\ IsFirst(opinions, v.decision, v.by)
=============================================================================
