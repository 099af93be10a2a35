---------------------------- MODULE HookContract ----------------------------
(***************************************************************************)
(* What the hook promises Claude Code about one tool call: it says nothing *)
(* at all, or, once, the verdict of all the deciders' opinions.            *)
(***************************************************************************)
EXTENDS Votes

CONSTANT N   \* how many deciders are registered

VARIABLES
    opinion,   \* what each decider would vote if it were asked
    wire       \* what the hook has told Claude Code

ContractInit ==
    /\ opinion \in [1..N -> Decisions]
    /\ wire = Nothing

Deliver ==
    /\ wire = Nothing
    /\ \E v \in [decision : Decisions, by : 0..N] :
          IsVerdict(opinion, v) /\ wire' = OnWire(v)
    /\ UNCHANGED opinion

ContractSpec == ContractInit /\ [][Deliver]_<<opinion, wire>>
=============================================================================
