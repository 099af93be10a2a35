----------------------------- MODULE PolicyCache -----------------------------
(***************************************************************************)
(* automodepolicy.Loader in several hook processes: each call builds a     *)
(* cache key from the stat of the settings files, looks for a fresh entry  *)
(* under it, and on a miss asks `claude auto-mode config` and stores the   *)
(* answer, while the settings are edited.  A settings version stands for   *)
(* the contents of all the settings files a project reaches, the claude    *)
(* binary included; every edit changes some size or mtime.                 *)
(***************************************************************************)
EXTENDS Integers

CONSTANTS
    Procs,       \* the hook processes
    Projects,    \* the projects they work in
    NoProject,   \* the project of a policy or key that has none
    Ttl,         \* automode_policy_ttl
    MaxEdits,    \* bound on the edits of a project's settings
    MaxClock,    \* bound on the clock
    MaxCalls     \* bound on the calls of LoadOrDefaults

ASSUME NoProjectIsNone == NoProject \notin Projects

ASSUME BoundsAreNat == {Ttl, MaxEdits, MaxClock, MaxCalls} \subseteq Nat

VARIABLES
    broken,     \* permscope.Resolve fails: a settings file does not parse; fixed
    settings,   \* the version of each project's settings
    now,        \* wall clock
    cache,      \* the cache files: at most one per key
    pc,         \* the next step of p's call
    proj,       \* the project p's latest call is about
    begun,      \* the settings version p's key was built from
    policy,     \* what claude has answered p
    got,        \* what p's latest call returned
    calls       \* calls so far

procVars == <<pc, proj, begun, policy, got, calls>>

vars == <<broken, settings, now, cache, procVars>>

PCs == {"idle", "read", "fetch", "write"}

Policies == [project : Projects \union {NoProject}, version : Nat]

\* Mutant of Defaults: an error value in the place of a policy.
Defaults_Error == [project |-> NoProject, version |-> -1]

\* BundledDefaults.
Defaults == [project |-> NoProject, version |-> 0]

Init ==
    /\ broken \in BOOLEAN
    /\ settings = [r \in Projects |-> 1]
    /\ now = 0
    /\ cache = {}
    /\ pc = [p \in Procs |-> "idle"]
    /\ proj \in [Procs -> Projects]
    /\ begun = [p \in Procs |-> 0]
    /\ policy = [p \in Procs |-> Defaults]
    /\ got = [p \in Procs |-> Defaults]
    /\ calls = 0

----------------------------------------------------------------------------

Goto(p, label) == pc' = [pc EXCEPT ![p] = label]

Return(p, result) ==
    /\ got' = [got EXCEPT ![p] = result]
    /\ policy' = [policy EXCEPT ![p] = Defaults]
    /\ Goto(p, "idle")

\* Mutants of Key: built anew from the present stat at each use; built from
\* the settings paths alone.
Key_AtUse(p) ==
    IF broken THEN [project |-> NoProject, version |-> 0]
    ELSE [project |-> proj[p], version |-> settings[proj[p]]]

Key_PathsOnly(p) ==
    IF broken THEN [project |-> NoProject, version |-> 0]
    ELSE [project |-> proj[p], version |-> 0]

\* The settings paths and their stat; without a permission scope there are no
\* paths, and nothing of the project is left in the key.
Key(p) ==
    IF broken THEN [project |-> NoProject, version |-> 0]
    ELSE [project |-> proj[p], version |-> begun[p]]

\* resolveBinary, buildCacheKey and cachePath; the first or the last may fail.
BuildKey(p) ==
    /\ pc[p] = "idle"
    /\ calls < MaxCalls
    /\ calls' = calls + 1
    /\ \E r \in Projects :
          /\ proj' = [proj EXCEPT ![p] = r]
          /\ begun' = [begun EXCEPT ![p] = settings[r]]
    /\ \/ /\ Goto(p, "read")
          /\ got' = [got EXCEPT ![p] = Defaults]
          /\ UNCHANGED policy
       \/ Return(p, Defaults)
    /\ UNCHANGED <<broken, settings, now, cache>>

IsFresh(e) == now - e.storedAt <= Ttl

Hits(p) == {e \in cache : e.key = Key(p) /\ IsFresh(e)}

ReadFreshCache(p) ==
    /\ pc[p] = "read"
    /\ \/ \E e \in Hits(p) : Return(p, e.policy)
       \/ /\ Hits(p) = {}
          /\ Goto(p, "fetch")
          /\ UNCHANGED <<policy, got>>
    /\ UNCHANGED <<broken, settings, now, cache, proj, begun, calls>>

\* `claude auto-mode config`, launched in the project root, reads the settings
\* as they are by then.  It may fail, and it may never come back.
FetchFromClaude(p) ==
    /\ pc[p] = "fetch"
    /\ \/ /\ policy' = [policy EXCEPT ![p] = [project |-> proj[p], version |-> settings[proj[p]]]]
          /\ Goto(p, "write")
          /\ UNCHANGED got
       \/ Return(p, Defaults)
    /\ UNCHANGED <<broken, settings, now, cache, proj, begun, calls>>

\* The process writes its own tmp file and renames it over the entry; a
\* failure leaves the entry as it was.
WriteCache(p) ==
    /\ pc[p] = "write"
    /\ \/ cache' = {e \in cache : e.key # Key(p)}
                     \union {[key |-> Key(p), policy |-> policy[p], storedAt |-> now]}
       \/ UNCHANGED cache
    /\ Return(p, policy[p])
    /\ UNCHANGED <<broken, settings, now, proj, begun, calls>>

\* The hook process is killed and another one takes its place.
Killed(p) ==
    /\ pc[p] # "idle"
    /\ Return(p, Defaults)
    /\ UNCHANGED <<broken, settings, now, cache, proj, begun, calls>>

Edit(r) ==
    /\ settings[r] <= MaxEdits
    /\ settings' = [settings EXCEPT ![r] = @ + 1]
    /\ UNCHANGED <<broken, now, cache, procVars>>

Tick ==
    /\ now < MaxClock
    /\ now' = now + 1
    /\ UNCHANGED <<broken, settings, cache, procVars>>

Next ==
    \/ \E p \in Procs : \/ BuildKey(p) \/ ReadFreshCache(p) \/ FetchFromClaude(p)
                        \/ WriteCache(p) \/ Killed(p)
    \/ \E r \in Projects : Edit(r)
    \/ Tick

Spec == Init /\ [][Next]_vars

----------------------------------------------------------------------------

Entry == [key : Policies, policy : Policies, storedAt : Nat]

\* Every variable holds a value the code's own types allow.
TypeOK ==
    /\ broken \in BOOLEAN
    /\ settings \in [Projects -> Nat]
    /\ now \in Nat
    /\ cache \subseteq Entry
    /\ pc \in [Procs -> PCs]
    /\ proj \in [Procs -> Projects]
    /\ begun \in [Procs -> Nat]
    /\ policy \in [Procs -> Policies]
    /\ got \in [Procs -> Policies]

\* A policy of the project that was in force at some moment since version v.
InForceSince(pol, r, v) ==
    /\ pol.project = r
    /\ v <= pol.version /\ pol.version <= settings[r]

\* The key is built before claude reads the settings, entries are shared and
\* overwritten in any order, processes die: still, whatever policy a call
\* returns was in force in the call's own project at some moment during the
\* call.  No edit made before the call is missed.
PolicyIsCurrent ==
    ~broken => \A p \in Procs :
                  got[p] # Defaults => InForceSince(got[p], proj[p], begun[p])

----------------------------------------------------------------------------

(***************************************************************************)
(* The inductive invariant behind PolicyIsCurrent: an entry may be newer   *)
(* than its key says, never older.                                         *)
(***************************************************************************)

CacheInv ==
    \A e \in cache : /\ e.key.project \in Projects
                     /\ InForceSince(e.policy, e.key.project, e.key.version)

ProcInv ==
    \A p \in Procs :
        /\ begun[p] <= settings[proj[p]]
        /\ pc[p] = "write" => InForceSince(policy[p], proj[p], begun[p])

\* The whole of it, PolicyIsCurrent included.
PolicyInv == TypeOK /\ (~broken => CacheInv /\ ProcInv) /\ PolicyIsCurrent
=============================================================================
