-------------------------- MODULE PolicyCacheProofs --------------------------
(***************************************************************************)
(* For any processes, projects, edits and TTL: a policy LoadOrDefaults     *)
(* returns was in force during the call.                                   *)
(***************************************************************************)
EXTENDS PolicyCache, TLAPS

LEMMA PolicyTypeInit == Init => TypeOK
BY DEF Init, TypeOK, PCs, Policies, Defaults

\* A call that returns a policy leaves well-typed locals behind.
LEMMA ReturnIsTyped ==
    ASSUME TypeOK, NEW p \in Procs, NEW result \in Policies, Return(p, result)
    PROVE  /\ pc' \in [Procs -> PCs]
           /\ got' \in [Procs -> Policies]
           /\ policy' \in [Procs -> Policies]
<1>1. Defaults \in Policies /\ "idle" \in PCs
  BY DEF Defaults, Policies, PCs
<1>. QED  BY <1>1 DEF Return, Goto, TypeOK

LEMMA PolicyTypeStep == TypeOK /\ [Next]_vars => TypeOK'
<1>. SUFFICES ASSUME TypeOK, [Next]_vars PROVE TypeOK'
  OBVIOUS
<1>. USE DEF TypeOK, PCs, Policies, Defaults, Return, Goto
<1>1. ASSUME NEW p \in Procs, BuildKey(p) PROVE TypeOK'
  <2>1. UNCHANGED <<broken, settings, now, cache>>
    BY <1>1 DEF BuildKey
  <2>2. proj' \in [Procs -> Projects] /\ begun' \in [Procs -> Nat]
    BY <1>1 DEF BuildKey
  <2>3. Defaults \in Policies
    OBVIOUS
  <2>4. CASE Return(p, Defaults)
    BY <2>1, <2>2, <2>3, <2>4, ReturnIsTyped
  <2>5. CASE Goto(p, "read") /\ got' = [got EXCEPT ![p] = Defaults] /\ UNCHANGED policy
    BY <2>1, <2>2, <2>3, <2>5
  <2>. QED  BY <1>1, <2>4, <2>5 DEF BuildKey
<1>2. ASSUME NEW p \in Procs, ReadFreshCache(p) PROVE TypeOK'
  <2>1. CASE \E e \in Hits(p) : Return(p, e.policy)
    <3>1. PICK e \in Hits(p) : Return(p, e.policy)
      BY <2>1
    <3>2. e.policy \in Policies
      BY <3>1 DEF Hits, Entry
    <3>. QED  BY <1>2, <3>1, <3>2 DEF ReadFreshCache
  <2>2. CASE Goto(p, "fetch") /\ UNCHANGED <<policy, got>>
    BY <1>2, <2>2 DEF ReadFreshCache
  <2>. QED  BY <1>2, <2>1, <2>2 DEF ReadFreshCache
<1>3. ASSUME NEW p \in Procs, FetchFromClaude(p) PROVE TypeOK'
  <2>1. UNCHANGED <<broken, settings, now, cache, proj, begun>> /\ Defaults \in Policies
    BY <1>3 DEF FetchFromClaude
  <2>2. CASE Return(p, Defaults)
    BY <2>1, <2>2, ReturnIsTyped
  <2>3. CASE /\ policy' = [policy EXCEPT ![p] = [project |-> proj[p], version |-> settings[proj[p]]]]
             /\ Goto(p, "write")
             /\ UNCHANGED got
    BY <2>1, <2>3
  <2>. QED  BY <1>3, <2>2, <2>3 DEF FetchFromClaude
<1>4. ASSUME NEW p \in Procs, WriteCache(p) PROVE TypeOK'
  <2>1. [key |-> Key(p), policy |-> policy[p], storedAt |-> now] \in Entry
    BY DEF Key, Entry
  <2>2. cache' \subseteq Entry
    BY <1>4, <2>1 DEF WriteCache
  <2>. QED  BY <1>4, <2>2 DEF WriteCache
<1>5. ASSUME NEW p \in Procs, Killed(p) PROVE TypeOK'
  BY <1>5 DEF Killed
<1>6. ASSUME NEW r \in Projects, Edit(r) PROVE TypeOK'
  BY <1>6 DEF Edit, procVars
<1>7. CASE Tick
  BY <1>7 DEF Tick, procVars
<1>8. CASE UNCHANGED vars
  BY <1>8 DEF vars, procVars
<1>. QED  BY <1>1, <1>2, <1>3, <1>4, <1>5, <1>6, <1>7, <1>8 DEF Next

\* Every variable keeps its type, for any processes and projects.
THEOREM PolicyTypeCorrect == Spec => []TypeOK
BY PolicyTypeInit, PolicyTypeStep, PTL DEF Spec

-----------------------------------------------------------------------------

\* What a call finds in the cache was in force since it built its key.
LEMMA HitIsInForce ==
    ASSUME CacheInv, TypeOK, ~broken, NEW p \in Procs, NEW e \in Hits(p)
    PROVE  InForceSince(e.policy, proj[p], begun[p])
BY DEF CacheInv, Hits, Key, TypeOK

\* The invariant for the two kinds of bookkeeping, when a permission scope is
\* there.
LEMMA PolicyInvStep ==
    ASSUME TypeOK, TypeOK', ~broken, CacheInv, ProcInv, PolicyIsCurrent, [Next]_vars
    PROVE  CacheInv' /\ ProcInv' /\ PolicyIsCurrent' /\ ~broken'
<1>. USE DEF CacheInv, ProcInv, PolicyIsCurrent
<1>1. ASSUME NEW p \in Procs, BuildKey(p) PROVE CacheInv' /\ ProcInv' /\ PolicyIsCurrent' /\ ~broken'
  <2>1. CacheInv' /\ ~broken'
    BY <1>1 DEF BuildKey, InForceSince
  <2>2. PICK r \in Projects : /\ proj' = [proj EXCEPT ![p] = r]
                              /\ begun' = [begun EXCEPT ![p] = settings[r]]
    BY <1>1 DEF BuildKey
  <2>3. /\ pc'[p] # "write" /\ got'[p] = Defaults /\ settings' = settings
        /\ \A q \in Procs \ {p} : pc'[q] = pc[q] /\ got'[q] = got[q] /\ policy'[q] = policy[q]
    BY <1>1 DEF BuildKey, TypeOK, Return, Goto
  <2>4. /\ proj'[p] = r /\ begun'[p] = settings[r] /\ settings[r] \in Nat
        /\ \A q \in Procs \ {p} : proj'[q] = proj[q] /\ begun'[q] = begun[q]
    BY <2>2 DEF TypeOK
  <2>. QED  BY <2>1, <2>3, <2>4 DEF InForceSince
<1>2. ASSUME NEW p \in Procs, ReadFreshCache(p) PROVE CacheInv' /\ ProcInv' /\ PolicyIsCurrent' /\ ~broken'
  <2>1. CacheInv' /\ ~broken' /\ UNCHANGED <<settings, proj, begun>>
    BY <1>2 DEF ReadFreshCache, InForceSince
  <2>2. CASE \E e \in Hits(p) : Return(p, e.policy)
    <3>1. PICK e \in Hits(p) : Return(p, e.policy)
      BY <2>2
    <3>2. InForceSince(e.policy, proj[p], begun[p])
      BY HitIsInForce
    <3>3. /\ pc'[p] = "idle" /\ got'[p] = e.policy
          /\ \A q \in Procs \ {p} : pc'[q] = pc[q] /\ got'[q] = got[q] /\ policy'[q] = policy[q]
      BY <3>1 DEF Return, Goto, TypeOK
    <3>. QED  BY <2>1, <3>2, <3>3 DEF InForceSince
  <2>3. CASE Goto(p, "fetch") /\ UNCHANGED <<policy, got>>
    BY <2>1, <2>3 DEF Goto, TypeOK, InForceSince
  <2>. QED  BY <1>2, <2>2, <2>3 DEF ReadFreshCache
<1>3. ASSUME NEW p \in Procs, FetchFromClaude(p) PROVE CacheInv' /\ ProcInv' /\ PolicyIsCurrent' /\ ~broken'
  <2>1. CacheInv' /\ ~broken' /\ UNCHANGED <<settings, proj, begun>>
    BY <1>3 DEF FetchFromClaude, InForceSince
  <2>2. CASE /\ policy' = [policy EXCEPT ![p] = [project |-> proj[p], version |-> settings[proj[p]]]]
             /\ Goto(p, "write")
             /\ UNCHANGED got
    <3>1. InForceSince(policy'[p], proj[p], begun[p])
      BY <2>2 DEF InForceSince, TypeOK
    <3>2. \A q \in Procs \ {p} : pc'[q] = pc[q] /\ policy'[q] = policy[q]
      BY <2>2 DEF Goto, TypeOK
    <3>. QED  BY <2>1, <2>2, <3>1, <3>2 DEF InForceSince
  <2>3. CASE Return(p, Defaults)
    BY <2>1, <2>3 DEF Return, Goto, TypeOK, InForceSince
  <2>. QED  BY <1>3, <2>2, <2>3 DEF FetchFromClaude
<1>4. ASSUME NEW p \in Procs, WriteCache(p) PROVE CacheInv' /\ ProcInv' /\ PolicyIsCurrent' /\ ~broken'
  <2>1. /\ Return(p, policy[p]) /\ pc[p] = "write" /\ ~broken'
        /\ UNCHANGED <<settings, proj, begun>>
    BY <1>4 DEF WriteCache
  <2>2. InForceSince(policy[p], proj[p], begun[p])
    BY <2>1
  <2>3. CacheInv'
    <3>1. \A e \in cache' :
             e \in cache \/ e = [key |-> Key(p), policy |-> policy[p], storedAt |-> now]
      BY <1>4 DEF WriteCache
    <3>2. Key(p) = [project |-> proj[p], version |-> begun[p]]
      BY DEF Key
    <3>3. proj[p] \in Projects
      BY DEF TypeOK
    <3>4. SUFFICES ASSUME NEW e \in cache'
                   PROVE  e.key.project \in Projects /\ InForceSince(e.policy, e.key.project, e.key.version)'
      OBVIOUS
    <3>5. CASE e \in cache
      BY <2>1, <3>5 DEF InForceSince
    <3>6. CASE e = [key |-> Key(p), policy |-> policy[p], storedAt |-> now]
      BY <2>1, <2>2, <3>2, <3>3, <3>6 DEF InForceSince
    <3>. QED  BY <3>1, <3>5, <3>6
  <2>4. /\ pc'[p] = "idle" /\ got'[p] = policy[p]
        /\ \A q \in Procs \ {p} : pc'[q] = pc[q] /\ got'[q] = got[q] /\ policy'[q] = policy[q]
    BY <2>1 DEF Return, Goto, TypeOK
  <2>. QED  BY <2>1, <2>2, <2>3, <2>4 DEF InForceSince
<1>5. ASSUME NEW p \in Procs, Killed(p) PROVE CacheInv' /\ ProcInv' /\ PolicyIsCurrent' /\ ~broken'
  BY <1>5 DEF Killed, Return, Goto, TypeOK, InForceSince
<1>6. ASSUME NEW r \in Projects, Edit(r) PROVE CacheInv' /\ ProcInv' /\ PolicyIsCurrent' /\ ~broken'
  <2>1. UNCHANGED <<broken, cache, procVars>>
    BY <1>6 DEF Edit
  <2>2. \A q \in Projects : settings[q] \in Nat /\ settings'[q] \in Nat /\ settings[q] <= settings'[q]
    BY <1>6 DEF Edit, TypeOK
  <2>3. ASSUME NEW q \in Projects, NEW pol \in Policies, NEW v \in Nat, InForceSince(pol, q, v)
        PROVE  pol.project = q /\ v <= pol.version /\ pol.version <= settings'[q]
    BY <2>2, <2>3 DEF InForceSince, Policies
  <2>4. CacheInv'
    <3>. SUFFICES ASSUME NEW e \in cache
                  PROVE  /\ e.policy.project = e.key.project
                         /\ e.key.version <= e.policy.version
                         /\ e.policy.version <= settings'[e.key.project]
      BY <2>1 DEF InForceSince
    <3>1. e \in Entry /\ InForceSince(e.policy, e.key.project, e.key.version)
      BY DEF TypeOK
    <3>. QED  BY <2>2, <2>3, <3>1 DEF Entry, Policies
  <2>5. ProcInv' /\ PolicyIsCurrent' /\ ~broken'
    BY <2>1, <2>2, <2>3 DEF procVars, TypeOK, InForceSince, Policies
  <2>. QED  BY <2>4, <2>5
<1>7. CASE Tick
  BY <1>7 DEF Tick, procVars, InForceSince
<1>8. CASE UNCHANGED vars
  BY <1>8 DEF vars, procVars, InForceSince
<1>. QED  BY <1>1, <1>2, <1>3, <1>4, <1>5, <1>6, <1>7, <1>8 DEF Next

\* The cache and the calls under way hold policies at least as new as their
\* keys, for any processes, projects, edits and TTL.
THEOREM PolicyInvCorrect == Spec => []PolicyInv
<1>1. Init => PolicyInv
  BY PolicyTypeInit
  DEF Init, PolicyInv, TypeOK, CacheInv, ProcInv, PolicyIsCurrent, Defaults
<1>2. PolicyInv /\ [Next]_vars => PolicyInv'
  <2>. SUFFICES ASSUME PolicyInv, [Next]_vars PROVE PolicyInv'
    OBVIOUS
  <2>1. TypeOK /\ TypeOK'
    BY PolicyTypeStep DEF PolicyInv
  <2>2. CASE ~broken
    BY <2>1, <2>2, PolicyInvStep DEF PolicyInv
  <2>3. CASE broken
    <3>1. broken' = broken
      BY DEF Next, vars, procVars, BuildKey, ReadFreshCache, FetchFromClaude, WriteCache,
             Killed, Edit, Tick
    <3>. QED  BY <2>1, <2>3, <3>1 DEF PolicyInv, PolicyIsCurrent
  <2>. QED  BY <2>2, <2>3
<1>. QED  BY <1>1, <1>2, PTL DEF Spec

\* Whatever policy a call returns was in force in its project during the call.
THEOREM PolicyStaysCurrent == Spec => []PolicyIsCurrent
<1>1. PolicyInv => PolicyIsCurrent
  BY DEF PolicyInv
<1>. QED  BY <1>1, PolicyInvCorrect, PTL
=============================================================================
