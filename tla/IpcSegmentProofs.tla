-------------------------- MODULE IpcSegmentProofs --------------------------
(***************************************************************************)
(* The properties of IpcSegment hold for any number of servers on any      *)
(* ports, however their starts and ends interleave.                        *)
(***************************************************************************)
EXTENDS IpcSegment, TLAPS

USE SegmentAssumption DEF Segments, Starting, Serving, Cleaning

\* The invariant holds when no server has started.
LEMMA InitIInv == Init => IInv
  BY DEF Init, IInv, TypeOK, HoldInv, NameInv, KeyInv, OverlapInv, TableInv,
         NoSegmentLeft, Overlap, Met

\* Every action keeps the variables in their types.
LEMMA StepTypeOK == IInv /\ [Next]_vars => TypeOK'
<1> SUFFICES ASSUME TypeOK, HoldInv, [Next]_vars PROVE TypeOK'
  BY DEF IInv
<1>1. ASSUME NEW s \in Servers, Create(s) \/ CreateExists(s) PROVE TypeOK'
  BY <1>1 DEF TypeOK, Create, CreateExists, Goto, Obtain, Enter
<1>2. ASSUME NEW s \in Servers,
             FindOld(s) \/ RemoveOld(s) \/ Recreate(s) \/ CreateFails(s)
      PROVE  TypeOK'
  BY <1>2 DEF TypeOK, FindOld, RemoveOld, Recreate, CreateFails, Goto, Obtain, Unlinked
<1>3. ASSUME NEW s \in Servers,
             Attach(s) \/ AttachFails(s) \/ Serve(s) \/ Leave(s)
      PROVE  TypeOK'
  BY <1>3 DEF TypeOK, Attach, AttachFails, Serve, Leave, Goto, Unlinked
<1>4. ASSUME NEW s \in Servers, Initialise(s) \/ Destroy(s)
      PROVE  TypeOK'
  BY <1>4 DEF TypeOK, HoldInv, Initialise, Destroy, Goto
<1>5. ASSUME NEW s \in Servers, Detach(s) \/ Unlink(s) \/ LoseMaster(s) \/ Crash(s)
      PROVE  TypeOK'
  BY <1>5 DEF TypeOK, Detach, Unlink, LoseMaster, Crash, Goto, Unlinked
<1>6. CASE CleanIpc
  BY <1>6 DEF TypeOK, CleanIpc
<1>7. CASE UNCHANGED vars
  BY <1>7 DEF TypeOK, vars
<1> QED BY <1>1, <1>2, <1>3, <1>4, <1>5, <1>6, <1>7 DEF Next, ServerStep

\* Only Obtain gives a segment and only Attach attaches one.
LEMMA StepHoldInv == IInv /\ [Next]_vars => HoldInv'
<1> SUFFICES ASSUME TypeOK, HoldInv, [Next]_vars PROVE HoldInv'
  BY DEF IInv
<1> USE DEF TypeOK, HoldInv, Goto
<1>1. ASSUME NEW s \in Servers, Create(s) \/ CreateExists(s) PROVE HoldInv'
  BY <1>1 DEF Create, CreateExists, Obtain
<1>2. ASSUME NEW s \in Servers, FindOld(s) \/ RemoveOld(s) \/ CreateFails(s)
      PROVE  HoldInv'
  BY <1>2 DEF FindOld, RemoveOld, CreateFails
<1>3. ASSUME NEW s \in Servers, Recreate(s) PROVE HoldInv'
  BY <1>3 DEF Recreate, Obtain
<1>4. ASSUME NEW s \in Servers, Attach(s) \/ AttachFails(s) PROVE HoldInv'
  BY <1>4 DEF Attach, AttachFails, Exists
<1>5. ASSUME NEW s \in Servers,
             Initialise(s) \/ Serve(s) \/ Leave(s) \/ LoseMaster(s)
      PROVE  HoldInv'
  BY <1>5 DEF Initialise, Serve, Leave, LoseMaster
<1>6. ASSUME NEW s \in Servers, Destroy(s) \/ Detach(s) \/ Unlink(s) \/ Crash(s)
      PROVE  HoldInv'
  BY <1>6 DEF Destroy, Detach, Unlink, Crash
<1>7. CASE CleanIpc \/ UNCHANGED vars
  BY <1>7 DEF CleanIpc, vars
<1> QED BY <1>1, <1>2, <1>3, <1>4, <1>5, <1>6, <1>7 DEF Next, ServerStep

\* A segment comes into being when its namesake creates it.
LEMMA StepNameInv == IInv /\ [Next]_vars => NameInv'
<1> SUFFICES ASSUME TypeOK, HoldInv, NameInv, [Next]_vars PROVE NameInv'
  BY DEF IInv
<1> USE DEF TypeOK, NameInv
<1>1. ASSUME NEW s \in Servers, Create(s) \/ Recreate(s) PROVE NameInv'
  <2>1. shm_id[s] = None
    BY <1>1 DEF Create, Recreate, Goto, HoldInv
  <2>2. \E g \in Servers : /\ g = s \/ (g = keyed /\ keyed # None)
                           /\ shm_id' = [shm_id EXCEPT ![s] = g] /\ keyed' = g
    BY <1>1 DEF Create, Recreate, Obtain
  <2> QED BY <2>1, <2>2
<1>2. ASSUME NEW s \in Servers, ServerStep(s) \/ LoseMaster(s) \/ Crash(s) \/ CleanIpc,
             ~(Create(s) \/ Recreate(s))
      PROVE  shm_id' = shm_id /\ keyed' \in {None, keyed}
  BY <1>2 DEF ServerStep, CreateExists, FindOld, RemoveOld, CreateFails, Attach,
     AttachFails, Initialise, Serve, Leave, Destroy, Detach, Unlink, LoseMaster, Crash,
     CleanIpc, Unlinked
<1>3. ASSUME NEW s \in Servers, ServerStep(s) \/ LoseMaster(s) \/ Crash(s)
      PROVE  NameInv'
  BY <1>1, <1>2, <1>3
<1>4. CASE CleanIpc \/ UNCHANGED vars
  BY <1>4 DEF CleanIpc, vars
<1> QED BY <1>3, <1>4 DEF Next

\* The order of the two servers of an overlap does not matter.
LEMMA OverlapIsMutual ==
  \A s, t : (Overlap(s, t) <=> Overlap(t, s)) /\ (Overlap(s, t)' <=> Overlap(t, s)')
<1>1. \A s, t : {s, t} = {t, s}
  OBVIOUS
<1> QED BY <1>1 DEF Overlap

\* What has overlapped stays so, and a server that enters ipc_init_server
\* overlaps all that are in it.
LEMMA OverlapGrows ==
  ASSUME [Next]_vars
  PROVE  /\ \A s, t : Overlap(s, t) => Overlap(s, t)'
         /\ \A s \in Servers : Create(s) \/ CreateExists(s) =>
              \A t \in Servers : spc[t] \in Starting => Overlap(s, t)'
<1>1. ASSUME NEW s \in Servers, Create(s) \/ CreateExists(s)
      PROVE  /\ overlapped \subseteq overlapped'
             /\ \A t \in Servers : spc[t] \in Starting => {s, t} \in overlapped'
  BY <1>1 DEF Create, CreateExists, Enter
<1>2. ASSUME NEW s \in Servers, ServerStep(s) \/ LoseMaster(s) \/ Crash(s),
             ~(Create(s) \/ CreateExists(s))
      PROVE  overlapped' = overlapped
  BY <1>2 DEF ServerStep, FindOld, RemoveOld, Recreate, CreateFails, Attach,
     AttachFails, Initialise, Serve, Leave, Destroy, Detach, Unlink, LoseMaster, Crash
<1>3. ASSUME CleanIpc \/ UNCHANGED vars PROVE overlapped' = overlapped
  BY <1>3 DEF CleanIpc, vars
<1>4. overlapped \subseteq overlapped'
  BY <1>1, <1>2, <1>3 DEF Next
<1> QED BY <1>1, <1>4 DEF Overlap

\* What a step may change of what KeyInv and OverlapInv speak of: a server
\* enters ipc_init_server, goes on in it, obtains a segment, or leaves.
LEMMA StepOverlapInv == IInv /\ [Next]_vars => OverlapInv'
<1> SUFFICES ASSUME TypeOK, HoldInv, NameInv, KeyInv, OverlapInv, [Next]_vars
             PROVE  OverlapInv'
  BY DEF IInv
<1> USE DEF TypeOK
<1>1. ASSUME NEW s \in Servers, Create(s) PROVE OverlapInv'
  <2>1. \A t \in Servers : shm_id[t] # s
    BY <1>1 DEF Create, Goto, HoldInv, NameInv
  <2>2. /\ spc' = [spc EXCEPT ![s] = "attach"]
        /\ shm_id' = [shm_id EXCEPT ![s] = s]
    BY <1>1 DEF Create, Goto, Obtain
  <2> QED BY <1>1, <2>1, <2>2, OverlapGrows, OverlapIsMutual DEF OverlapInv
<1>2. ASSUME NEW s \in Servers, CreateExists(s) PROVE OverlapInv'
  <2>1. spc' = [spc EXCEPT ![s] = "find"] /\ shm_id' = shm_id
    BY <1>2 DEF CreateExists, Goto
  <2> QED BY <1>2, <2>1, OverlapGrows, OverlapIsMutual DEF OverlapInv
<1>3. ASSUME NEW s \in Servers, Recreate(s) PROVE OverlapInv'
  <2>1. \A t \in Servers : keyed = None => shm_id[t] # s
    BY <1>3 DEF Recreate, Goto, HoldInv, NameInv
  <2>2. \A t \in Servers : keyed # None /\ shm_id[t] = keyed => Overlap(s, t)
    BY <1>3 DEF Recreate, Goto, KeyInv
  <2>3. /\ spc[s] \in Starting /\ spc' = [spc EXCEPT ![s] = "attach"]
        /\ shm_id' = [shm_id EXCEPT ![s] = IF keyed = None THEN s ELSE keyed]
    BY <1>3 DEF Recreate, Goto, Obtain
  <2> QED BY <2>1, <2>2, <2>3, OverlapGrows, OverlapIsMutual DEF OverlapInv
<1>4. ASSUME NEW s \in Servers, ServerStep(s) \/ LoseMaster(s) \/ Crash(s),
             ~(Create(s) \/ CreateExists(s) \/ Recreate(s))
      PROVE  /\ shm_id' = shm_id
             /\ \A t \in Servers : spc'[t] \in Starting => spc[t] \in Starting
  BY <1>4 DEF ServerStep, FindOld, RemoveOld, CreateFails, Attach, AttachFails,
     Initialise, Serve, Leave, Destroy, Detach, Unlink, LoseMaster, Crash, Goto
<1>5. CASE CleanIpc \/ UNCHANGED vars
  BY <1>5, OverlapGrows DEF CleanIpc, vars, OverlapInv
<1> QED BY <1>1, <1>2, <1>3, <1>4, <1>5, OverlapGrows DEF Next, OverlapInv

\* A segment that appears under the key while a server looks for one of its own
\* has been created by a server that is starting too.
LEMMA StepKeyInv == IInv /\ [Next]_vars => KeyInv'
<1> SUFFICES ASSUME TypeOK, HoldInv, NameInv, KeyInv, OverlapInv, [Next]_vars
             PROVE  KeyInv'
  BY DEF IInv
<1> USE DEF TypeOK
<1>1. ASSUME NEW s \in Servers, Create(s) PROVE KeyInv'
  <2>1. \A t \in Servers : shm_id[t] # s
    BY <1>1 DEF Create, Goto, HoldInv, NameInv
  <2>2. /\ spc' = [spc EXCEPT ![s] = "attach"] /\ old_shm' = old_shm
        /\ shm_id' = [shm_id EXCEPT ![s] = s] /\ keyed' = s
    BY <1>1 DEF Create, Goto, Obtain
  <2> QED BY <1>1, <2>1, <2>2, OverlapGrows, OverlapIsMutual DEF KeyInv
<1>2. ASSUME NEW s \in Servers, Recreate(s) PROVE KeyInv'
  <2>1. \A t \in Servers : keyed = None => shm_id[t] # s
    BY <1>2 DEF Recreate, Goto, HoldInv, NameInv
  <2>2. /\ spc[s] \in Starting /\ spc' = [spc EXCEPT ![s] = "attach"]
        /\ old_shm' = old_shm
        /\ shm_id' = [shm_id EXCEPT ![s] = IF keyed = None THEN s ELSE keyed]
        /\ keyed' = IF keyed = None THEN s ELSE keyed
    BY <1>2 DEF Recreate, Goto, Obtain
  <2>3. \A u \in Servers \ {s} : spc[u] \in Starting => Overlap(u, s)
    BY <2>2 DEF OverlapInv
  <2> QED BY <2>1, <2>2, <2>3, OverlapGrows DEF KeyInv
<1>3. ASSUME NEW s \in Servers, FindOld(s) PROVE KeyInv'
  <2>1. /\ spc' = [spc EXCEPT ![s] = IF keyed = None THEN "recreate" ELSE "remove"]
        /\ old_shm' = [old_shm EXCEPT ![s] = keyed]
        /\ shm_id' = shm_id /\ keyed' = keyed
    BY <1>3 DEF FindOld, Goto
  <2> QED BY <2>1, OverlapGrows DEF KeyInv
<1>4. ASSUME NEW s \in Servers, RemoveOld(s) PROVE KeyInv'
  <2>1. /\ spc[s] = "remove" /\ spc' = [spc EXCEPT ![s] = "recreate"]
        /\ old_shm' = old_shm /\ shm_id' = shm_id
        /\ keyed' = IF keyed = old_shm[s] THEN None ELSE keyed
    BY <1>4 DEF RemoveOld, Goto, Unlinked
  <2> QED BY <2>1, OverlapGrows DEF KeyInv
<1>5. ASSUME NEW s \in Servers, ServerStep(s) \/ LoseMaster(s) \/ Crash(s),
             ~(Create(s) \/ Recreate(s) \/ FindOld(s) \/ RemoveOld(s))
      PROVE  /\ shm_id' = shm_id /\ old_shm' = old_shm /\ keyed' \in {None, keyed}
             /\ \A t \in Servers :
                  spc'[t] \in {"remove", "recreate"} => spc'[t] = spc[t]
  BY <1>5 DEF ServerStep, CreateExists, CreateFails, Attach, AttachFails, Initialise,
     Serve, Leave, Destroy, Detach, Unlink, LoseMaster, Crash, Goto, Unlinked
<1>6. ASSUME NEW s \in Servers, ServerStep(s) \/ LoseMaster(s) \/ Crash(s),
             ~(Create(s) \/ Recreate(s) \/ FindOld(s) \/ RemoveOld(s))
      PROVE  KeyInv'
  BY <1>5, <1>6, OverlapGrows DEF KeyInv
<1>7. CASE CleanIpc \/ UNCHANGED vars
  BY <1>7, OverlapGrows DEF CleanIpc, vars, KeyInv
<1> QED BY <1>1, <1>2, <1>3, <1>4, <1>6, <1>7 DEF Next

\* The table of a server is written by servers that have attached the same
\* segment, and these overlapped.
LEMMA StepTableInv == IInv /\ [Next]_vars => TableInv'
<1> SUFFICES ASSUME TypeOK, HoldInv, OverlapInv, TableInv, [Next]_vars
             PROVE  TableInv'
  BY DEF IInv
<1> USE DEF TypeOK
<1>1. \A s \in Servers : Met(s) => Met(s)'
  BY OverlapGrows DEF Met, Overlap
<1>2. ASSUME NEW s \in Servers, NEW t \in Servers, s # t,
             attached[s] # None, attached[s] = attached[t]
      PROVE  Met(s)
  BY <1>2 DEF HoldInv, OverlapInv, Met, Overlap
<1>3. ASSUME NEW u \in Servers, Initialise(u) \/ Destroy(u) PROVE TableInv'
  <2>1. /\ attached[u] \in Servers /\ attached' = attached
        /\ \A s \in Servers : attached[s] # attached[u] =>
             tables'[attached[s]] = tables[attached[s]] \/ attached[s] = None
        /\ spc'[u] = "listen" => tables'[attached[u]] = u
        /\ spc'[u] \in {"listen", "detach"}
        /\ \A s \in Servers \ {u} : spc'[s] = spc[s]
    BY <1>3 DEF Initialise, Destroy, Goto, HoldInv
  <2>2. \A s \in Servers : spc[s] \in {"listen"} \cup Serving => attached[s] # None
    BY DEF HoldInv
  <2> QED BY <1>1, <1>2, <2>1, <2>2 DEF TableInv
<1>4. ASSUME NEW u \in Servers, ServerStep(u) \/ LoseMaster(u) \/ Crash(u),
             ~(Initialise(u) \/ Destroy(u))
      PROVE  /\ tables' = tables
             /\ \A s \in Servers :
                  spc'[s] \in {"listen"} \cup Serving =>
                    /\ spc[s] \in {"listen"} \cup Serving
                    /\ attached'[s] = attached[s]
  BY <1>4 DEF ServerStep, Create, CreateExists, FindOld, RemoveOld, Recreate,
     CreateFails, Attach, AttachFails, Serve, Leave, Detach, Unlink, LoseMaster, Crash,
     Goto
<1>5. ASSUME CleanIpc \/ UNCHANGED vars
      PROVE  tables' = tables /\ spc' = spc /\ attached' = attached
  BY <1>5 DEF CleanIpc, vars
<1> QED BY <1>1, <1>3, <1>4, <1>5 DEF Next, TableInv

\* A server that ends takes its segment's key away, or holds none.
LEMMA StepNoSegmentLeft == IInv /\ [Next]_vars => NoSegmentLeft'
<1> SUFFICES ASSUME TypeOK, HoldInv, NoSegmentLeft, [Next]_vars
             PROVE  NoSegmentLeft'
  BY DEF IInv
<1> USE DEF TypeOK, NoSegmentLeft
<1>1. ASSUME NEW s \in Servers, Create(s) \/ Recreate(s) PROVE NoSegmentLeft'
  BY <1>1 DEF Create, Recreate, Goto, Obtain
<1>2. ASSUME NEW s \in Servers, AttachFails(s) \/ Unlink(s) PROVE NoSegmentLeft'
  BY <1>2 DEF AttachFails, Unlink, Unlinked, Goto
<1>3. ASSUME NEW s \in Servers, CreateFails(s) PROVE NoSegmentLeft'
  <2>1. shm_id[s] = None
    BY <1>3 DEF CreateFails, Goto, HoldInv
  <2> QED BY <1>3, <2>1 DEF CreateFails, Goto
<1>4. ASSUME NEW s \in Servers, ServerStep(s) \/ LoseMaster(s) \/ Crash(s),
             ~(Create(s) \/ Recreate(s) \/ AttachFails(s) \/ Unlink(s) \/ CreateFails(s))
      PROVE  /\ shm_id' = shm_id /\ keyed' \in {None, keyed}
             /\ \A t \in Servers :
                  spc[t] \notin {"off", "over"} => spc'[t] \notin {"off", "over"}
  BY <1>4 DEF ServerStep, CreateExists, FindOld, RemoveOld, Attach, Initialise, Serve,
     Leave, Destroy, Detach, LoseMaster, Crash, Goto, Unlinked
<1>5. CASE CleanIpc \/ UNCHANGED vars
  BY <1>5 DEF CleanIpc, vars
<1> QED BY <1>1, <1>2, <1>3, <1>4, <1>5 DEF Next
-----------------------------------------------------------------------------
\* The inductive invariant holds throughout: what each start of a server holds,
\* and with whom it was in ipc_init_server when it got it.
THEOREM InvariantHolds == Spec => []IInv
<1>1. IInv /\ [Next]_vars => IInv'
  BY StepTypeOK, StepHoldInv, StepNameInv, StepKeyInv, StepOverlapInv, StepTableInv,
     StepNoSegmentLeft DEF IInv
<1> QED BY InitIInv, <1>1, PTL DEF Spec

\* The table a server serves from is its own, for any number of servers.
THEOREM TablesAreOwn == Spec => []ServedTableIsOwn
<1>1. IInv => ServedTableIsOwn
  BY DEF IInv, TableInv, ServedTableIsOwn
<1> QED BY InvariantHolds, <1>1, PTL

\* Servers that share a segment were starting together.
THEOREM SharingIsOverlap == Spec => []SharedOnlyByOverlap
<1>1. IInv => SharedOnlyByOverlap
  BY DEF IInv, TypeOK, HoldInv, OverlapInv, Overlap, SharedOnlyByOverlap
<1> QED BY InvariantHolds, <1>1, PTL

\* The segment under the key has a server that will remove it, or that crashed.
THEOREM SegmentsAreRemoved == Spec => []NoSegmentLeft
<1>1. IInv => NoSegmentLeft
  BY DEF IInv
<1> QED BY InvariantHolds, <1>1, PTL

\* The locals of every start and the kernel's tables keep their types.
THEOREM TypesHold == Spec => []TypeOK
<1>1. IInv => TypeOK
  BY DEF IInv
<1> QED BY InvariantHolds, <1>1, PTL
=============================================================================
