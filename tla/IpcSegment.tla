----------------------------- MODULE IpcSegment -----------------------------
(***************************************************************************)
(* The shared memory segment of common/ipc.c, used by several servers:     *)
(* each is one start of banking_server, from ipc_init_server to            *)
(* ipc_cleanup.  All of them use the one SHM_KEY.  A server that finds a   *)
(* segment under it takes it for an old one, removes it and creates its    *)
(* own; another server may still run on it, or be starting too.            *)
(*                                                                         *)
(* The kernel's side is System V shared memory: IPC_RMID takes the key     *)
(* from a segment, which lives on while a process has it attached.  A      *)
(* start creates at most one segment, which is named after its server.     *)
(***************************************************************************)
EXTENDS Integers

CONSTANTS
  Servers,   \* the starts of banking_server
  Ports,     \* TCP ports
  PortOf,    \* PortOf[s]: the port of s, its argv[1]
  None       \* no server, no segment

ASSUME SegmentAssumption ==
  /\ None \notin Servers
  /\ PortOf \in [Servers -> Ports]

VARIABLES
  spc,        \* spc[s]: where s stands between ipc_init_server and the end
  shm_id,     \* shm_id[s]: its ctx->shm_id
  old_shm,    \* old_shm[s]: the segment it takes for an old one
  attached,   \* attached[s]: the segment its processes have attached
  keyed,      \* the segment SHM_KEY leads to
  tables,     \* tables[g]: the server that initialised the table in g, or None
              \*   when its mutexes are not initialised, or destroyed
  overlapped  \* history: {s, t} when s and t were in ipc_init_server together

vars == <<spc, shm_id, old_shm, attached, keyed, tables, overlapped>>

Segments == Servers \cup {None}

\* ipc_init_server between its first shmget and shmat.
Starting == {"find", "remove", "recreate", "attach"}
\* The workers run: with their master, or left behind by it.
Serving  == {"serving", "orphaned"}
Cleaning == {"destroy", "detach", "unlink"}

TypeOK ==
  /\ spc \in [Servers -> {"off", "init", "listen", "over", "crashed"}
                          \cup Starting \cup Serving \cup Cleaning]
  /\ shm_id \in [Servers -> Segments]
  /\ old_shm \in [Servers -> Segments]
  /\ attached \in [Servers -> Segments]
  /\ keyed \in Segments
  /\ tables \in [Servers -> Segments]
  /\ overlapped \subseteq SUBSET Servers

Init ==
  /\ spc = [s \in Servers |-> "off"]
  /\ shm_id = [s \in Servers |-> None]
  /\ old_shm = [s \in Servers |-> None]
  /\ attached = [s \in Servers |-> None]
  /\ keyed = None
  /\ tables = [s \in Servers |-> None]
  /\ overlapped = {}

Goto(s, from, to) == spc[s] = from /\ spc' = [spc EXCEPT ![s] = to]

\* A segment exists as long as it has its key or is attached.
Exists(g) == g # None /\ (g = keyed \/ \E s \in Servers : attached[s] = g)

\* shmctl(g, IPC_RMID): nothing happens to a segment that has lost its key.
Unlinked(g) == IF keyed = g THEN None ELSE keyed

\* s gets the segment g.
Obtain(s, g) ==
  /\ shm_id' = [shm_id EXCEPT ![s] = g]
  /\ keyed' = g
-----------------------------------------------------------------------------
(***************************************************************************)
(* ipc_init_server                                                         *)
(***************************************************************************)

\* The servers that are in ipc_init_server when s enters it.
Enter(s) ==
  overlapped' = overlapped \cup {{s, t} : t \in {u \in Servers : spc[u] \in Starting}}

\* shmget(..., IPC_CREAT | IPC_EXCL | ...) creates the segment.
Create(s) ==
  /\ Goto(s, "off", "attach") /\ keyed = None
  /\ Obtain(s, s) /\ Enter(s)
  /\ UNCHANGED <<old_shm, attached, tables>>

\* EEXIST
CreateExists(s) ==
  /\ Goto(s, "off", "find") /\ keyed # None
  /\ Enter(s)
  /\ UNCHANGED <<shm_id, old_shm, attached, keyed, tables>>

\* shmget(SHM_KEY, 0, 0) of what is there by now, which may be nothing.
FindOld(s) ==
  /\ Goto(s, "find", IF keyed = None THEN "recreate" ELSE "remove")
  /\ old_shm' = [old_shm EXCEPT ![s] = keyed]
  /\ UNCHANGED <<shm_id, attached, keyed, tables, overlapped>>

\* Mutant: the old segment is not removed.
KeepOld(s) ==
  /\ Goto(s, "remove", "recreate")
  /\ UNCHANGED <<shm_id, old_shm, attached, keyed, tables, overlapped>>

RemoveOld(s) ==
  /\ Goto(s, "remove", "recreate")
  /\ keyed' = Unlinked(old_shm[s])
  /\ UNCHANGED <<shm_id, old_shm, attached, tables, overlapped>>

\* shmget(SHM_KEY, ..., IPC_CREAT | 0666), without IPC_EXCL: a segment another
\* server has created meanwhile is as good as a new one.
Recreate(s) ==
  /\ Goto(s, "recreate", "attach")
  /\ Obtain(s, IF keyed = None THEN s ELSE keyed)
  /\ UNCHANGED <<old_shm, attached, tables, overlapped>>

\* Either shmget fails for want of memory.
CreateFails(s) ==
  /\ Goto(s, "off", "over") \/ Goto(s, "recreate", "over")
  /\ UNCHANGED <<shm_id, old_shm, attached, keyed, tables, overlapped>>

Attach(s) ==
  /\ Goto(s, "attach", "init") /\ Exists(shm_id[s])
  /\ attached' = [attached EXCEPT ![s] = shm_id[s]]
  /\ UNCHANGED <<shm_id, old_shm, keyed, tables, overlapped>>

\* Mutant: ipc_init_server returns without removing the segment.
AttachFailsLeaking(s) ==
  /\ Goto(s, "attach", "over")
  /\ UNCHANGED <<shm_id, old_shm, attached, keyed, tables, overlapped>>

\* shmat fails: for want of memory, or because the segment is gone.
AttachFails(s) ==
  /\ Goto(s, "attach", "over")
  /\ keyed' = Unlinked(shm_id[s])
  /\ UNCHANGED <<shm_id, old_shm, attached, tables, overlapped>>

\* account_init: the table is zeroed and its mutexes initialised.
Initialise(s) ==
  /\ Goto(s, "init", "listen")
  /\ tables' = [tables EXCEPT ![attached[s]] = s]
  /\ UNCHANGED <<shm_id, old_shm, attached, keyed, overlapped>>
-----------------------------------------------------------------------------
(***************************************************************************)
(* The rest of main, as far as the segment and the port go.                *)
(***************************************************************************)

\* socket, bind, listen and the forks.  The workers inherit socket and segment.
Serve(s) ==
  /\ Goto(s, "listen", "serving")
  /\ ~\E t \in Servers : spc[t] \in Serving /\ PortOf[t] = PortOf[s]
  /\ UNCHANGED <<shm_id, old_shm, attached, keyed, tables, overlapped>>

\* One of them fails, for whatever reason, and main cleans up; or the server is
\* shut down and its workers have ended.
Leave(s) ==
  /\ Goto(s, "listen", "destroy") \/ Goto(s, "serving", "destroy")
  /\ UNCHANGED <<shm_id, old_shm, attached, keyed, tables, overlapped>>

\* ipc_cleanup: account_cleanup destroys the mutexes ...
Destroy(s) ==
  /\ Goto(s, "destroy", "detach")
  /\ tables' = [tables EXCEPT ![attached[s]] = None]
  /\ UNCHANGED <<shm_id, old_shm, attached, keyed, overlapped>>

\* ... then shmdt ...
Detach(s) ==
  /\ Goto(s, "detach", "unlink")
  /\ attached' = [attached EXCEPT ![s] = None]
  /\ UNCHANGED <<shm_id, old_shm, keyed, tables, overlapped>>

\* ... and shmctl(ctx->shm_id, IPC_RMID).
Unlink(s) ==
  /\ Goto(s, "unlink", "over")
  /\ keyed' = Unlinked(shm_id[s])
  /\ UNCHANGED <<shm_id, old_shm, attached, tables, overlapped>>
-----------------------------------------------------------------------------
(***************************************************************************)
(* Outside.                                                                *)
(***************************************************************************)

\* The master alone is killed; its workers serve on.
LoseMaster(s) ==
  /\ Goto(s, "serving", "orphaned")
  /\ UNCHANGED <<shm_id, old_shm, attached, keyed, tables, overlapped>>

\* All its processes are killed; the kernel detaches the segment.
Crash(s) ==
  /\ spc[s] \notin {"off", "over", "crashed"}
  /\ spc' = [spc EXCEPT ![s] = "crashed"]
  /\ attached' = [attached EXCEPT ![s] = None]
  /\ UNCHANGED <<shm_id, old_shm, keyed, tables, overlapped>>

\* make clean-ipc
CleanIpc ==
  /\ keyed # None /\ keyed' = None
  /\ UNCHANGED <<spc, shm_id, old_shm, attached, tables, overlapped>>

ServerStep(s) ==
  \/ Create(s) \/ CreateExists(s) \/ FindOld(s) \/ RemoveOld(s) \/ Recreate(s)
  \/ CreateFails(s) \/ Attach(s) \/ AttachFails(s) \/ Initialise(s)
  \/ Serve(s) \/ Leave(s) \/ Destroy(s) \/ Detach(s) \/ Unlink(s)

Next == CleanIpc \/ \E s \in Servers : ServerStep(s) \/ LoseMaster(s) \/ Crash(s)

Spec == Init /\ [][Next]_vars
-----------------------------------------------------------------------------
(***************************************************************************)
(* Properties.                                                             *)
(***************************************************************************)
Met(s) == \E t \in Servers \ {s} : {s, t} \in overlapped

\* The table a server's workers use is the one it initialised, with the mutexes
\* it initialised: no other server zeroes it or destroys its mutexes, whether it
\* starts later, takes over the key, fails to get the port or ends first.  The
\* premise is needed: two servers inside ipc_init_server at once may share.
ServedTableIsOwn ==
  \A s \in Servers : spc[s] \in Serving => tables[attached[s]] = s \/ Met(s)

\* Two starts that share a segment were inside ipc_init_server together.
SharedOnlyByOverlap ==
  \A s, t \in Servers :
    s # t /\ attached[s] # None /\ attached[s] = attached[t] => {s, t} \in overlapped

\* A segment under the key belongs to a server that will still remove it, or
\* that crashed: no path through ipc_init_server and ipc_cleanup leaks it.
NoSegmentLeft ==
  keyed # None =>
    \E s \in Servers : shm_id[s] = keyed /\ spc[s] \notin {"off", "over"}
-----------------------------------------------------------------------------
(***************************************************************************)
(* Why the properties hold: an inductive invariant.                        *)
(***************************************************************************)
Overlap(s, t) == {s, t} \in overlapped

\* A server has a segment from Create or Recreate on, and attaches no other.
HoldInv ==
  \A s \in Servers :
    /\ (spc[s] \in {"off", "find", "remove", "recreate"}) => shm_id[s] = None
    /\ attached[s] \in {None, shm_id[s]}
    /\ (spc[s] \in {"init", "listen", "destroy"} \cup Serving) => attached[s] # None

\* A segment is created by the server it is named after, which then holds it.
NameInv ==
  /\ keyed # None => shm_id[keyed] = keyed
  /\ \A s \in Servers : shm_id[s] # None => shm_id[shm_id[s]] = shm_id[s]

\* What is under the key when a server looks for a segment of its own, other
\* than the old one it removes, has been put there while it was starting.
KeyInv ==
  \A s, t \in Servers :
    /\ spc[s] = "recreate" \/ (spc[s] = "remove" /\ keyed # old_shm[s])
    /\ keyed # None /\ shm_id[t] = keyed
    => Overlap(s, t)

\* Servers overlap that are starting together or hold one segment.
OverlapInv ==
  \A s, t \in Servers : s # t =>
    /\ spc[s] \in Starting /\ spc[t] \in Starting => Overlap(s, t)
    /\ shm_id[s] # None /\ shm_id[s] = shm_id[t] => Overlap(s, t)

\* From account_init on, the table is that of its server.
TableInv ==
  \A s \in Servers :
    spc[s] \in {"listen"} \cup Serving => tables[attached[s]] = s \/ Met(s)

IInv == TypeOK /\ HoldInv /\ NameInv /\ KeyInv /\ OverlapInv /\ TableInv /\ NoSegmentLeft
=============================================================================
