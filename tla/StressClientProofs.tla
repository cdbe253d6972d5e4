------------------------- MODULE StressClientProofs -------------------------
(***************************************************************************)
(* What the threads of stress_client.c may rely on, for any number of      *)
(* threads, flows, workers, codes and crashes.                             *)
(***************************************************************************)
EXTENDS StressClient, BankingServerProofs, FiniteSetTheorems

USE MoneyAssumption, CallsAssumption, ServerAssumption, StressAssumption

\* The packet of a thread, step by step.
Planned(c) ==
  LET db(op, amount) == [kind |-> "db", n |-> sent[c] + 1,
                         r |-> [op |-> op, id |-> AccountOf[c], amount |-> amount]]
      otps(op, code) == [kind |-> "otp", n |-> sent[c] + 1,
                         r |-> [op |-> op, account |-> AccountOf[c], otp |-> code]]
  IN  /\ step[c] \in {"create", "otp", "login", "deposit"}
      /\ step[c] = "create"  => PacketOf(c) = db("create", InitialBalance)
      /\ step[c] = "otp"     => PacketOf(c) = otps("generate", NoCode)
      /\ step[c] = "login"   => PacketOf(c) = otps("verify", otp_code[c])
      /\ step[c] = "deposit" => PacketOf(c) = db("deposit", Deposit)

LEMMA Asked == step \in [Clients -> Steps] => \A c \in Clients : Planned(c)
<1> SUFFICES ASSUME step \in [Clients -> Steps], NEW c \in Clients PROVE Planned(c)
  OBVIOUS
<1>1. step[c] \in {"create", "otp", "login", "deposit"}
  BY DEF Steps
<1>2. CASE step[c] = "create"
  BY <1>2 DEF PacketOf, PacketFor, Planned
<1>3. CASE step[c] = "otp"
  BY <1>3 DEF PacketOf, PacketFor, Planned
<1>4. CASE step[c] = "login"
  BY <1>4 DEF PacketOf, PacketFor, Planned
<1>5. CASE step[c] = "deposit"
  BY <1>5 DEF PacketOf, PacketFor, Planned
<1> QED
  BY <1>1, <1>2, <1>3, <1>4, <1>5

LEMMA AskedNext == (step \in [Clients -> Steps])' => (\A c \in Clients : Planned(c))'
BY Asked, PTL

\* They are packets of BankingServer.
LEMMA PacketTyped ==
  ASSUME StressTypeOK, ThreadInv, NEW c \in Clients, sent[c] < Sends[c]
  PROVE  PacketOf(c) \in Packets
<1>1. sent[c] + 1 \in 1..MaxSends /\ step[c] \in Steps /\ AccountOf[c] \in Ids
  BY DEF StressTypeOK, TypeOK
<1>2. step[c] = "login" => otp_code[c] \in Otps
  BY DEF ThreadInv
<1> QED
  BY <1>1, <1>2, Asked DEF StressTypeOK, Planned, Packets, Requests, OTP!Requests, Steps

\* A thread is a client of BankingServer, and the end of the process the end of
\* all of them.
LEMMA StressIsServing ==
  ASSUME StressTypeOK, ThreadInv, [StressNext]_stressVars
  PROVE  [Next]_vars
<1>1. ASSUME NEW c \in Clients, ThreadStep(c) PROVE Next
  <2>1. CASE Begin(c)
    BY <2>1 DEF Begin, Next
  <2>2. CASE NeverConnects(c)
    BY <2>2 DEF NeverConnects, Next
  <2>3. CASE SendNext(c)
    <3>1. Send(c, PacketOf(c)) /\ sent[c] < Sends[c]
      BY <2>3 DEF SendNext, Send
    <3>2. PacketOf(c) \in Packets
      BY <3>1, PacketTyped
    <3> QED
      BY <3>1, <3>2 DEF Next
  <2>4. CASE ReceiveNext(c)
    BY <2>4 DEF ReceiveNext, Next
  <2>5. CASE FlowFails(c)
    BY <2>5 DEF FlowFails, Next
  <2>6. CASE Finish(c)
    BY <2>6 DEF Finish, Leave, Next
  <2> QED
    BY <1>1, <2>1, <2>2, <2>3, <2>4, <2>5, <2>6 DEF ThreadStep
<1>2. CASE SigPipe
  BY <1>2 DEF SigPipe, Next
<1>3. CASE Report \/ UNCHANGED stressVars
  BY <1>3 DEF Report, stressVars
<1>4. CASE OtpFails \/ \E w \in Workers : WorkerStep(w) \/ Die(w)
  BY <1>4 DEF Next
<1> QED
  BY <1>1, <1>2, <1>3, <1>4 DEF StressNext

-----------------------------------------------------------------------------
(***************************************************************************)
(* Where the outcome of a request is.                                      *)
(***************************************************************************)

\* A live worker has the packet of c in hand.
Busy(w, c) == alive[w] /\ Working(w, c)

Said(c) == [status |-> Head(toClient[c]).status, otp |-> Head(toClient[c]).otp]

LEMMA Hands ==
  ASSUME NEW w \in Workers
  PROVE  /\ phase[w] = "done" => InHand(w) = {[status |-> ans[w].code, otp |-> NoCode]}
         /\ phase[w] # "done" /\ ophase[w] = "done" =>
              InHand(w) = {[status |-> IF oans[w].status = 1 THEN Success ELSE Error,
                            otp |-> oans[w].otp]}
         /\ phase[w] # "done" /\ ophase[w] # "done" => InHand(w) = {}
         /\ InHand(w) = {} => phase[w] # "done" /\ ophase[w] # "done"
<1>1. CASE phase[w] = "done"
  BY <1>1 DEF InHand
<1>2. CASE phase[w] # "done" /\ ophase[w] = "done"
  BY <1>2 DEF InHand
<1>3. CASE phase[w] # "done" /\ ophase[w] # "done"
  BY <1>3 DEF InHand
<1> QED
  BY <1>1, <1>2, <1>3

\* One of: answered and on its way back, in the hands of one worker, neither.
Place(c) ==
  /\ toClient[c] # <<>> =>
       /\ OnItsWay(c) = {Said(c)} /\ ~ToDo(c) /\ cpc[c] = "pending"
       /\ \A w \in Workers : ~Working(w, c)
  /\ \A w \in Workers : Busy(w, c) =>
       /\ OnItsWay(c) = InHand(w) /\ (ToDo(c) <=> InHand(w) = {})
       /\ open[c] /\ cpc[c] \in {"pending", "gone"}
       /\ toServer[c] = <<>> /\ toClient[c] = <<>>
  /\ toClient[c] = <<>> /\ (\A w \in Workers : ~Busy(w, c)) =>
       /\ OnItsWay(c) = {}
       /\ ToDo(c) <=> \/ cpc[c] \in {"off", "waiting"} \/ (cpc[c] = "ready" /\ open[c])
                      \/ toServer[c] # <<>>
  /\ ToDo(c) => OnItsWay(c) = {} /\ toClient[c] = <<>>
  /\ toServer[c] # <<>> =>
       open[c] /\ cpc[c] \in {"pending", "gone"} /\ \A w \in Workers : ~Working(w, c)
  /\ \A w \in Workers : serving[w] = c =>
       (open[c] <=> alive[w]) /\ cpc[c] \in {"ready", "pending", "gone"}
  /\ cpc[c] \in {"off", "waiting"} => ~open[c]

Places == \A c \in Clients : Place(c)

LEMMA PlacesHold == IInv => Places
<1> SUFFICES ASSUME IInv, NEW c \in Clients PROVE Place(c)
  BY DEF Places
<1>1. OnePlace(c) /\ c # Nobody
  BY DEF IInv, PacketInv
<1>2. /\ \A w \in Workers : serving[w] = c =>
          (open[c] <=> alive[w]) /\ cpc[c] \in {"ready", "pending", "gone"}
      /\ cpc[c] \in {"off", "waiting"} => ~open[c]
  BY <1>1 DEF IInv, ConnectionInv
<1>3. \A v, w \in Workers : serving[v] = c /\ serving[w] = c => v = w
  BY <1>1 DEF IInv, ConnectionInv
<1>4. \A w \in Workers : Busy(w, c) =>
        /\ open[c] /\ cpc[c] \in {"pending", "gone"}
        /\ toServer[c] = <<>> /\ toClient[c] = <<>>
  BY <1>1, <1>2 DEF Busy, Working, OnePlace, AtHand, IInv, PacketInv
<1>5. OnItsWay(c) = {m \in {Said(c)} : toClient[c] # <<>>}
                    \cup UNION {InHand(w) : w \in {v \in Workers : Busy(v, c)}}
  BY DEF OnItsWay, Said, Busy
<1>6. toClient[c] # <<>> =>
        /\ OnItsWay(c) = {Said(c)} /\ ~ToDo(c) /\ cpc[c] = "pending"
        /\ \A w \in Workers : ~Working(w, c)
  <2> SUFFICES ASSUME toClient[c] # <<>>
               PROVE  /\ OnItsWay(c) = {Said(c)} /\ ~ToDo(c) /\ cpc[c] = "pending"
                      /\ \A w \in Workers : ~Working(w, c)
    OBVIOUS
  <2>1. cpc[c] = "pending" /\ toServer[c] = <<>> /\ \A w \in Workers : ~Working(w, c)
    BY <1>1 DEF OnePlace
  <2> QED
    BY <1>5, <2>1 DEF ToDo, Busy
<1>7. ASSUME NEW w \in Workers, Busy(w, c)
      PROVE  OnItsWay(c) = InHand(w) /\ (ToDo(c) <=> InHand(w) = {})
  <2>1. \A v \in Workers : Busy(v, c) => v = w
    BY <1>3, <1>7 DEF Busy, Working
  <2>2. {v \in Workers : Busy(v, c)} = {w}
    BY <1>7, <2>1
  <2>3. toServer[c] = <<>> /\ toClient[c] = <<>> /\ cpc[c] \in {"pending", "gone"}
    BY <1>4, <1>7
  <2>4. OnItsWay(c) = InHand(w)
    BY <1>5, <2>2, <2>3
  <2>5. ToDo(c) <=> InHand(w) = {}
    BY <1>7, <2>1, <2>3 DEF ToDo, Busy
  <2> QED
    BY <2>4, <2>5
<1>8. ASSUME toClient[c] = <<>>, \A w \in Workers : ~Busy(w, c)
      PROVE  /\ OnItsWay(c) = {}
             /\ ToDo(c) <=> \/ cpc[c] \in {"off", "waiting"} \/ (cpc[c] = "ready" /\ open[c])
                            \/ toServer[c] # <<>>
  BY <1>5, <1>8 DEF ToDo, Busy
<1>9. ToDo(c) => OnItsWay(c) = {} /\ toClient[c] = <<>>
  BY <1>6, <1>7, <1>8
<1> QED
  BY <1>1, <1>2, <1>4, <1>6, <1>7, <1>8, <1>9 DEF Place, OnePlace

LEMMA InHandSame ==
  ASSUME NEW w \in Workers, UNCHANGED <<phase[w], ans[w], ophase[w], oans[w]>>
  PROVE  InHand(w)' = InHand(w)
BY DEF InHand

-----------------------------------------------------------------------------
(***************************************************************************)
(* StressInv, sorted by what it is about.                                  *)
(***************************************************************************)
ThreadTyped ==
  /\ step \in [Clients -> Steps]
  /\ flows \in [Clients -> Nat] /\ confirmed \in [Clients -> Nat]
  /\ \A c \in Clients : confirmed[c] <= flows[c] /\ flows[c] <= Flows[c]
  /\ otp_code \in [Clients -> Otps \cup {NoCode}]
  /\ run \in {"running", "reported", "killed"}
  /\ since \in [Clients -> 0..MaxCrashes]
  /\ failed \in BOOLEAN

\* About a thread.
Fine(c) ==
  /\ cpc[c] \in {"off", "waiting"} => step[c] = "create" /\ flows[c] = 0
  /\ cpc[c] = "pending" \/ step[c] # "create" => flows[c] < Flows[c]
  /\ since[c] <= crashes
  /\ step[c] = "login" => otp_code[c] \in Otps
  /\ step[c] = "otp" =>
       \A x \in OnItsWay(c) : x.status = Success => x.otp \in Otps
  /\ toServer[c] # <<>> => Mine(c, Head(toServer[c]))
  /\ Books(c) /\ CodeKept(c)
  /\ Healthy => Flowing(c)

\* About a worker.
Handled(w) ==
  handling[w] # NoPacket =>
    /\ alive[w] => Mine(serving[w], handling[w])
    /\ handling[w].kind = "otp" => handling[w].r.account = AccountOf[serving[w]]

\* About the OTP service and the workers.
Served ==
  Healthy =>
    /\ crashes = 0 /\ up /\ \A w \in Workers : alive[w]
    /\ \A i \in Ids : codes[i] # <<>> => \E c \in Clients : i = AccountOf[c]

Parts ==
  /\ ThreadTyped /\ IInv /\ RoomInv /\ Served
  /\ \A c \in Clients : Fine(c)
  /\ \A w \in Workers : Handled(w)

LEMMA SortedOut == StressInv <=> Parts /\ LoginAccepted
<1>1. StressTypeOK /\ IInv <=> ThreadTyped /\ IInv
  BY DEF StressTypeOK, ThreadTyped, IInv
<1>2. ThreadInv /\ HealthInv /\ (\A c \in Clients : Books(c) /\ CodeKept(c))
      <=> (\A c \in Clients : Fine(c)) /\ (\A w \in Workers : Handled(w)) /\ Served
  BY DEF ThreadInv, HealthInv, Fine, Handled, Served
<1> QED
  BY <1>1, <1>2 DEF StressInv, Parts

LEMMA WellTyped == Parts => StressTypeOK /\ ThreadInv /\ IInv
BY DEF Parts, ThreadTyped, IInv, StressTypeOK, ThreadInv, Fine, Handled

LEMMA ServingKeeps ==
  Parts /\ [StressNext]_stressVars => IInv' /\ Places /\ Places'
<1>1. Parts => StressTypeOK /\ ThreadInv /\ IInv
  BY WellTyped
<1>2. Parts /\ [StressNext]_stressVars => IInv'
  BY <1>1, StressIsServing, StepKeeps
<1>3. IInv' => Places'
  BY PlacesHold, PTL
<1> QED
  BY <1>1, <1>2, <1>3, PlacesHold

\* No failure escapes notice, and no step of the server moves a thread.
LEMMA NotedFailures ==
  ASSUME ThreadTyped, Noted
  PROVE  /\ Healthy' => /\ Healthy /\ UNCHANGED <<crashes, alive>>
                        /\ \A w \in Workers : ~OTP!GiveUp(w)
         /\ UNCHANGED <<step, flows, otp_code, confirmed, since, run>>
         /\ failed' \in BOOLEAN
<1>1. UNCHANGED <<step, flows, otp_code, confirmed, since, run>>
  BY DEF Noted, program
<1>2. failed' = (failed \/ crashes' # crashes \/ alive' # alive
                        \/ \E w \in Workers : OTP!GiveUp(w))
  BY DEF Noted
<1>3. failed' \in BOOLEAN
  BY <1>2
<1>4. ~failed' => /\ ~failed /\ crashes' = crashes /\ alive' = alive
                 /\ \A w \in Workers : ~OTP!GiveUp(w)
  BY <1>2
<1> QED
  BY <1>1, <1>3, <1>4 DEF Healthy, Room

-----------------------------------------------------------------------------
(***************************************************************************)
(* What concerns a thread stays when what it waits for stays or is lost.   *)
(***************************************************************************)
LEMMA SameAsk ==
  ASSUME step \in [Clients -> Steps], step' \in [Clients -> Steps], NEW c \in Clients,
         UNCHANGED <<step[c], otp_code[c]>>
  PROVE  PacketOf(c)'.kind = PacketOf(c).kind /\ PacketOf(c)'.r = PacketOf(c).r
BY Asked, AskedNext DEF Planned

\* The step of c and what the services hold of its account stay.
Still(c) ==
  UNCHANGED <<step[c], flows[c], otp_code[c], confirmed[c], since[c],
              bal[AccountOf[c]], codes[AccountOf[c]], crashes, up>>

\* No more is to be done for c, or on its way to it, than before.
NoMore(c) ==
  /\ OnItsWay(c)' \subseteq OnItsWay(c)
  /\ ToDo(c)' => ToDo(c)
  /\ open'[c] => open[c] \/ cpc[c] = "waiting"
  /\ toServer'[c] # <<>> => toServer'[c] = toServer[c]
  /\ cpc'[c] \in {"off", "waiting"} => cpc[c] \in {"off", "waiting"}
  /\ cpc'[c] = "pending" => cpc[c] = "pending"

\* As long as nothing has failed, c gets what is on its way to it.
NoLess(c) ==
  /\ OnItsWay(c)' = OnItsWay(c) \/ cpc[c] = "gone"
  /\ cpc'[c] \in {"ready", "pending"} => open'[c]
  /\ cpc'[c] = "gone" => cpc[c] = "gone" \/ step[c] = "create"

LEMMA FineStays ==
  ASSUME ThreadTyped, ThreadTyped', NEW c \in Clients, Fine(c), Still(c), NoMore(c),
         Healthy' => Healthy /\ NoLess(c)
  PROVE  Fine(c)'
<1> USE DEF Still, NoMore
<1>1. /\ cpc'[c] \in {"off", "waiting"} => step'[c] = "create" /\ flows'[c] = 0
      /\ cpc'[c] = "pending" \/ step'[c] # "create" => flows'[c] < Flows[c]
      /\ since'[c] <= crashes' /\ step'[c] = "login" => otp_code'[c] \in Otps
  BY DEF Fine
<1>2. step'[c] = "otp" => \A x \in OnItsWay(c)' : x.status = Success => x.otp \in Otps
  BY DEF Fine
<1>3. toServer'[c] # <<>> => Mine(c, Head(toServer[c]))'
  BY SameAsk DEF Fine, Mine, ThreadTyped
<1>4. Books(c)'
  <2>1. ToDo(c)' => bal'[AccountOf[c]] # InitialBalance + Deposit * confirmed'[c] + Deposit
    BY DEF Fine, Books
  <2>2. \A x \in OnItsWay(c)' :
          bal'[AccountOf[c]] = InitialBalance + Deposit * confirmed'[c] + Deposit
            <=> step'[c] = "deposit" /\ x.status = Success
    BY DEF Fine, Books
  <2>3. /\ Room /\ \/ open'[c] /\ (step'[c] # "create" \/ flows'[c] > 0)
                   \/ OnItsWay(c)' # {}
        => bal'[AccountOf[c]] # NoAccount
    BY DEF Fine, Books
  <2>4. \/ bal'[AccountOf[c]] \in {InitialBalance + Deposit * confirmed'[c],
                                   InitialBalance + Deposit * confirmed'[c] + Deposit}
        \/ bal'[AccountOf[c]] = NoAccount /\ confirmed'[c] = 0
    BY DEF Fine, Books
  <2> QED
    BY <2>1, <2>2, <2>3, <2>4 DEF Books, Room
<1>5. CodeKept(c)'
  BY DEF Fine, CodeKept, TopCode
<1>6. Healthy' => Flowing(c)'
  <2> SUFFICES ASSUME Healthy' PROVE Flowing(c)'
    OBVIOUS
  <2>1. Flowing(c) /\ NoLess(c)
    BY DEF Fine
  <2> QED
    BY <2>1 DEF Flowing, NoLess
<1> QED
  BY <1>1, <1>2, <1>3, <1>4, <1>5, <1>6 DEF Fine

\* A worker goes on with its packet, drops it, or takes the one that has come.
Keeps(w) ==
  \/ handling'[w] = NoPacket
  \/ /\ serving'[w] = serving[w] /\ handling'[w] = handling[w] /\ (alive'[w] => alive[w])
     /\ alive[w] /\ handling[w] # NoPacket =>
          UNCHANGED <<step[serving[w]], otp_code[serving[w]]>>
  \/ \E c \in Clients : /\ serving'[w] = c /\ toServer[c] # <<>>
                        /\ handling'[w] = Head(toServer[c])
                        /\ UNCHANGED <<step[c], otp_code[c]>>

LEMMA HandledStays ==
  ASSUME Parts, ThreadTyped', NEW w \in Workers, Keeps(w)
  PROVE  Handled(w)'
<1>1. CASE handling'[w] = NoPacket
  BY <1>1 DEF Handled
<1>2. CASE /\ serving'[w] = serving[w] /\ handling'[w] = handling[w] /\ (alive'[w] => alive[w])
           /\ alive[w] /\ handling[w] # NoPacket =>
                UNCHANGED <<step[serving[w]], otp_code[serving[w]]>>
  <2>1. handling[w] # NoPacket => serving[w] \in Clients
    BY AtWork DEF Parts, IInv
  <2> QED
    BY <1>2, <2>1, SameAsk DEF Handled, Mine, Parts, ThreadTyped
<1>3. ASSUME NEW c \in Clients, serving'[w] = c, toServer[c] # <<>>,
             handling'[w] = Head(toServer[c]), UNCHANGED <<step[c], otp_code[c]>>
      PROVE  Handled(w)'
  <2>1. Mine(c, Head(toServer[c])) /\ Planned(c)
    BY <1>3, Asked DEF Parts, Fine, ThreadTyped
  <2>2. PacketOf(c).kind = "otp" => PacketOf(c).r.account = AccountOf[c]
    BY <2>1 DEF Planned
  <2> QED
    BY <1>3, <2>1, <2>2, SameAsk DEF Handled, Mine, Parts, ThreadTyped
<1> QED
  BY <1>1, <1>2, <1>3 DEF Keeps

\* A step that neither takes a thread on with its flow nor changes what the
\* services hold.
LEMMA PartsStay ==
  ASSUME Parts, [StressNext]_stressVars,
         UNCHANGED <<step, flows, otp_code, confirmed, since, bal, opened, codes, crashes, up>>,
         run' \in {"running", "reported", "killed"}, failed' \in BOOLEAN,
         Healthy' => Healthy /\ UNCHANGED alive,
         \A c \in Clients : NoMore(c) /\ (Healthy' => NoLess(c)),
         \A w \in Workers : Keeps(w)
  PROVE  Parts'
<1>1. ThreadTyped /\ ThreadTyped'
  BY DEF Parts, ThreadTyped
<1>2. IInv'
  BY ServingKeeps
<1>3. RoomInv'
  BY DEF Parts, RoomInv
<1>4. Served'
  BY DEF Parts, Served
<1>5. ASSUME NEW c \in Clients PROVE Fine(c)'
  BY <1>1, FineStays DEF Parts, Still
<1>6. ASSUME NEW w \in Workers PROVE Handled(w)'
  BY <1>1, HandledStays
<1> QED
  BY <1>1, <1>2, <1>3, <1>4, <1>5, <1>6 DEF Parts

-----------------------------------------------------------------------------
(***************************************************************************)
(* A thread connects, ends, or the process ends.                           *)
(***************************************************************************)

\* Nothing is on its way to c, or to be done for it, that was not before.
LEMMA Aside ==
  ASSUME NEW c \in Clients,
         toServer'[c] \in {toServer[c], <<>>}, toClient'[c] \in {toClient[c], <<>>},
         \A w \in Workers : Busy(w, c)' => Busy(w, c) /\ InHand(w)' = InHand(w)
  PROVE  /\ OnItsWay(c)' \subseteq OnItsWay(c)
         /\ toClient'[c] = toClient[c] /\ (\A w \in Workers : Busy(w, c) => Busy(w, c)')
              => OnItsWay(c)' = OnItsWay(c)
         /\ ToDo(c)' => \/ ToDo(c) \/ cpc'[c] \in {"off", "waiting"}
                        \/ cpc'[c] = "ready" /\ open'[c]
<1>1. OnItsWay(c) = {m \in {Said(c)} : toClient[c] # <<>>}
                    \cup UNION {InHand(w) : w \in {v \in Workers : Busy(v, c)}}
  BY DEF OnItsWay, Said, Busy
<1>2. OnItsWay(c)' = {m \in {Said(c)'} : toClient'[c] # <<>>}
                    \cup UNION {InHand(w)' : w \in {v \in Workers : Busy(v, c)'}}
  BY DEF OnItsWay, Said, Busy
<1>3. UNION {InHand(w)' : w \in {v \in Workers : Busy(v, c)'}}
      \subseteq UNION {InHand(w) : w \in {v \in Workers : Busy(v, c)}}
  OBVIOUS
<1>4. (\A w \in Workers : Busy(w, c) => Busy(w, c)')
        => UNION {InHand(w)' : w \in {v \in Workers : Busy(v, c)'}}
           = UNION {InHand(w) : w \in {v \in Workers : Busy(v, c)}}
  OBVIOUS
<1>5. toClient'[c] = toClient[c] => Said(c)' = Said(c)
  BY DEF Said
<1>6. ToDo(c)' => \/ ToDo(c) \/ cpc'[c] \in {"off", "waiting"}
                  \/ cpc'[c] = "ready" /\ open'[c]
  BY DEF ToDo, Busy
<1> QED
  BY <1>1, <1>2, <1>3, <1>4, <1>5, <1>6

LEMMA ClientSide ==
  ASSUME NEW c \in Clients, UNCHANGED <<services, serving, handling, toServer[c]>>,
         toClient'[c] \in {toClient[c], <<>>}
  PROVE  /\ OnItsWay(c)' \subseteq OnItsWay(c)
         /\ toClient'[c] = toClient[c] => OnItsWay(c)' = OnItsWay(c)
         /\ ToDo(c)' => \/ ToDo(c) \/ cpc'[c] \in {"off", "waiting"}
                        \/ cpc'[c] = "ready" /\ open'[c]
<1>1. UNCHANGED <<phase, ans, ophase, oans, alive>>
  BY DEF services, ledger, otp
<1>2. \A w \in Workers : InHand(w)' = InHand(w) /\ (Busy(w, c)' <=> Busy(w, c))
  BY <1>1, InHandSame DEF Busy, Working
<1> QED
  BY <1>2, Aside

LEMMA SameServices ==
  UNCHANGED services => UNCHANGED <<bal, opened, codes, crashes, up, alive>>
BY DEF services, ledger, otp

LEMMA BeginParts ==
  ASSUME Parts, [StressNext]_stressVars, NEW c \in Clients, Begin(c)
  PROVE  Parts'
<1>1. /\ UNCHANGED <<services, serving, handling, open, toServer, toClient>>
      /\ cpc[c] = "off" /\ cpc' = [cpc EXCEPT ![c] = "waiting"]
      /\ UNCHANGED <<step, flows, otp_code, confirmed, since, run, failed>>
  BY DEF Begin, Connect, wires, thread, program
<1>2. cpc \in [Clients -> {"off", "waiting", "ready", "pending", "gone"}]
  BY DEF Parts, IInv, TypeOK
<1>3. Healthy' => Healthy /\ UNCHANGED alive
  BY <1>1, SameServices DEF Healthy, Room
<1>4. ASSUME NEW d \in Clients PROVE NoMore(d) /\ (Healthy' => NoLess(d))
  <2>1. ToDo(d)' => ToDo(d)
    BY <1>1, <1>2, ClientSide DEF ToDo
  <2>2. OnItsWay(d)' = OnItsWay(d)
    BY <1>1, ClientSide
  <2>3. Healthy => Flowing(d)
    BY DEF Parts, Fine
  <2> QED
    BY <1>1, <1>2, <1>3, <2>1, <2>2, <2>3 DEF NoMore, NoLess, Flowing
<1>5. ASSUME NEW w \in Workers PROVE Keeps(w)
  BY <1>1, SameServices DEF Keeps
<1>6. run' \in {"running", "reported", "killed"} /\ failed' \in BOOLEAN
  BY <1>1 DEF Parts, ThreadTyped
<1> QED
  BY <1>1, <1>3, <1>4, <1>5, <1>6, SameServices, PartsStay

LEMMA EndParts ==
  ASSUME Parts, [StressNext]_stressVars, NEW cs \in SUBSET Clients, EndProcess(cs),
         UNCHANGED <<step, flows, otp_code, confirmed, since, failed>>,
         run' \in {"running", "reported", "killed"},
         Healthy => \A c \in cs : toClient[c] = <<>> /\ step[c] = "create"
  PROVE  Parts'
<1>1. /\ UNCHANGED <<services, serving, handling, open, toServer>>
      /\ \A d \in Clients :
           \/ d \in cs /\ cpc'[d] = "gone" /\ toClient'[d] = <<>>
           \/ d \notin cs /\ cpc'[d] = cpc[d] /\ toClient'[d] = toClient[d]
  BY DEF EndProcess
<1>2. (Healthy' => Healthy /\ UNCHANGED alive) /\ failed' \in BOOLEAN
  BY <1>1, SameServices DEF Healthy, Room, Parts, ThreadTyped
<1>3. ASSUME NEW d \in Clients PROVE NoMore(d) /\ (Healthy' => NoLess(d))
  <2>1. ToDo(d)' => ToDo(d)
    BY <1>1, ClientSide DEF ToDo
  <2>2. OnItsWay(d)' \subseteq OnItsWay(d) /\ (Healthy => OnItsWay(d)' = OnItsWay(d))
    BY <1>1, ClientSide
  <2>3. Healthy => Flowing(d)
    BY DEF Parts, Fine
  <2>4. NoMore(d)
    BY <1>1, <2>1, <2>2 DEF NoMore
  <2>5. Healthy => NoLess(d)
    BY <1>1, <2>2, <2>3 DEF NoLess, Flowing
  <2> QED
    BY <1>2, <2>4, <2>5
<1>4. ASSUME NEW w \in Workers PROVE Keeps(w)
  BY <1>1, SameServices DEF Keeps
<1> QED
  BY <1>1, <1>2, <1>3, <1>4, SameServices, PartsStay

LEMMA ThreadEndsParts ==
  ASSUME Parts, [StressNext]_stressVars,
         SigPipe \/ \E c \in Clients : NeverConnects(c) \/ Finish(c)
  PROVE  Parts'
<1>0. Places /\ run \in {"running", "reported", "killed"}
  BY ServingKeeps DEF Parts, ThreadTyped
<1>1. CASE SigPipe
  <2>1. PICK c \in Clients : Lost(c) /\ cpc[c] = "ready"
    BY <1>1 DEF SigPipe
  <2>2. ~Healthy
    BY <2>1 DEF Parts, Fine, Flowing, Lost
  <2> QED
    BY <1>1, <2>2, EndParts DEF SigPipe
<1>2. ASSUME NEW c \in Clients, NeverConnects(c) PROVE Parts'
  <2>1. toClient[c] = <<>> /\ step[c] = "create"
    BY <1>0, <1>2 DEF NeverConnects, Places, Place, Parts, Fine
  <2> QED
    BY <1>0, <1>2, <2>1, EndParts DEF NeverConnects, thread, program
<1>3. ASSUME NEW c \in Clients, Finish(c) PROVE Parts'
  <2>1. toClient[c] = <<>>
    BY <1>0, <1>3 DEF Finish, Places, Place
  <2>2. step[c] = "create"
    BY <1>3 DEF Finish, Parts, Fine, ThreadTyped
  <2> QED
    BY <1>0, <1>3, <2>1, <2>2, EndParts DEF Finish, Leave, thread, program
<1> QED
  BY <1>1, <1>2, <1>3

\* Nothing but run changes.
LEMMA ReportParts ==
  ASSUME Parts, [StressNext]_stressVars, Report \/ UNCHANGED stressVars
  PROVE  Parts'
<1>1. /\ UNCHANGED <<services, serving, handling, open, toServer, toClient, cpc>>
      /\ UNCHANGED <<step, flows, otp_code, confirmed, since, failed>>
      /\ run' \in {"running", "reported", "killed"} /\ failed' \in BOOLEAN
  BY DEF Report, stressVars, vars, wires, thread, program, Parts, ThreadTyped
<1>2. Healthy' => Healthy /\ UNCHANGED alive
  BY <1>1, SameServices DEF Healthy, Room
<1>3. ASSUME NEW d \in Clients PROVE NoMore(d) /\ (Healthy' => NoLess(d))
  <2>1. ToDo(d)' => ToDo(d)
    BY <1>1, ClientSide DEF ToDo
  <2>2. OnItsWay(d)' = OnItsWay(d)
    BY <1>1, ClientSide
  <2>3. Healthy => Flowing(d)
    BY DEF Parts, Fine
  <2> QED
    BY <1>1, <1>2, <2>1, <2>2, <2>3 DEF NoMore, NoLess, Flowing
<1>4. ASSUME NEW w \in Workers PROVE Keeps(w)
  BY <1>1, SameServices DEF Keeps
<1> QED
  BY <1>1, <1>2, <1>3, <1>4, SameServices, PartsStay

-----------------------------------------------------------------------------
(***************************************************************************)
(* A worker accepts, reads, calls a service, answers, ends a connection or *)
(* dies.                                                                   *)
(***************************************************************************)
Untouched(v) ==
  UNCHANGED <<serving[v], handling[v], alive[v], phase[v], ans[v], ophase[v], oans[v]>>

\* A worker does nothing for c.
LEMMA ElseStays ==
  ASSUME Parts, NEW w \in Workers, NEW c \in Clients, \A v \in Workers \ {w} : Untouched(v),
         ~Busy(w, c), ~Busy(w, c)',
         UNCHANGED <<toClient[c], toServer[c], cpc[c], open[c]>>
  PROVE  /\ OnItsWay(c)' = OnItsWay(c) /\ (ToDo(c)' => ToDo(c))
         /\ NoMore(c) /\ (Healthy => NoLess(c))
<1>1. \A v \in Workers : /\ Busy(v, c)' <=> Busy(v, c)
                         /\ Busy(v, c) => InHand(v)' = InHand(v)
  BY InHandSame DEF Untouched, Busy, Working
<1>2. OnItsWay(c)' = OnItsWay(c) /\ (ToDo(c)' => ToDo(c))
  BY <1>1, Aside DEF ToDo
<1>3. Healthy => Flowing(c)
  BY DEF Parts, Fine
<1> QED
  BY <1>2, <1>3 DEF NoMore, NoLess, Flowing

\* Whom a live worker has a packet of, it serves alone.
LEMMA OnlyOne ==
  ASSUME IInv, NEW w \in Workers, NEW c \in Clients, serving[w] = c
  PROVE  \A v \in Workers \ {w} : serving[v] # c
BY DEF IInv, ConnectionInv

\* A worker gets on with what it does for the client it serves.
LEMMA WorkerQuiet ==
  ASSUME Parts, [StressNext]_stressVars,
         NEW w \in Workers, NEW c \in Clients, serving[w] = c,
         Noted, UNCHANGED <<bal, opened, codes, crashes, up, alive, serving, cpc, open>>,
         \A v \in Workers \ {w} : Untouched(v), Keeps(w),
         \A d \in Clients \ {c} : UNCHANGED <<toClient[d], toServer[d]>>,
         toServer'[c] \in {toServer[c], <<>>}, ToDo(c)' => ToDo(c),
         OnItsWay(c)' = OnItsWay(c) \/ (OnItsWay(c)' = {} /\ cpc[c] = "gone")
  PROVE  Parts'
<1>1. UNCHANGED <<step, flows, otp_code, confirmed, since, run>> /\ failed' \in BOOLEAN
  BY NotedFailures DEF Parts
<1>2. Healthy' => Healthy
  BY NotedFailures DEF Parts
<1>3. ASSUME NEW d \in Clients \ {c} PROVE NoMore(d) /\ (Healthy => NoLess(d))
  BY <1>3, ElseStays DEF Busy, Working
<1>4. NoMore(c) /\ (Healthy => NoLess(c))
  <2>1. Healthy => Flowing(c)
    BY DEF Parts, Fine
  <2> QED
    BY <2>1 DEF NoMore, NoLess, Flowing
<1>5. ASSUME NEW v \in Workers PROVE Keeps(v)
  BY <1>1 DEF Keeps, Untouched
<1>6. run' \in {"running", "reported", "killed"}
  BY <1>1 DEF Parts, ThreadTyped
<1> QED
  BY <1>1, <1>2, <1>3, <1>4, <1>5, <1>6, PartsStay

\* What w has in hand, for the client it serves.
LEMMA AtServer ==
  ASSUME Parts, Places, NEW w \in Workers, alive[w], handling[w] # NoPacket
  PROVE  /\ serving[w] \in Clients /\ Busy(w, serving[w]) /\ Place(serving[w])
         /\ OnItsWay(serving[w]) = InHand(w) /\ (ToDo(serving[w]) <=> InHand(w) = {})
         /\ toServer[serving[w]] = <<>> /\ toClient[serving[w]] = <<>>
         /\ open[serving[w]] /\ cpc[serving[w]] \in {"pending", "gone"}
         /\ Mine(serving[w], handling[w]) /\ Planned(serving[w])
         /\ Fine(serving[w])
<1>1. serving[w] \in Clients /\ Busy(w, serving[w])
  BY AtWork DEF Parts, IInv, Busy
<1>2. Place(serving[w]) /\ Planned(serving[w]) /\ Fine(serving[w])
  BY <1>1, Asked DEF Places, Parts, ThreadTyped
<1> QED
  BY <1>1, <1>2 DEF Place, Parts, Handled

LEMMA TakePacketParts ==
  ASSUME Parts, [StressNext]_stressVars, Noted,
         NEW w \in Workers, NEW c \in Clients, TakePacket(w, c)
  PROVE  Parts'
<1>1. /\ alive[w] /\ serving[w] = c /\ handling[w] = NoPacket /\ phase[w] = "idle"
      /\ toServer[c] # <<>> /\ UNCHANGED <<services, serving, cpc, open, toClient>>
      /\ handling' = [handling EXCEPT ![w] = Head(toServer[c])]
      /\ toServer' = [toServer EXCEPT ![c] = Tail(@)]
  BY DEF TakePacket, ReadsFrom
<1>2. UNCHANGED <<phase, ans, ophase, oans, alive>>
  BY <1>1 DEF services, ledger, otp
<1>3. /\ TypeOK /\ ConnectionInv /\ PacketInv /\ CallInv /\ EffectInv
      /\ Places /\ Places'
  BY ServingKeeps DEF Parts, IInv
<1>4. /\ Head(toServer[c]) \in Packets
      /\ [toServer EXCEPT ![c] = Tail(@)] = [toServer EXCEPT ![c] = <<>>]
      /\ toServer \in [Clients -> Seq(Packets)]
      /\ handling \in [Workers -> Packets \cup {NoPacket}]
  <2>1. ReadsFrom(w, c)
    BY DEF TakePacket
  <2>2. /\ Head(toServer[c]) \in Packets
        /\ [toServer EXCEPT ![c] = Tail(@)] = [toServer EXCEPT ![c] = <<>>]
    BY ONLY <1>1, <1>3, <2>1, AtRead
  <2>3. /\ toServer \in [Clients -> Seq(Packets)]
        /\ handling \in [Workers -> Packets \cup {NoPacket}]
    BY <1>3 DEF TypeOK
  <2> QED
    BY ONLY <2>2, <2>3
<1>5. Head(toServer[c]) # NoPacket /\ ophase[w] = "idle"
  BY <1>1, <1>3, <1>4, PacketFacts DEF CallInv, TypeOK, OTP!TypeOK
<1>6. InHand(w) = {} /\ InHand(w)' = {} /\ Busy(w, c)'
  BY <1>1, <1>2, <1>4, <1>5 DEF InHand, Busy, Working
<1>7. OnItsWay(c) = {} /\ ToDo(c)
  BY <1>1, <1>3 DEF ToDo, Places, Place
<1>8. OnItsWay(c)' = {} /\ ToDo(c)'
  BY <1>3, <1>6 DEF Places, Place
<1>9. Keeps(w)
  <2>1. UNCHANGED <<step, otp_code>>
    BY NotedFailures DEF Parts
  <2> QED
    BY <1>1, <1>4, <2>1 DEF Keeps
<1>10. \A v \in Workers \ {w} : Untouched(v)
  BY <1>1, <1>2, <1>4 DEF Untouched
<1>11. \A d \in Clients \ {c} : UNCHANGED <<toClient[d], toServer[d]>>
  BY <1>1, <1>4
<1>12. toServer'[c] = <<>>
  BY <1>1, <1>4
<1> QED
  BY <1>1, <1>7, <1>8, <1>9, <1>10, <1>11, <1>12, SameServices, WorkerQuiet

\* A call of database or OTP service begins.
LEMMA CallParts ==
  ASSUME Parts, [StressNext]_stressVars, Noted,
         NEW w \in Workers, CallDatabase(w) \/ CallOtp(w)
  PROVE  Parts'
<1>1. /\ UNCHANGED <<serving, handling, cpc, open, toServer, toClient>>
      /\ UNCHANGED <<bal, opened, codes, crashes, up, alive, ans, oans>>
      /\ alive[w] /\ handling[w] # NoPacket /\ phase[w] # "done" /\ ophase[w] # "done"
      /\ \/ phase' = [phase EXCEPT ![w] = "called"] /\ UNCHANGED ophase
         \/ ophase' = [ophase EXCEPT ![w] = "called"] /\ UNCHANGED phase
  BY DEF CallDatabase, CallOtp, DB!Start, OTP!Start, Meanwhile, wires, ledger, otp,
         NoPacket, Parts, IInv, CallInv
<1>2. /\ Places /\ Places' /\ phase \in [Workers -> {"idle", "called", "done"}]
      /\ ophase \in [Workers -> {"idle", "called", "done"}]
  BY ServingKeeps DEF Parts, IInv, TypeOK, DB!TypeOK, OTP!TypeOK
<1>3. InHand(w) = {} /\ InHand(w)' = {}
  BY <1>1, <1>2 DEF InHand
<1>4. PICK c \in Clients : c = serving[w]
  BY <1>1, <1>2, AtServer
<1>5. Busy(w, c) /\ Busy(w, c)'
  BY <1>1, <1>4 DEF Busy, Working
<1>6. OnItsWay(c)' = OnItsWay(c) /\ ToDo(c)
  BY <1>2, <1>3, <1>5 DEF Places, Place
<1>7. Keeps(w)
  <2>1. UNCHANGED <<step, otp_code>>
    BY NotedFailures DEF Parts
  <2> QED
    BY <1>1, <2>1 DEF Keeps
<1>8. \A v \in Workers \ {w} : Untouched(v)
  BY <1>1, <1>2 DEF Untouched
<1> QED
  BY <1>1, <1>4, <1>6, <1>7, <1>8, WorkerQuiet

\* What is answered has been on its way before.
LEMMA AnswerParts ==
  ASSUME Parts, [StressNext]_stressVars,
         NEW w \in Workers, alive[w], handling[w] # NoPacket,
         Noted, UNCHANGED <<bal, opened, codes, crashes, up, alive>>,
         \A v \in Workers \ {w} : UNCHANGED <<phase[v], ans[v], ophase[v], oans[v]>>,
         NEW status \in Codes, NEW balance \in Money \cup {Unwritten},
         NEW code \in Otps \cup {NoCode}, Answer(w, status, balance, code),
         InHand(w) = {[status |-> status, otp |-> code]}
  PROVE  Parts'
<1>0. PICK c \in Clients : c = serving[w]
  BY AtWork DEF Parts, IInv
<1>1. /\ TypeOK /\ PacketInv /\ IInv /\ Places /\ Places'
      /\ handling \in [Workers -> Packets \cup {NoPacket}]
  BY ServingKeeps DEF Parts, IInv, TypeOK
<1>2. Busy(w, c) /\ OnItsWay(c) = InHand(w) /\ toServer[c] = <<>>
      /\ toClient[c] = <<>> /\ cpc[c] \in {"pending", "gone"}
  BY <1>0, <1>1, AtServer
<1>3. /\ handling' = [handling EXCEPT ![w] = NoPacket]
      /\ UNCHANGED <<serving, cpc, open, toServer>>
      /\ \A d \in Clients :
           \/ toClient'[d] = toClient[d] /\ (d # c \/ cpc[d] = "gone")
           \/ /\ d = c /\ cpc[c] = "pending" /\ toClient'[c] # <<>>
              /\ Head(toClient'[c]) = Response(handling[w], status, balance, code)
  BY <1>0, <1>1, Answered
<1>4. \A v \in Workers : ~Busy(v, c)'
  BY <1>0, <1>1, <1>2, <1>3, OnlyOne DEF Busy, Working
<1>5. \/ OnItsWay(c)' = OnItsWay(c) /\ ~ToDo(c)'
      \/ OnItsWay(c)' = {} /\ ~ToDo(c)' /\ cpc[c] = "gone"
  <2>1. CASE toClient'[c] = <<>>
    <3>1. OnItsWay(c)' = {} /\ ~ToDo(c)' /\ cpc[c] = "gone"
      BY <1>1, <1>2, <1>3, <1>4, <2>1 DEF Places, Place
    <3> QED
      BY <3>1
  <2>2. CASE toClient'[c] # <<>>
    <3>1. Head(toClient'[c]) = Response(handling[w], status, balance, code)
      BY <1>2, <1>3, <2>2
    <3>2. Said(c)' = [status |-> status, otp |-> code]
      BY <3>1 DEF Said, Response
    <3>3. OnItsWay(c)' = {Said(c)'} /\ ~ToDo(c)'
      BY <1>1, <1>2, <2>2 DEF Places, Place
    <3> QED
      BY <1>2, <3>2, <3>3
  <2> QED
    BY <2>1, <2>2
<1>6. Keeps(w)
  BY <1>1, <1>3 DEF Keeps
<1>7. \A v \in Workers \ {w} : Untouched(v)
  BY <1>1, <1>3 DEF Untouched
<1>8. \A d \in Clients \ {c} : UNCHANGED <<toClient[d], toServer[d]>>
  BY <1>3
<1> QED
  BY <1>0, <1>2, <1>3, <1>5, <1>6, <1>7, <1>8, WorkerQuiet

LEMMA RespondParts ==
  ASSUME Parts, [StressNext]_stressVars, Noted, NEW w \in Workers, Respond(w)
  PROVE  Parts'
<1> DEFINE balance == IF req[w].op = "create" THEN req[w].amount ELSE ans[w].out
<1>1. /\ alive[w] /\ phase[w] = "done" /\ Answer(w, ans[w].code, balance, NoCode)
      /\ UNCHANGED <<bal, opened, codes, crashes, up, alive, ophase, oans>>
      /\ phase' = [phase EXCEPT ![w] = "idle"] /\ ans' = [ans EXCEPT ![w] = DB!Bare(DB!OK)]
  BY DEF Respond, DB!Finish, otp
<1>2. /\ phase \in [Workers -> {"idle", "called", "done"}] /\ ans \in [Workers -> Answers]
      /\ CallInv /\ handling \in [Workers -> Packets \cup {NoPacket}]
  BY SameInterface DEF Parts, IInv, TypeOK, DB!TypeOK
<1>3. handling[w] # NoPacket /\ req[w] = handling[w].r /\ handling[w].r \in Requests
  BY <1>1, <1>2, PacketFacts DEF CallInv
<1>4. ans[w].code \in Codes /\ balance \in Money \cup {Unwritten}
  BY <1>2, <1>3, RequestFacts DEF Answers
<1>5. InHand(w) = {[status |-> ans[w].code, otp |-> NoCode]}
  BY <1>1 DEF InHand
<1>6. \A v \in Workers \ {w} : UNCHANGED <<phase[v], ans[v], ophase[v], oans[v]>>
  BY <1>1, <1>2
<1> QED
  BY <1>1, <1>3, <1>4, <1>5, <1>6, AnswerParts

LEMMA ReturnParts ==
  ASSUME Parts, [StressNext]_stressVars, Noted, NEW w \in Workers,
         RespondOtp(w), ophase[w] = "done"
  PROVE  Parts'
<1> DEFINE status == IF oans[w].status = 1 THEN Success ELSE Error
<1>1. /\ alive[w] /\ Answer(w, status, 0, oans[w].otp)
      /\ UNCHANGED <<bal, opened, codes, crashes, up, alive, phase, ans>>
      /\ ophase' = [ophase EXCEPT ![w] = "idle"] /\ oans' = [oans EXCEPT ![w] = OTP!Failure]
  BY DEF RespondOtp, OTP!Return, OTP!GiveUp, OTP!Over, ledger
<1>2. /\ ophase \in [Workers -> {"idle", "called", "done"}]
      /\ oans \in [Workers -> OTP!Answers]
      /\ CallInv /\ handling \in [Workers -> Packets \cup {NoPacket}]
  BY DEF Parts, IInv, TypeOK, OTP!TypeOK
<1>3. handling[w].kind = "otp" /\ handling[w] # NoPacket /\ phase[w] # "done"
  BY <1>2 DEF CallInv, NoPacket, Parts, IInv, TypeOK, DB!TypeOK
<1>4. oans[w].otp \in Otps \cup {NoCode} /\ status \in Codes /\ 0 \in Money
  BY <1>2, ServerCodes DEF OTP!Answers
<1>5. InHand(w) = {[status |-> status, otp |-> oans[w].otp]}
  BY <1>3 DEF InHand
<1>6. \A v \in Workers \ {w} : UNCHANGED <<phase[v], ans[v], ophase[v], oans[v]>>
  BY <1>1, <1>2
<1> QED
  BY <1>1, <1>3, <1>4, <1>5, <1>6, AnswerParts

LEMMA AcceptParts ==
  ASSUME Parts, [StressNext]_stressVars, Noted,
         NEW w \in Workers, Accept(w) \/ HandshakeFails(w)
  PROVE  Parts'
<1>1. PICK h \in Clients :
        /\ h = Head(backlog) /\ cpc[h] \in {"waiting", "gone"} /\ \A v \in Workers : serving[v] # h
  BY NextInLine DEF Parts, IInv, Accept, HandshakeFails
<1>2. /\ UNCHANGED <<services, handling, toServer, toClient>> /\ serving[w] = Nobody
      /\ \/ /\ cpc[h] = "waiting" /\ cpc' = [cpc EXCEPT ![h] = "ready"]
            /\ serving' = [serving EXCEPT ![w] = h] /\ open' = [open EXCEPT ![h] = TRUE]
         \/ /\ cpc' = [cpc EXCEPT ![h] = "gone"] /\ UNCHANGED <<serving, open>>
  BY <1>1 DEF Accept, HandshakeFails, wires
<1>3. /\ UNCHANGED <<phase, ans, ophase, oans, alive>>
      /\ UNCHANGED <<step, flows, otp_code, confirmed, since, run>>
      /\ UNCHANGED <<bal, opened, codes, crashes, up>>
  BY <1>2, SameServices, NotedFailures DEF services, ledger, otp, Parts
<1>4. /\ Places /\ cpc \in [Clients -> {"off", "waiting", "ready", "pending", "gone"}]
      /\ open \in [Clients -> BOOLEAN] /\ serving \in [Workers -> Clients \cup {Nobody}]
  BY ServingKeeps DEF Parts, IInv, TypeOK
<1>5. handling[w] = NoPacket
  BY <1>2 DEF Parts, IInv, PacketInv, AtHand
<1>6. (Healthy' => Healthy /\ UNCHANGED alive) /\ failed' \in BOOLEAN
  BY NotedFailures DEF Parts
<1>7. ASSUME NEW d \in Clients PROVE NoMore(d) /\ (Healthy => NoLess(d))
  <2>1. \A v \in Workers : (Busy(v, d)' <=> Busy(v, d)) /\ InHand(v)' = InHand(v)
    BY <1>2, <1>3, <1>4, <1>5, InHandSame DEF Busy, Working
  <2>2. /\ OnItsWay(d)' = OnItsWay(d)
        /\ ToDo(d)' => ToDo(d) \/ cpc'[d] \in {"off", "waiting"} \/ (cpc'[d] = "ready" /\ open'[d])
    BY <1>2, <2>1, Aside
  <2>3. ToDo(d)' => ToDo(d)
    BY <1>1, <1>2, <1>4, <2>2 DEF ToDo
  <2>4. Healthy => Flowing(d)
    BY DEF Parts, Fine
  <2>5. cpc[d] = "waiting" => step[d] = "create"
    BY DEF Parts, Fine
  <2>6. NoMore(d)
    BY <1>1, <1>2, <1>4, <2>2, <2>3 DEF NoMore
  <2>7. Healthy => NoLess(d)
    BY <1>1, <1>2, <1>4, <2>2, <2>4, <2>5 DEF NoLess, Flowing
  <2> QED
    BY <2>6, <2>7
<1>8. ASSUME NEW v \in Workers PROVE Keeps(v)
  BY <1>2, <1>3, <1>4, <1>5 DEF Keeps
<1> QED
  BY <1>3, <1>6, <1>7, <1>8, PartsStay DEF Parts, ThreadTyped

\* Whatever ends a connection does not add to what is on its way.
LEMMA CloseParts ==
  ASSUME Parts, [StressNext]_stressVars, Noted,
         NEW w \in Workers, Die(w) \/ \E c \in Clients : EndOfConnection(w, c)
  PROVE  Parts'
<1>1. /\ UNCHANGED <<step, flows, otp_code, confirmed, since, run>>
      /\ UNCHANGED <<bal, opened, codes, crashes, up, phase, ans, ophase, oans>>
      /\ UNCHANGED <<handling, cpc, toClient>>
  BY NotedFailures
     DEF Parts, Die, DB!Kill, OTP!Kill, EndOfConnection, CloseConnection, services, ledger, otp
<1>2. /\ serving \in [Workers -> Clients \cup {Nobody}] /\ alive \in [Workers -> BOOLEAN]
      /\ open \in [Clients -> BOOLEAN] /\ Places
  BY ServingKeeps DEF Parts, IInv, TypeOK, DB!TypeOK
<1>3. \/ /\ alive[w] /\ alive' = [alive EXCEPT ![w] = FALSE] /\ UNCHANGED serving
      \/ /\ UNCHANGED alive /\ handling[w] = NoPacket
         /\ \E c \in Clients : serving[w] = c /\ cpc[c] = "gone" /\ toServer[c] = <<>>
         /\ serving' = [serving EXCEPT ![w] = Nobody]
  BY DEF Die, DB!Kill, EndOfConnection, ReadsFrom, CloseConnection, services, ledger
<1>4. \A d \in Clients : /\ toServer'[d] \in {toServer[d], <<>>} /\ (open'[d] => open[d])
                         /\ UNCHANGED alive => open'[d] = open[d] \/ cpc[d] = "gone"
  <2>1. CASE Die(w)
    BY <2>1, <1>2 DEF Die, DB!Kill, OTP!Kill
  <2>2. ASSUME NEW c \in Clients, EndOfConnection(w, c)
        PROVE  \A d \in Clients : /\ toServer'[d] \in {toServer[d], <<>>} /\ (open'[d] => open[d])
                                  /\ open'[d] = open[d] \/ cpc[d] = "gone"
    <3>1. /\ cpc[c] = "gone" /\ open' = [open EXCEPT ![c] = FALSE]
          /\ toServer' = [toServer EXCEPT ![c] = <<>>]
      BY <2>2 DEF EndOfConnection, CloseConnection
    <3>2. toServer \in [Clients -> Seq(Packets)]
      BY DEF Parts, IInv, TypeOK
    <3> QED
      BY <1>2, <3>1, <3>2
  <2> QED
    BY <2>1, <2>2
<1>5. (Healthy' => Healthy /\ UNCHANGED alive) /\ failed' \in BOOLEAN
  BY NotedFailures DEF Parts
<1>6. ASSUME NEW d \in Clients PROVE NoMore(d) /\ (Healthy' => NoLess(d))
  <2>1. \A v \in Workers : /\ Busy(v, d)' => Busy(v, d) /\ InHand(v)' = InHand(v)
                           /\ UNCHANGED alive => (Busy(v, d) => Busy(v, d)')
    BY <1>1, <1>2, <1>3, InHandSame DEF Busy, Working
  <2>2. /\ OnItsWay(d)' \subseteq OnItsWay(d)
        /\ UNCHANGED alive => OnItsWay(d)' = OnItsWay(d)
        /\ ToDo(d)' => ToDo(d) \/ cpc'[d] \in {"off", "waiting"} \/ (cpc'[d] = "ready" /\ open'[d])
    BY <1>1, <1>4, <2>1, Aside
  <2>3. ToDo(d)' => ToDo(d)
    BY <1>1, <1>4, <2>2 DEF ToDo
  <2>4. Healthy => Flowing(d)
    BY DEF Parts, Fine
  <2>5. NoMore(d)
    BY <1>1, <1>4, <2>2, <2>3 DEF NoMore
  <2>6. Healthy' => NoLess(d)
    BY <1>1, <1>4, <1>5, <2>2, <2>4 DEF NoLess, Flowing
  <2> QED
    BY <2>5, <2>6
<1>7. ASSUME NEW v \in Workers PROVE Keeps(v)
  BY <1>1, <1>2, <1>3 DEF Keeps
<1> QED
  BY <1>1, <1>5, <1>6, <1>7, PartsStay DEF Parts, ThreadTyped

\* A thread sends whole packets, so none is refused before its service has it.
LEMMA NeverRefused ==
  ASSUME Parts, NEW w \in Workers
  PROVE  ~Malformed(w) /\ \A c \in Clients : ~WrongSize(w, c) /\ ~BadChecksum(w, c)
<1>1. \A c \in Clients : PacketOf(c).kind \in {"db", "otp"}
  BY Asked DEF Parts, ThreadTyped, Planned
<1>2. ~Malformed(w)
  <2> SUFFICES ASSUME Malformed(w) PROVE FALSE
    OBVIOUS
  <2>1. handling[w] # NoPacket /\ alive[w] /\ handling[w].kind \in {"malformed", "corrupted"}
    BY DEF Malformed, NoPacket
  <2>2. serving[w] \in Clients /\ Mine(serving[w], handling[w])
    BY <2>1, AtWork DEF Parts, IInv, Handled
  <2> QED
    BY <1>1, <2>1, <2>2 DEF Mine
<1>3. \A c \in Clients : toServer[c] # <<>> => Head(toServer[c]).kind \in {"db", "otp"}
  BY <1>1 DEF Parts, Fine, Mine
<1> QED
  BY <1>2, <1>3 DEF WrongSize, BadChecksum

-----------------------------------------------------------------------------
(***************************************************************************)
(* A thread sends, and goes on with the answer or without it.              *)
(***************************************************************************)
LEMMA Assembled ==
  ASSUME Parts, [StressNext]_stressVars, ThreadTyped', RoomInv', Served',
         \A c \in Clients : Fine(c)', \A w \in Workers : Keeps(w)
  PROVE  Parts'
BY ServingKeeps, HandledStays DEF Parts

LEMMA Sums ==
  ASSUME NEW n \in Nat
  PROVE  LET expected == InitialBalance + Deposit * n IN
           /\ expected \in Nat /\ expected # expected + Deposit
           /\ expected # NoAccount /\ expected + Deposit # NoAccount
           /\ InitialBalance + Deposit * (n + 1) = expected + Deposit
           /\ InitialBalance + Deposit * (n + 1) + Deposit # expected + Deposit
<1>1. Deposit * n \in Nat /\ Deposit * (n + 1) = Deposit * n + Deposit
  OBVIOUS
<1>2. Deposit \in Nat \ {0} /\ InitialBalance \in Nat
  OBVIOUS
<1>3. \A m \in Nat : m # NoAccount
  BY DEF Money
<1> QED
  BY <1>1, <1>2, <1>3

\* Only the thread c and its connection change; no worker is at work for it.
OnlyThread(c) ==
  /\ UNCHANGED <<services, serving, handling, open, run, failed>>
  /\ \A d \in Clients \ {c} :
       UNCHANGED <<step[d], flows[d], otp_code[d], confirmed[d], since[d],
                   cpc[d], toServer[d], toClient[d]>>
  /\ \A w \in Workers : serving[w] = c /\ alive[w] /\ handling[w] # NoPacket =>
       UNCHANGED <<step[c], otp_code[c]>>

LEMMA ThreadMoves ==
  ASSUME Parts, [StressNext]_stressVars, ThreadTyped', NEW c \in Clients, OnlyThread(c),
         Fine(c)'
  PROVE  Parts'
<1>1. UNCHANGED <<bal, opened, codes, crashes, up, alive>>
  BY SameServices DEF OnlyThread
<1>2. Healthy' <=> Healthy
  BY DEF Healthy, Room, OnlyThread
<1>3. ASSUME NEW d \in Clients \ {c} PROVE Fine(d)'
  <2>1. OnItsWay(d)' = OnItsWay(d) /\ (ToDo(d)' => ToDo(d))
    BY ClientSide DEF ToDo, OnlyThread
  <2>2. Healthy => Flowing(d)
    BY DEF Parts, Fine
  <2>3. NoMore(d) /\ (Healthy => NoLess(d))
    BY <2>1, <2>2 DEF NoMore, NoLess, OnlyThread, Flowing
  <2>4. Still(d)
    BY <1>1 DEF Still, OnlyThread
  <2> QED
    BY <1>2, <2>3, <2>4, FineStays DEF Parts
<1>4. ASSUME NEW w \in Workers PROVE Keeps(w)
  <2>1. handling[w] # NoPacket => serving[w] \in Clients
    BY AtWork DEF Parts, IInv
  <2> QED
    BY <1>1, <2>1 DEF Keeps, OnlyThread
<1>5. RoomInv' /\ Served'
  BY <1>1, <1>2 DEF Parts, RoomInv, Served
<1> QED
  BY <1>3, <1>4, <1>5, Assembled

LEMMA SendParts ==
  ASSUME Parts, [StressNext]_stressVars, NEW c \in Clients, SendNext(c)
  PROVE  Parts'
<1>1. /\ Places /\ Places' /\ ThreadTyped /\ TypeOK /\ Fine(c) /\ OnePlace(c)
  BY ServingKeeps DEF Parts, IInv, PacketInv
<1>2. /\ flows[c] < Flows[c] /\ open[c] /\ cpc[c] = "ready"
      /\ cpc' = [cpc EXCEPT ![c] = "pending"]
      /\ toServer' = [toServer EXCEPT ![c] = Append(@, PacketOf(c))]
      /\ since' = IF step[c] = "otp" THEN [since EXCEPT ![c] = crashes] ELSE since
      /\ UNCHANGED <<step, flows, otp_code, run, confirmed, failed>>
      /\ UNCHANGED <<services, serving, handling, open, toClient>>
  BY DEF SendNext, Send
<1>3. toServer[c] = <<>> /\ OnItsWay(c) = {} /\ ToDo(c)
  BY <1>1, <1>2 DEF Places, Place, ToDo
<1>4. PacketOf(c) \in Packets
  BY <1>1, PacketTyped, WellTyped DEF SendNext, Send
<1>5. toServer'[c] # <<>> /\ Head(toServer'[c]) = PacketOf(c)
  BY <1>1, <1>2, <1>3, <1>4, First DEF TypeOK
<1>6. OnItsWay(c)' = {} /\ ToDo(c)'
  BY <1>1, <1>5 DEF Places, Place, ToDo
<1>7. UNCHANGED <<bal, opened, codes, crashes, up, alive>>
  BY <1>2, SameServices
<1>8. ThreadTyped'
  BY <1>1, <1>2 DEF ThreadTyped, TypeOK
<1>9. OnlyThread(c)
  BY <1>1, <1>2 DEF OnlyThread, ThreadTyped, TypeOK
<1>10. since'[c] = IF step[c] = "otp" THEN crashes ELSE since[c]
  BY <1>1, <1>2 DEF ThreadTyped
<1>11. cpc'[c] = "pending"
  BY <1>1, <1>2 DEF TypeOK
<1>12. Fine(c)'
  <2>1. since'[c] <= crashes'
    BY <1>1, <1>7, <1>10 DEF Fine, TypeOK
  <2>2. Mine(c, Head(toServer[c]))'
    BY <1>1, <1>2, <1>5, <1>8, SameAsk DEF Mine, ThreadTyped
  <2>3. Books(c)'
    BY <1>1, <1>2, <1>3, <1>6, <1>7 DEF Fine, Books, Room
  <2>4. CodeKept(c)'
    BY <1>1, <1>2, <1>3, <1>6, <1>7, <1>10 DEF Fine, CodeKept, TopCode
  <2>5. Healthy' => Flowing(c)'
    BY <1>1, <1>2, <1>3, <1>6, <1>7, <1>11 DEF Fine, Flowing, Healthy, Room
  <2> QED
    BY <1>1, <1>2, <1>6, <1>11, <2>1, <2>2, <2>3, <2>4, <2>5 DEF Fine
<1> QED
  BY <1>8, <1>9, <1>12, ThreadMoves

LEMMA FlowFailsParts ==
  ASSUME Parts, [StressNext]_stressVars, NEW c \in Clients, FlowFails(c)
  PROVE  Parts'
<1>1. /\ Places /\ Places' /\ ThreadTyped /\ TypeOK /\ Fine(c)
  BY ServingKeeps DEF Parts, IInv
<1>2. /\ flows[c] < Flows[c] /\ ~open[c] /\ toClient[c] = <<>>
      /\ cpc[c] \in {"ready", "pending"} /\ cpc' = [cpc EXCEPT ![c] = "ready"]
      /\ step' = [step EXCEPT ![c] = "create"] /\ flows' = [flows EXCEPT ![c] = @ + 1]
      /\ UNCHANGED <<otp_code, run, confirmed, since, failed>>
      /\ UNCHANGED <<services, serving, handling, open, toServer, toClient>>
  BY DEF FlowFails, RequestFails, Lost, EndFlow, wires
<1>3. cpc'[c] = "ready" /\ step'[c] = "create" /\ flows'[c] = flows[c] + 1
  BY <1>1, <1>2 DEF ThreadTyped, TypeOK
<1>4. toServer[c] = <<>> /\ \A w \in Workers : ~Busy(w, c) /\ ~Busy(w, c)'
  BY <1>1, <1>2, SameServices DEF Places, Place, Busy, Working
<1>5. OnItsWay(c)' = {} /\ ~ToDo(c)'
  BY <1>1, <1>2, <1>3, <1>4 DEF Places, Place
<1>6. UNCHANGED <<bal, opened, codes, crashes, up, alive>>
  BY <1>2, SameServices
<1>7. ThreadTyped'
  <2>1. \A d \in Clients : confirmed'[d] <= flows'[d] /\ flows'[d] <= Flows[d]
    BY <1>1, <1>2 DEF ThreadTyped
  <2> QED
    BY <1>1, <1>2, <2>1 DEF ThreadTyped, Steps
<1>8. OnlyThread(c)
  BY <1>1, <1>2, <1>4 DEF OnlyThread, ThreadTyped, TypeOK, Busy, Working
<1>9. ~Healthy'
  BY <1>1, <1>2 DEF Fine, Flowing, Healthy, Room
<1>10. Books(c)'
  BY <1>1, <1>2, <1>5, <1>6 DEF Fine, Books
<1>11. Fine(c)'
  BY <1>1, <1>2, <1>3, <1>4, <1>5, <1>6, <1>9, <1>10 DEF Fine, CodeKept
<1> QED
  BY <1>7, <1>8, <1>11, ThreadMoves

\* What response x makes of the flow of c.
Followed(c, x) ==
  \/ /\ step[c] = "create" /\ step'[c] = "otp"
     /\ UNCHANGED <<flows[c], otp_code[c], confirmed[c]>>
  \/ /\ step[c] = "otp" /\ x.status = Success /\ step'[c] = "login" /\ otp_code'[c] = x.otp
     /\ UNCHANGED <<flows[c], confirmed[c]>>
  \/ /\ step[c] = "login" /\ x.status = Success /\ step'[c] = "deposit"
     /\ UNCHANGED <<flows[c], otp_code[c], confirmed[c]>>
  \/ /\ step[c] \in {"otp", "login"} /\ x.status # Success
     /\ step'[c] = "create" /\ flows'[c] = flows[c] + 1
     /\ UNCHANGED <<otp_code[c], confirmed[c]>>
  \/ /\ step[c] = "deposit" /\ step'[c] = "create" /\ flows'[c] = flows[c] + 1
     /\ confirmed'[c] = IF x.status = Success THEN confirmed[c] + 1 ELSE confirmed[c]
     /\ UNCHANGED otp_code[c]

LEMMA Following ==
  ASSUME ThreadTyped, NEW c \in Clients, ReceiveNext(c),
         Said(c).status = Success /\ step[c] = "otp" => Said(c).otp \in Otps
  PROVE  /\ Followed(c, Said(c))
         /\ step' \in [Clients -> Steps] /\ flows' \in [Clients -> Nat]
         /\ confirmed' \in [Clients -> Nat] /\ otp_code' \in [Clients -> Otps \cup {NoCode}]
         /\ UNCHANGED <<since, run, failed>>
         /\ \A d \in Clients \ {c} :
              UNCHANGED <<step[d], flows[d], otp_code[d], confirmed[d]>>
<1>1. /\ Follow(c, Head(toClient[c])) /\ UNCHANGED <<run, since, failed>>
      /\ confirmed' = IF step[c] = "deposit" /\ Said(c).status = Success
                      THEN [confirmed EXCEPT ![c] = @ + 1] ELSE confirmed
      /\ step \in [Clients -> Steps] /\ flows \in [Clients -> Nat]
      /\ confirmed \in [Clients -> Nat] /\ otp_code \in [Clients -> Otps \cup {NoCode}]
  BY DEF ReceiveNext, ThreadTyped, Said
<1>2. /\ Said(c).status = Head(toClient[c]).status /\ Said(c).otp = Head(toClient[c]).otp
  BY DEF Said
<1>3. step[c] \in {"create", "otp", "login", "deposit"}
  BY <1>1 DEF Steps
<1>4. CASE step[c] = "create"
  BY <1>1, <1>2, <1>4 DEF Follow, GoOn, Followed, Steps
<1>5. CASE step[c] = "otp" /\ Said(c).status = Success
  BY <1>1, <1>2, <1>5 DEF Follow, GoOn, Followed, Steps
<1>6. CASE step[c] = "login" /\ Said(c).status = Success
  BY <1>1, <1>2, <1>6 DEF Follow, GoOn, Followed, Steps
<1>7. CASE step[c] \in {"otp", "login"} /\ Said(c).status # Success
  BY <1>1, <1>2, <1>7 DEF Follow, EndFlow, Followed, Steps
<1>8. CASE step[c] = "deposit"
  BY <1>1, <1>2, <1>8 DEF Follow, EndFlow, Followed, Steps
<1> QED
  BY <1>3, <1>4, <1>5, <1>6, <1>7, <1>8

LEMMA ReceiveParts ==
  ASSUME Parts, [StressNext]_stressVars, NEW c \in Clients, ReceiveNext(c)
  PROVE  Parts'
<1> DEFINE x == Said(c)
           n == confirmed[c]
           b == bal[AccountOf[c]]
<1>1. /\ Places /\ Places' /\ ThreadTyped /\ TypeOK /\ Fine(c) /\ OnePlace(c)
  BY ServingKeeps DEF Parts, IInv, PacketInv
<1>2. /\ cpc[c] = "pending" /\ toClient[c] # <<>>
      /\ cpc' = [cpc EXCEPT ![c] = "ready"] /\ toClient' = [toClient EXCEPT ![c] = Tail(@)]
      /\ UNCHANGED <<services, serving, handling, open, toServer>>
  BY DEF ReceiveNext, Receive
<1>3. /\ cpc'[c] = "ready" /\ toClient'[c] = <<>>
      /\ \A d \in Clients \ {c} : UNCHANGED <<cpc[d], toServer[d], toClient[d]>>
  BY <1>1, <1>2, AtMostOne DEF TypeOK, OnePlace
<1>4. /\ OnItsWay(c) = {x} /\ ~ToDo(c) /\ toServer[c] = <<>>
      /\ \A w \in Workers : ~Working(w, c) /\ ~Working(w, c)'
  BY <1>1, <1>2 DEF Places, Place, ToDo, Working
<1>5. OnItsWay(c)' = {} /\ (ToDo(c)' => open'[c])
  BY <1>1, <1>2, <1>3, <1>4 DEF Places, Place, Busy
<1>6. /\ Followed(c, x)
      /\ step' \in [Clients -> Steps] /\ flows' \in [Clients -> Nat]
      /\ confirmed' \in [Clients -> Nat] /\ otp_code' \in [Clients -> Otps \cup {NoCode}]
      /\ UNCHANGED <<since, run, failed>>
      /\ \A d \in Clients \ {c} :
           UNCHANGED <<step[d], flows[d], otp_code[d], confirmed[d]>>
  BY <1>1, <1>4, Following DEF Fine
<1>7. UNCHANGED <<bal, opened, codes, crashes, up, alive>>
  BY <1>2, SameServices
<1>8. /\ flows[c] < Flows[c] /\ n \in Nat /\ n <= flows[c] /\ flows[c] \in Nat
      /\ Flows[c] \in Nat
  BY <1>1, <1>2 DEF Fine, ThreadTyped
<1>9. ThreadTyped'
  <2>1. confirmed'[c] <= flows'[c] /\ flows'[c] <= Flows[c]
    BY <1>6, <1>8 DEF Followed
  <2> QED
    BY <1>1, <1>6, <2>1 DEF ThreadTyped
<1>10. OnlyThread(c)
  BY <1>2, <1>3, <1>4, <1>6 DEF OnlyThread, Working
<1>11. Books(c)'
  <2>1. /\ b \in {InitialBalance + Deposit * n, InitialBalance + Deposit * n + Deposit}
           \/ (b = NoAccount /\ n = 0)
        /\ b = InitialBalance + Deposit * n + Deposit
             <=> step[c] = "deposit" /\ x.status = Success
        /\ Room => b # NoAccount
    BY <1>1, <1>4 DEF Fine, Books
  <2>2. CASE step[c] = "deposit" /\ x.status = Success
    <3>1. confirmed'[c] = n + 1
      BY <1>6, <2>2 DEF Followed
    <3>2. b = InitialBalance + Deposit * confirmed'[c] /\ b # NoAccount
      BY <1>8, <2>1, <2>2, <3>1, Sums
    <3>3. b # InitialBalance + Deposit * confirmed'[c] + Deposit
      BY <1>8, <2>1, <2>2, <3>1, Sums
    <3> QED
      BY <1>5, <1>7, <3>2, <3>3 DEF Books, Room
  <2>3. CASE ~(step[c] = "deposit" /\ x.status = Success)
    <3>1. confirmed'[c] = n
      BY <1>6, <2>3 DEF Followed
    <3> QED
      BY <1>5, <1>7, <2>1, <2>3, <3>1 DEF Books, Room
  <2> QED
    BY <2>2, <2>3
<1>12. CodeKept(c)'
  <2>1. step'[c] = "login" => step[c] = "otp" /\ x.status = Success /\ otp_code'[c] = x.otp
    BY <1>6 DEF Followed
  <2>2. step[c] = "otp" /\ x.status = Success => TopCode(c, x.otp)
    BY <1>1, <1>4 DEF Fine, CodeKept
  <2> QED
    BY <1>5, <1>6, <1>7, <2>1, <2>2 DEF CodeKept, TopCode
<1>13. Healthy' => Flowing(c)'
  <2> SUFFICES ASSUME Healthy' PROVE Flowing(c)'
    OBVIOUS
  <2>1. Flowing(c)
    BY <1>1, <1>6 DEF Fine, Healthy, Room
  <2>2. open[c] /\ confirmed[c] = flows[c] /\ (step[c] # "create" => x.status = Success)
    BY <1>2, <1>4, <2>1 DEF Flowing
  <2>3. Len(codes[AccountOf[c]]) = IF step[c] = "otp" THEN 1 ELSE 0
    BY <1>4, <2>1 DEF Flowing
  <2>4. confirmed'[c] = flows'[c]
    BY <1>6, <2>2 DEF Followed
  <2>5. step'[c] = "login" <=> step[c] = "otp"
    BY <1>6, <2>2 DEF Followed
  <2> QED
    BY <1>2, <1>3, <1>5, <1>7, <2>2, <2>3, <2>4, <2>5 DEF Flowing
<1>14. Fine(c)'
  <2>1. step'[c] # "create" => flows'[c] < Flows[c]
    BY <1>6, <1>8 DEF Followed
  <2>2. step'[c] = "login" => otp_code'[c] \in Otps
    BY <1>1, <1>4, <1>6 DEF Followed, Fine
  <2>3. since'[c] <= crashes'
    BY <1>1, <1>6, <1>7 DEF Fine
  <2> QED
    BY <1>2, <1>3, <1>4, <1>5, <1>11, <1>12, <1>13, <2>1, <2>2, <2>3 DEF Fine
<1> QED
  BY <1>9, <1>10, <1>14, ThreadMoves

-----------------------------------------------------------------------------
(***************************************************************************)
(* A service performs what a worker has asked it for a thread.             *)
(***************************************************************************)

\* A step of w that concerns the thread c alone.
LEMMA WorkerMoves ==
  ASSUME Parts, [StressNext]_stressVars, Noted,
         NEW w \in Workers, NEW c \in Clients, serving[w] = c,
         UNCHANGED <<crashes, up, alive, serving, cpc, open, toServer>>,
         \A v \in Workers \ {w} : Untouched(v), handling'[w] \in {handling[w], NoPacket},
         \A d \in Clients \ {c} :
           UNCHANGED <<toClient[d], bal[AccountOf[d]], codes[AccountOf[d]]>>,
         RoomInv', Served', Fine(c)'
  PROVE  Parts'
<1>1. UNCHANGED <<step, flows, otp_code, confirmed, since, run>> /\ failed' \in BOOLEAN
  BY NotedFailures DEF Parts
<1>2. Healthy' => Healthy
  BY NotedFailures DEF Parts
<1>3. ThreadTyped'
  BY <1>1 DEF Parts, ThreadTyped
<1>4. ASSUME NEW d \in Clients \ {c} PROVE Fine(d)'
  <2>1. NoMore(d) /\ (Healthy => NoLess(d))
    BY ElseStays DEF Busy, Working
  <2>2. Still(d)
    BY <1>1 DEF Still
  <2> QED
    BY <1>2, <1>3, <2>1, <2>2, FineStays DEF Parts
<1>5. ASSUME NEW v \in Workers PROVE Keeps(v)
  BY <1>1 DEF Keeps, Untouched
<1> QED
  BY <1>3, <1>4, <1>5, Assembled

\* The room that is left before an account is opened for c.
LEMMA RoomFor ==
  ASSUME RoomInv, NEW c \in Clients, bal[AccountOf[c]] = NoAccount, opened \in Nat
  PROVE  /\ Room => opened < MaxAccounts
         /\ \A n : bal' = [bal EXCEPT ![AccountOf[c]] = n] /\ n # NoAccount
                     /\ opened' = opened + 1 /\ bal \in [Ids -> Money \cup {NoAccount}]
                     => RoomInv'
<1> DEFINE S == {d \in Clients : bal[AccountOf[d]] # NoAccount}
<1>1. IsFiniteSet(Clients) /\ S \subseteq Clients \ {c}
  OBVIOUS
<1>2. /\ IsFiniteSet(Clients \ {c}) /\ Cardinality(Clients \ {c}) = Cardinality(Clients) - 1
      /\ Cardinality(Clients) \in Nat
  BY <1>1, FS_RemoveElement, FS_CardinalityType
<1>3. IsFiniteSet(S) /\ Cardinality(S) <= Cardinality(Clients \ {c}) /\ Cardinality(S) \in Nat
  BY <1>1, <1>2, FS_Subset, FS_CardinalityType
<1>4. opened <= Cardinality(S)
  BY DEF RoomInv
<1>5. Room => opened < MaxAccounts
  BY <1>2, <1>3, <1>4 DEF Room
<1>6. ASSUME NEW n, bal' = [bal EXCEPT ![AccountOf[c]] = n], n # NoAccount,
             opened' = opened + 1, bal \in [Ids -> Money \cup {NoAccount}]
      PROVE  RoomInv'
  <2>1. {d \in Clients : bal'[AccountOf[d]] # NoAccount} = S \cup {c}
    BY <1>6
  <2>2. Cardinality(S \cup {c}) = Cardinality(S) + 1
    BY <1>1, <1>3, FS_AddElement
  <2>3. opened' <= Cardinality(S \cup {c})
    BY <1>3, <1>4, <1>6, <2>2
  <2> QED
    BY <2>1, <2>3 DEF RoomInv
<1> QED
  BY <1>5, <1>6

\* An opening or a deposit for c, performed or refused.
Booked(c, code) ==
  LET a == AccountOf[c] IN
  \/ /\ step[c] = "create" /\ UNCHANGED <<bal, opened>> /\ code # Success
     /\ bal[a] # NoAccount \/ ~Room
  \/ /\ step[c] = "create" /\ code = Success /\ bal[a] = NoAccount
     /\ bal' = [bal EXCEPT ![a] = InitialBalance] /\ opened' = opened + 1
  \/ /\ step[c] = "deposit" /\ UNCHANGED <<bal, opened>> /\ code # Success
     /\ bal[a] = NoAccount
  \/ /\ step[c] = "deposit" /\ code = Success /\ bal[a] # NoAccount
     /\ bal' = [bal EXCEPT ![a] = bal[a] + Deposit] /\ UNCHANGED opened

LEMMA SameSuccess == DB!OK = Success
BY DEF DB!OK, Success

LEMMA Booking ==
  ASSUME Parts, Places, NEW w \in Workers, NEW c \in Clients, c = serving[w],
         DatabasePerforms(w)
  PROVE  /\ Booked(c, ans'[w].code)
         /\ alive[w] /\ handling[w] # NoPacket /\ phase[w] = "called" /\ ophase[w] = "idle"
         /\ phase' = [phase EXCEPT ![w] = "done"] /\ UNCHANGED <<req, alive>>
         /\ \A v \in Workers \ {w} : ans'[v] = ans[v]
         /\ bal \in [Ids -> Money \cup {NoAccount}] /\ opened \in Nat
<1>1. /\ DB!TypeOK /\ CallInv /\ RoomInv /\ ThreadTyped
      /\ ophase \in [Workers -> {"idle", "called", "done"}]
  BY DEF Parts, IInv, TypeOK, OTP!TypeOK
<1>2. /\ bal \in [Ids -> Money \cup {NoAccount}] /\ opened \in Nat
      /\ ans \in [Workers -> Answers]
  BY <1>1, SameInterface DEF DB!TypeOK
<1>3. /\ DB!Perform(w) /\ alive[w] /\ phase[w] = "called"
      /\ phase' = [phase EXCEPT ![w] = "done"] /\ UNCHANGED <<req, alive>>
      /\ \A v \in Workers \ {w} : ans'[v] = ans[v]
  BY <1>1, Performed DEF DatabasePerforms
<1>4. handling[w].kind = "db" /\ req[w] = handling[w].r /\ handling[w] # NoPacket
  BY <1>1, <1>3 DEF CallInv, NoPacket
<1>5. ophase[w] = "idle"
  BY <1>1, <1>4 DEF CallInv
<1>6. Mine(c, handling[w]) /\ Planned(c)
  BY <1>3, <1>4, AtServer, Asked DEF Parts, Handled
<1> DEFINE r == req[w]
           a == AccountOf[c]
<1>7. /\ step[c] \in {"create", "deposit"}
      /\ step[c] = "create" => r = [op |-> "create", id |-> a, amount |-> InitialBalance]
      /\ step[c] = "deposit" => r = [op |-> "deposit", id |-> a, amount |-> Deposit]
  BY <1>4, <1>6 DEF Mine, Planned
<1>8. InitialBalance \in Nat /\ Deposit \in Nat \ {0}
  OBVIOUS
<1>9. ~DB!Rejected(r)
  <2>1. ~DB!Lt(InitialBalance, 0) /\ ~DB!Le(Deposit, 0)
    <3>1. Infinity \notin Int /\ NegInfinity \notin Int
      BY DEF Special
    <3>2. ~(InitialBalance < 0) /\ ~(Deposit < 0) /\ Deposit # 0
      BY <1>8
    <3> QED
      BY <1>8, <3>1, <3>2 DEF DB!Lt, DB!Le
  <2> QED
    BY <1>7, <2>1 DEF DB!Rejected
<1>10. /\ r.op = "withdraw" => FALSE
       /\ r.op = "balance" => FALSE
       /\ r.id = a
  BY <1>7
<1>11. DB!Fails(r) <=> \/ r.op = "create" /\ (bal[a] # NoAccount \/ opened >= MaxAccounts)
                       \/ r.op = "deposit" /\ bal[a] = NoAccount
  BY <1>7, <1>9, <1>10 DEF DB!Fails, DB!Has
<1>12. DB!Refusal(w, r) \/ DB!Opening(w, r) \/ DB!Movement(w, r)
  BY <1>3, <1>10 DEF DB!Perform, DB!Inquiry
<1>13. ASSUME DB!Refusal(w, r) PROVE Booked(c, ans'[w].code)
  <2>1. DB!Fails(r) /\ ans'[w] = DB!Bare(DB!Failure(r)) /\ UNCHANGED <<bal, opened>>
    BY <1>2, <1>13 DEF DB!Refusal, DB!Effect
  <2>2. ans'[w].code # Success
    BY <2>1, FailuresAreCodes, SameInterface, SameSuccess DEF DB!Bare
  <2>3. step[c] = "create" => bal[a] # NoAccount \/ ~Room
    BY <1>1, <1>2, <1>7, <1>11, <2>1, RoomFor
  <2>4. step[c] = "deposit" => bal[a] = NoAccount
    BY <1>7, <1>11, <2>1
  <2>5. bal' = bal /\ opened' = opened
    BY <2>1
  <2> QED
    BY ONLY <1>7, <2>2, <2>3, <2>4, <2>5 DEF Booked
<1>14. ASSUME DB!Opening(w, r) PROVE Booked(c, ans'[w].code)
  <2>1. /\ r.op = "create" /\ ~DB!Fails(r) /\ ans'[w] = DB!Bare(DB!OK)
        /\ bal' = [bal EXCEPT ![a] = r.amount] /\ opened' = opened + 1
    BY <1>2, <1>10, <1>14 DEF DB!Opening, DB!Effect
  <2>2. ans'[w].code = Success
    BY <2>1, SameSuccess DEF DB!Bare
  <2>3. step[c] = "create" /\ r.amount = InitialBalance
    BY <1>7, <2>1
  <2>4. bal[a] = NoAccount
    BY <1>11, <2>1
  <2>5. bal' = [bal EXCEPT ![a] = InitialBalance] /\ opened' = opened + 1
    BY <2>1, <2>3
  <2> QED
    BY ONLY <2>2, <2>3, <2>4, <2>5 DEF Booked
<1>15. ASSUME DB!Movement(w, r) PROVE Booked(c, ans'[w].code)
  <2>1. /\ r.op = "deposit" /\ ~DB!Fails(r) /\ UNCHANGED opened
        /\ bal' = [bal EXCEPT ![a] = DB!Add(@, r.amount)] /\ ans'[w].code = DB!OK
    BY <1>2, <1>10, <1>15 DEF DB!Movement, DB!Effect
  <2>2. step[c] = "deposit" /\ r.amount = Deposit /\ bal[a] # NoAccount
    BY <1>7, <1>11, <2>1
  <2>3. bal[a] \in Int
    <3>1. ToDo(c) /\ Fine(c)
      <4>1. InHand(w) = {}
        BY <1>3, <1>5 DEF InHand
      <4> QED
        BY <1>3, <1>4, <4>1, AtServer
    <3>2. confirmed[c] \in Nat
      BY <1>1 DEF ThreadTyped
    <3>3. InitialBalance + Deposit * confirmed[c] \in Nat
      BY <3>2, Sums
    <3>4. \/ bal[a] \in {InitialBalance + Deposit * confirmed[c],
                         InitialBalance + Deposit * confirmed[c] + Deposit}
          \/ bal[a] = NoAccount
      BY <3>1 DEF Fine, Books
    <3> QED
      BY <1>8, <2>2, <3>3, <3>4
  <2>4. DB!Add(bal[a], Deposit) = bal[a] + Deposit
    BY <1>8, <2>3 DEF DB!Add
  <2>5. bal' = [bal EXCEPT ![a] = bal[a] + Deposit]
    BY <2>1, <2>2, <2>4
  <2>6. ans'[w].code = Success /\ opened' = opened
    BY <2>1, SameSuccess
  <2> QED
    BY ONLY <2>2, <2>5, <2>6 DEF Booked
<1> QED
  BY <1>2, <1>3, <1>4, <1>5, <1>12, <1>13, <1>14, <1>15

LEMMA DatabasePerformsParts ==
  ASSUME Parts, [StressNext]_stressVars, Noted,
         NEW w \in Workers, DatabasePerforms(w)
  PROVE  Parts'
<1>0. Places /\ Places' /\ IInv /\ ThreadTyped /\ TypeOK
  BY ServingKeeps DEF Parts, IInv
<1>1. handling[w] # NoPacket /\ alive[w]
  BY <1>0 DEF DatabasePerforms, DB!Perform, IInv, CallInv, NoPacket
<1>2. PICK c \in Clients : c = serving[w]
  BY <1>0, <1>1, AtServer
<1>3. /\ Booked(c, ans'[w].code)
      /\ phase[w] = "called" /\ ophase[w] = "idle"
      /\ phase' = [phase EXCEPT ![w] = "done"] /\ UNCHANGED <<req, alive>>
      /\ \A v \in Workers \ {w} : ans'[v] = ans[v]
      /\ bal \in [Ids -> Money \cup {NoAccount}] /\ opened \in Nat
  BY <1>0, <1>2, Booking
<1>4. /\ UNCHANGED <<serving, handling, cpc, open, toServer, toClient>>
      /\ UNCHANGED <<codes, crashes, up, ophase, oans>>
      /\ phase \in [Workers -> {"idle", "called", "done"}]
  BY <1>0 DEF DatabasePerforms, Meanwhile, wires, otp, TypeOK, DB!TypeOK
<1>5. UNCHANGED <<step, flows, otp_code, confirmed, since, run>> /\ failed' \in BOOLEAN
  BY NotedFailures DEF Parts
<1> DEFINE x == [status |-> ans'[w].code, otp |-> NoCode]
<1>6. InHand(w) = {} /\ InHand(w)' = {x}
  BY <1>3, <1>4 DEF InHand
<1>7. /\ Busy(w, c) /\ Busy(w, c)' /\ open[c] /\ cpc[c] \in {"pending", "gone"}
      /\ toServer[c] = <<>> /\ Fine(c)
  BY <1>0, <1>1, <1>2, <1>3, <1>4, AtServer DEF Busy, Working
<1>8. OnItsWay(c) = {} /\ ToDo(c) /\ OnItsWay(c)' = {x} /\ ~ToDo(c)'
  <2>1. OnItsWay(c) = InHand(w) /\ (ToDo(c) <=> InHand(w) = {})
    BY <1>0, <1>7 DEF Places, Place
  <2>2. OnItsWay(c)' = InHand(w)' /\ (ToDo(c)' <=> InHand(w)' = {})
    BY <1>0, <1>7 DEF Places, Place
  <2> QED
    BY <1>6, <2>1, <2>2
<1>9. \A d \in Clients \ {c} : UNCHANGED bal[AccountOf[d]]
  BY <1>3 DEF Booked
<1>10. RoomInv'
  <2>1. RoomInv
    BY DEF Parts
  <2>2. CASE UNCHANGED <<bal, opened>>
    BY <2>1, <2>2 DEF RoomInv
  <2>3. CASE /\ bal[AccountOf[c]] = NoAccount /\ opened' = opened + 1
             /\ bal' = [bal EXCEPT ![AccountOf[c]] = InitialBalance]
    <3>1. InitialBalance # NoAccount
      BY DEF Money
    <3> QED
      BY <1>3, <2>1, <2>3, <3>1, RoomFor
  <2>4. CASE /\ bal[AccountOf[c]] # NoAccount /\ UNCHANGED opened /\ step[c] = "deposit"
             /\ bal' = [bal EXCEPT ![AccountOf[c]] = bal[AccountOf[c]] + Deposit]
    <3>1. bal'[AccountOf[c]] # NoAccount
      <4>1. confirmed[c] \in Nat /\ bal[AccountOf[c]] = InitialBalance + Deposit * confirmed[c]
        BY <1>0, <1>7, <1>8, <2>4 DEF Fine, Books, ThreadTyped
      <4> QED
        BY <1>3, <2>4, <4>1, Sums
    <3>2. \A d \in Clients : bal'[AccountOf[d]] # NoAccount <=> bal[AccountOf[d]] # NoAccount
      BY <1>9, <2>4, <3>1
    <3>3. {d \in Clients : bal'[AccountOf[d]] # NoAccount}
          = {d \in Clients : bal[AccountOf[d]] # NoAccount}
      BY <3>2
    <3> QED
      BY <2>1, <2>4, <3>3 DEF RoomInv
  <2> QED
    BY <1>3, <2>2, <2>3, <2>4 DEF Booked
<1>11. Served' /\ (Healthy' => Healthy)
  BY <1>3, <1>4, NotedFailures DEF Parts, Served
<1>12. Books(c)'
  <2> DEFINE n == confirmed[c]
             b == bal[AccountOf[c]]
             after == bal'[AccountOf[c]]
  <2>1. /\ b = InitialBalance + Deposit * n \/ (b = NoAccount /\ n = 0)
        /\ b # InitialBalance + Deposit * n + Deposit
        /\ Room /\ step[c] # "create" => b # NoAccount
        /\ n \in Nat
    BY <1>0, <1>7, <1>8 DEF Fine, Books, ThreadTyped
  <2>2. InitialBalance + Deposit * n \in Nat /\ InitialBalance # NoAccount
        /\ InitialBalance + Deposit * n + Deposit # NoAccount
        /\ InitialBalance + Deposit * n # NoAccount
    BY <2>1, Sums DEF Money
  <2>3. CASE step[c] = "create" /\ UNCHANGED <<bal, opened>> /\ (b # NoAccount \/ ~Room)
    <3>1. after = b
      BY <2>3
    <3> QED
      BY <1>5, <1>8, <2>1, <2>3, <3>1 DEF Books, Room
  <2>4. CASE step[c] = "create" /\ b = NoAccount
             /\ bal' = [bal EXCEPT ![AccountOf[c]] = InitialBalance]
    <3>1. n = 0 /\ after = InitialBalance
      BY <1>3, <2>2, <2>1, <2>4
    <3>2. after = InitialBalance + Deposit * n /\ after # InitialBalance + Deposit * n + Deposit
      BY <3>1
    <3> QED
      BY <1>5, <1>8, <2>2, <2>4, <3>2 DEF Books
  <2>5. CASE step[c] = "deposit" /\ UNCHANGED <<bal, opened>> /\ b = NoAccount
             /\ ans'[w].code # Success
    <3>1. after = b /\ ~Room
      BY <2>1, <2>5
    <3> QED
      BY <1>5, <1>8, <2>1, <2>5, <3>1 DEF Books, Room
  <2>6. CASE step[c] = "deposit" /\ b # NoAccount /\ ans'[w].code = Success
             /\ bal' = [bal EXCEPT ![AccountOf[c]] = b + Deposit]
    <3>1. after = InitialBalance + Deposit * n + Deposit
      BY <1>3, <2>1, <2>6
    <3> QED
      BY <1>5, <1>8, <2>2, <2>6, <3>1 DEF Books
  <2> QED
    BY <1>3, <2>3, <2>4, <2>5, <2>6 DEF Booked
<1>13. step[c] \in {"create", "deposit"}
  BY <1>3 DEF Booked
<1>14. Healthy' => Flowing(c)'
  <2> SUFFICES ASSUME Healthy' PROVE Flowing(c)'
    OBVIOUS
  <2>1. Flowing(c) /\ Room
    BY <1>7, <1>11 DEF Fine, Healthy
  <2>2. step[c] = "deposit" => x.status = Success
    <3>1. step[c] = "deposit" => bal[AccountOf[c]] # NoAccount
      BY <1>7, <2>1 DEF Fine, Books
    <3> QED
      BY <1>3, <3>1 DEF Booked
  <2> QED
    BY <1>4, <1>5, <1>8, <1>13, <2>1, <2>2 DEF Flowing
<1>15. Fine(c)'
  BY <1>4, <1>5, <1>7, <1>8, <1>12, <1>13, <1>14 DEF Fine, CodeKept
<1>16. \A v \in Workers \ {w} : Untouched(v)
  BY <1>3, <1>4 DEF Untouched
<1> QED
  BY <1>2, <1>3, <1>4, <1>9, <1>10, <1>11, <1>15, <1>16, WorkerMoves

\* As long as nothing has failed, a thread that asks for a code finds room.
LEMMA CodeRoom ==
  ASSUME Parts, Healthy, NEW c \in Clients, codes[AccountOf[c]] = <<>>
  PROVE  OTP!Outstanding < MaxOtps
<1> DEFINE P == {place \in Ids \X (1..MaxOtps) : place[2] <= Len(codes[place[1]])}
           D == {d \in Clients : codes[AccountOf[d]] # <<>>}
           f == [d \in D |-> <<AccountOf[d], 1>>]
<1>1. /\ \A d \in Clients : Len(codes[AccountOf[d]]) \in {0, 1}
      /\ \A i \in Ids : codes[i] # <<>> => \E d \in Clients : i = AccountOf[d]
      /\ \A i \in Ids : codes[i] \in Seq(Otps)
  <2>1. \A d \in Clients : Flowing(d)
    BY DEF Parts, Fine
  <2>2. \A d \in Clients : Len(codes[AccountOf[d]]) \in {0, 1}
    BY <2>1 DEF Flowing
  <2> QED
    BY <2>2 DEF Parts, Served, IInv, TypeOK, OTP!TypeOK
<1>2. f \in Surjection(D, P)
  <2>1. \A d \in D : f[d] \in P
    <3> SUFFICES ASSUME NEW d \in D PROVE <<AccountOf[d], 1>> \in P
      OBVIOUS
    <3>1. AccountOf[d] \in Ids /\ Len(codes[AccountOf[d]]) \in {0, 1}
      BY <1>1
    <3>2. Len(codes[AccountOf[d]]) = 1
      BY <1>1, <3>1
    <3> QED
      BY <3>1, <3>2
  <2>2. ASSUME NEW place \in P PROVE \E d \in D : f[d] = place
    <3>1. PICK i \in Ids, k \in 1..MaxOtps : place = <<i, k>> /\ k <= Len(codes[i])
      OBVIOUS
    <3>2. codes[i] # <<>>
      BY <1>1, <3>1
    <3>3. PICK d \in Clients : i = AccountOf[d]
      BY <1>1, <3>2
    <3>4. k = 1
      <4>1. Len(codes[AccountOf[d]]) \in {0, 1}
        BY <1>1
      <4>2. Len(codes[i]) \in 0..1
        BY <3>3, <4>1
      <4>3. k \in Nat /\ 1 <= k /\ k <= Len(codes[i])
        BY <3>1
      <4> HIDE DEF P, D, f
      <4>4. ASSUME NEW l \in 0..1, k <= l PROVE k = 1
        BY <4>3, <4>4
      <4> QED
        BY <4>2, <4>3, <4>4
    <3> QED
      BY <3>1, <3>2, <3>3, <3>4
  <2> QED
    BY <2>1, <2>2 DEF Surjection
<1>3. /\ IsFiniteSet(Clients \ {c}) /\ Cardinality(Clients \ {c}) = Cardinality(Clients) - 1
      /\ Cardinality(Clients) \in Nat
  BY FS_RemoveElement, FS_CardinalityType
<1>4. IsFiniteSet(D) /\ Cardinality(D) <= Cardinality(Clients \ {c})
  <2>1. D \subseteq Clients \ {c}
    OBVIOUS
  <2> QED
    BY <1>3, <2>1, FS_Subset
<1>5. IsFiniteSet(P) /\ Cardinality(P) <= Cardinality(D)
  BY <1>2, <1>4, FS_Surjection
<1>6. Cardinality(P) \in Nat /\ Cardinality(D) \in Nat
  BY <1>4, <1>5, FS_CardinalityType
<1>7. OTP!Outstanding = Cardinality(P)
  BY DEF OTP!Outstanding, OTP!Cardinality, Cardinality
<1> QED
  BY <1>3, <1>4, <1>5, <1>6, <1>7 DEF Healthy, Room

\* A request for a code, or a login, for c: performed, refused or denied.
Attended(c, x) ==
  LET a == AccountOf[c] IN
  \/ /\ step[c] = "otp" /\ x.status = Success /\ x.otp \in Otps
     /\ \/ codes' = [codes EXCEPT ![a] = <<x.otp>> \o codes[a]]
        \/ codes[a] # <<>> /\ codes' = [codes EXCEPT ![a] = <<x.otp>> \o Tail(codes[a])]
  \/ /\ step[c] = "otp" /\ x.status # Success /\ UNCHANGED codes
     /\ OTP!Outstanding = MaxOtps /\ codes[a] = <<>>
  \/ /\ step[c] = "login" /\ x.status = Success
     /\ codes[a] # <<>> /\ codes' = [codes EXCEPT ![a] = Tail(@)]
  \/ /\ step[c] = "login" /\ x.status # Success /\ UNCHANGED codes
     /\ codes[a] = <<>> \/ Head(codes[a]) # otp_code[c]

LEMMA Attending ==
  ASSUME Parts, NEW w \in Workers, NEW c \in Clients, c = serving[w],
         OTP!Perform(w), alive[w]
  PROVE  Attended(c, [status |-> IF oans'[w].status = 1 THEN Success ELSE Error,
                      otp |-> oans'[w].otp])
<1> DEFINE x == [status |-> IF oans'[w].status = 1 THEN Success ELSE Error,
                 otp |-> oans'[w].otp]
           a == AccountOf[c]
<1>1. /\ CallInv /\ oans \in [Workers -> OTP!Answers] /\ ThreadTyped
      /\ codes \in [Ids -> Seq(Otps)] /\ a \in Ids
  BY DEF Parts, IInv, TypeOK, OTP!TypeOK
<1>2. ophase[w] = "called"
  BY DEF OTP!Perform, OTP!Effect, OTP!Issue, OTP!Deny, OTP!Spend, OTP!Refuse
<1>3. handling[w].kind = "otp" /\ oreq[w] = handling[w].r /\ handling[w] # NoPacket
  BY <1>1, <1>2 DEF CallInv, NoPacket
<1>4. Mine(c, handling[w]) /\ Planned(c)
  BY <1>1, <1>3, Asked DEF Parts, Handled, ThreadTyped
<1>5. /\ step[c] \in {"otp", "login"} /\ oreq[w].account = a
      /\ step[c] = "otp" => oreq[w].op = "generate"
      /\ step[c] = "login" => oreq[w].op = "verify" /\ oreq[w].otp = otp_code[c]
  BY <1>3, <1>4 DEF Mine, Planned
<1>6. Success # Error
  BY ServerCodes
<1>7. ASSUME NEW k \in Otps, OTP!Issue(w, k) PROVE Attended(c, x)
  <2>1. oreq[w].op = "generate" /\ oans'[w] = [status |-> 1, otp |-> k]
    BY <1>1, <1>7 DEF OTP!Issue, OTP!Effect
  <2>2. \/ codes' = [codes EXCEPT ![a] = <<k>> \o codes[a]]
        \/ /\ codes[a] # <<>>
           /\ codes' = [codes EXCEPT ![a] = <<k>> \o Tail(codes[a])]
    BY <1>5, <1>7 DEF OTP!Issue
  <2>3. step[c] = "otp" /\ x.status = Success /\ x.otp = k
    BY <1>5, <2>1
  <2>4. \/ codes' = [codes EXCEPT ![a] = <<x.otp>> \o codes[a]]
        \/ /\ codes[a] # <<>>
           /\ codes' = [codes EXCEPT ![a] = <<x.otp>> \o Tail(codes[a])]
    BY <2>2, <2>3
  <2> QED
    BY <2>3, <2>4 DEF Attended
<1>8. ASSUME OTP!Deny(w) PROVE Attended(c, x)
  <2>1. /\ oreq[w].op = "generate" /\ oans'[w] = OTP!Failure /\ UNCHANGED codes
        /\ OTP!Outstanding = MaxOtps /\ codes[a] = <<>>
    BY <1>1, <1>5, <1>8 DEF OTP!Deny, OTP!Effect
  <2>2. step[c] = "otp" /\ x.status # Success
    BY <1>5, <1>6, <2>1 DEF OTP!Failure
  <2> QED
    BY <2>1, <2>2 DEF Attended
<1>9. ASSUME OTP!Spend(w) PROVE Attended(c, x)
  <2>1. /\ oreq[w].op = "verify" /\ oans'[w].status = 1 /\ codes[a] # <<>>
        /\ codes' = [codes EXCEPT ![a] = Tail(@)]
    BY <1>1, <1>5, <1>9 DEF OTP!Spend, OTP!Effect, OTP!OnTop
  <2>2. step[c] = "login" /\ x.status = Success
    BY <1>5, <2>1
  <2> QED
    BY <2>1, <2>2 DEF Attended
<1>10. ASSUME OTP!Refuse(w) PROVE Attended(c, x)
  <2>1. /\ oreq[w].op = "verify" /\ oans'[w] = OTP!Failure /\ UNCHANGED codes
        /\ ~OTP!OnTop(oreq[w])
    BY <1>1, <1>10 DEF OTP!Refuse, OTP!Effect
  <2>2. step[c] = "login" /\ x.status # Success
    BY <1>5, <1>6, <2>1 DEF OTP!Failure
  <2> QED
    BY <1>5, <2>1, <2>2 DEF Attended, OTP!OnTop
<1> QED
  BY <1>7, <1>8, <1>9, <1>10 DEF OTP!Perform

\* What a performed call leaves to the OTP service, and does to its caller.
LEMMA OtpPerformed ==
  ASSUME OTP!TypeOK, NEW w \in Workers, OTP!Perform(w)
  PROVE  /\ up /\ ophase[w] = "called" /\ ophase' = [ophase EXCEPT ![w] = "done"]
         /\ UNCHANGED <<up, oreq, alive>> /\ oans' = [oans EXCEPT ![w] = oans'[w]]
         /\ \E pile : codes' = [codes EXCEPT ![oreq[w].account] = pile]
<1> USE DEF OTP!TypeOK
<1>1. PICK op, a : OTP!Effect(w, op, a)
  BY DEF OTP!Perform, OTP!Issue, OTP!Deny, OTP!Spend, OTP!Refuse
<1>2. \E pile : codes' = [codes EXCEPT ![oreq[w].account] = pile]
  <2>1. UNCHANGED codes \/ \E pile : codes' = [codes EXCEPT ![oreq[w].account] = pile]
    BY DEF OTP!Perform, OTP!Issue, OTP!Deny, OTP!Spend, OTP!Refuse
  <2>2. codes = [codes EXCEPT ![oreq[w].account] = codes[oreq[w].account]]
    OBVIOUS
  <2> QED
    BY <2>1, <2>2
<1> QED
  BY <1>1, <1>2 DEF OTP!Effect

LEMMA OtpPerformsParts ==
  ASSUME Parts, [StressNext]_stressVars, Noted,
         NEW w \in Workers, OtpPerforms(w)
  PROVE  Parts'
<1>0. Places /\ Places' /\ IInv /\ ThreadTyped /\ TypeOK /\ OTP!TypeOK /\ OTP!TypeOK'
  BY ServingKeeps DEF Parts, IInv, TypeOK
<1>1. /\ OTP!Perform(w)
      /\ UNCHANGED <<serving, handling, cpc, open, toServer, toClient>>
      /\ UNCHANGED <<bal, opened, phase, ans, alive, crashes>>
      /\ phase \in [Workers -> {"idle", "called", "done"}]
  BY <1>0 DEF OtpPerforms, Meanwhile, wires, ledger, TypeOK, DB!TypeOK
<1>2. /\ up /\ ophase[w] = "called" /\ ophase' = [ophase EXCEPT ![w] = "done"]
      /\ UNCHANGED <<up, oreq>> /\ oans' = [oans EXCEPT ![w] = oans'[w]]
      /\ \E pile : codes' = [codes EXCEPT ![oreq[w].account] = pile]
  BY <1>0, <1>1, OtpPerformed
<1>3. handling[w].kind = "otp" /\ oreq[w] = handling[w].r /\ handling[w] # NoPacket
      /\ phase[w] = "idle"
  BY <1>0, <1>1, <1>2 DEF IInv, CallInv, NoPacket
<1>4. PICK c \in Clients : c = serving[w]
  BY <1>0, <1>3, AtWork DEF IInv
<1>5. oreq[w].account = AccountOf[c]
  BY <1>3, <1>4 DEF Parts, Handled
<1>6. UNCHANGED <<step, flows, otp_code, confirmed, since, run>> /\ failed' \in BOOLEAN
  BY NotedFailures DEF Parts
<1>7. \A d \in Clients \ {c} : UNCHANGED codes[AccountOf[d]]
  BY <1>2, <1>5
<1>8. RoomInv' /\ (Healthy' => Healthy)
  BY <1>1, NotedFailures DEF Parts, RoomInv
<1>9. Served'
  <2>1. \A i \in Ids : i # AccountOf[c] => codes'[i] = codes[i]
    BY <1>2, <1>5
  <2> QED
    BY <1>1, <1>2, <1>8, <2>1 DEF Parts, Served
<1>10. \A v \in Workers \ {w} : Untouched(v)
  BY <1>0, <1>1, <1>2 DEF Untouched, OTP!TypeOK
<1>11. Fine(c)
  BY DEF Parts
<1>12. CASE ~alive[w]
  <2>1. ~open[c] /\ cpc[c] \in {"ready", "pending", "gone"} /\ toServer[c] = <<>>
        /\ toClient[c] = <<>>
    BY <1>0, <1>3, <1>4, <1>12 DEF Places, Place, Working
  <2>2. \A v \in Workers : ~Busy(v, c) /\ ~Busy(v, c)'
    BY <1>0, <1>1, <1>4, <1>12, OnlyOne DEF Busy, Working
  <2>3. /\ OnItsWay(c) = {} /\ ~ToDo(c) /\ OnItsWay(c)' = {} /\ ~ToDo(c)'
    BY <1>0, <1>1, <2>1, <2>2 DEF Places, Place
  <2>4. ~Healthy'
    BY <1>8, <1>12 DEF Parts, Served
  <2>5. Books(c)'
    BY <1>1, <1>6, <1>11, <2>1, <2>3 DEF Fine, Books, Room
  <2>6. Fine(c)'
    BY <1>1, <1>6, <1>11, <2>1, <2>3, <2>4, <2>5 DEF Fine, CodeKept
  <2> QED
    BY <1>1, <1>2, <1>4, <1>7, <1>8, <1>9, <1>10, <2>6, WorkerMoves
<1>13. CASE alive[w]
  <2> DEFINE x == [status |-> IF oans'[w].status = 1 THEN Success ELSE Error,
                   otp |-> oans'[w].otp]
             a == AccountOf[c]
  <2>1. InHand(w) = {} /\ InHand(w)' = {x}
    BY <1>0, <1>1, <1>2, <1>3 DEF InHand, OTP!TypeOK
  <2>2. /\ Busy(w, c) /\ Busy(w, c)' /\ open[c] /\ cpc[c] \in {"pending", "gone"}
        /\ toServer[c] = <<>>
    BY <1>0, <1>1, <1>3, <1>4, <1>13, AtServer DEF Busy, Working
  <2>3. OnItsWay(c) = {} /\ ToDo(c) /\ OnItsWay(c)' = {x} /\ ~ToDo(c)'
    <3>1. OnItsWay(c) = InHand(w) /\ (ToDo(c) <=> InHand(w) = {})
      BY <1>0, <2>2 DEF Places, Place
    <3>2. OnItsWay(c)' = InHand(w)' /\ (ToDo(c)' <=> InHand(w)' = {})
      BY <1>0, <2>2 DEF Places, Place
    <3> QED
      BY <2>1, <3>1, <3>2
  <2>4. Attended(c, x)
    BY <1>1, <1>4, <1>13, Attending
  <2>5. step[c] \in {"otp", "login"} /\ (step[c] = "otp" /\ x.status = Success => x.otp \in Otps)
    BY <2>4 DEF Attended
  <2>6. codes \in [Ids -> Seq(Otps)] /\ a \in Ids
    BY <1>0 DEF OTP!TypeOK
  <2>7. Books(c)'
    BY <1>1, <1>6, <1>11, <2>2, <2>3, <2>5 DEF Fine, Books, Room
  <2>8. step[c] = "otp" /\ x.status = Success => codes'[a] # <<>> /\ Head(codes'[a]) = x.otp
    BY <2>4, <2>6 DEF Attended
  <2>9. step[c] = "login" /\ x.status # Success => crashes > since[c]
    <3>1. step[c] = "login" => TopCode(c, otp_code[c])
      BY <1>11, <2>3 DEF Fine, CodeKept
    <3> QED
      BY <2>4, <3>1 DEF Attended, TopCode
  <2>10. CodeKept(c)'
    BY <1>1, <1>2, <1>6, <2>3, <2>8 DEF CodeKept, TopCode
  <2>11. Healthy' => Flowing(c)'
    <3> SUFFICES ASSUME Healthy' PROVE Flowing(c)'
      OBVIOUS
    <3>1. Healthy /\ Flowing(c) /\ crashes = 0
      BY <1>8, <1>11 DEF Fine, Parts, Served
    <3>2. Len(codes[a]) = IF step[c] = "login" THEN 1 ELSE 0
      BY <2>3, <3>1 DEF Flowing
    <3>3. x.status = Success
      <4>1. CASE step[c] = "otp"
        <5>1. codes[a] = <<>>
          BY <2>6, <3>2, <4>1
        <5>2. OTP!Outstanding < MaxOtps
          BY <3>1, <5>1, CodeRoom
        <5>3. OTP!Outstanding # MaxOtps
          BY <5>2
        <5> QED
          BY <2>4, <4>1, <5>3 DEF Attended
      <4>2. CASE step[c] = "login"
        BY <1>0, <2>9, <3>1, <4>2 DEF ThreadTyped
      <4> QED
        BY <2>5, <4>1, <4>2
    <3>4. Len(codes'[a]) = IF step[c] = "otp" THEN 1 ELSE 0
      <4>1. CASE step[c] = "otp"
        <5>1. codes[a] = <<>>
          BY <2>6, <3>2, <4>1
        <5>2. codes'[a] = <<x.otp>>
          BY <2>4, <2>6, <3>3, <4>1, <5>1 DEF Attended
        <5> QED
          BY <4>1, <5>2
      <4>2. CASE step[c] = "login"
        <5>1. codes'[a] = Tail(codes[a])
          BY <2>4, <2>6, <3>3, <4>2 DEF Attended
        <5> QED
          BY <2>6, <3>2, <4>2, <5>1
      <4> QED
        BY <2>5, <4>1, <4>2
    <3> QED
      BY <1>1, <1>6, <2>3, <2>5, <3>1, <3>3, <3>4 DEF Flowing
  <2>12. Fine(c)'
    BY <1>1, <1>6, <1>11, <2>2, <2>3, <2>5, <2>7, <2>10, <2>11 DEF Fine
  <2> QED
    BY <1>1, <1>2, <1>4, <1>7, <1>8, <1>9, <1>10, <2>12, WorkerMoves
<1> QED
  BY <1>12, <1>13

\* The call did not get through: the flow of the thread ends.
LEMMA GiveUpParts ==
  ASSUME Parts, [StressNext]_stressVars, Noted, NEW w \in Workers,
         RespondOtp(w), ophase[w] # "done"
  PROVE  Parts'
<1>0. Places /\ Places' /\ IInv /\ ThreadTyped /\ TypeOK /\ OTP!TypeOK /\ PacketInv
  BY ServingKeeps DEF Parts, IInv, TypeOK
<1>1. /\ alive[w] /\ ophase[w] = "called" /\ OTP!GiveUp(w) /\ Answer(w, Error, 0, NoCode)
      /\ UNCHANGED <<bal, opened, codes, crashes, up, alive, phase, ans>>
      /\ ophase' = [ophase EXCEPT ![w] = "idle"] /\ oans' = [oans EXCEPT ![w] = OTP!Failure]
  BY DEF RespondOtp, OTP!Return, OTP!GiveUp, OTP!Over, ledger
<1>2. handling[w].kind = "otp" /\ handling[w] # NoPacket /\ phase[w] = "idle"
  BY <1>0, <1>1 DEF IInv, CallInv, NoPacket, TypeOK, DB!TypeOK
<1>3. PICK c \in Clients : c = serving[w]
  BY <1>0, <1>2, AtWork
<1>4. InHand(w) = {}
  BY <1>1, <1>2 DEF InHand
<1>5. /\ Busy(w, c) /\ OnItsWay(c) = {} /\ ToDo(c) /\ toServer[c] = <<>>
      /\ toClient[c] = <<>> /\ open[c] /\ cpc[c] \in {"pending", "gone"}
      /\ Mine(c, handling[w]) /\ Planned(c) /\ Fine(c)
  BY <1>0, <1>1, <1>2, <1>3, <1>4, AtServer
<1>6. step[c] \in {"otp", "login"}
  BY <1>2, <1>5 DEF Mine, Planned
<1>7. Error \in Codes /\ 0 \in Money /\ Error # Success
  BY ServerCodes
<1>8. /\ handling' = [handling EXCEPT ![w] = NoPacket]
      /\ UNCHANGED <<serving, cpc, open, toServer>>
      /\ \A d \in Clients :
           \/ toClient'[d] = toClient[d] /\ (d # c \/ cpc[d] = "gone")
           \/ /\ d = c /\ cpc[c] = "pending" /\ toClient'[c] # <<>>
              /\ Head(toClient'[c]) = Response(handling[w], Error, 0, NoCode)
  BY <1>0, <1>1, <1>2, <1>3, <1>7, Answered
<1>9. handling \in [Workers -> Packets \cup {NoPacket}]
  BY <1>0 DEF TypeOK
<1>10. \A v \in Workers : ~Busy(v, c)'
  BY <1>0, <1>3, <1>8, <1>9, OnlyOne DEF Busy, Working
<1>11. (\A x \in OnItsWay(c)' : x.status = Error) /\ ~ToDo(c)'
  <2>1. CASE toClient'[c] = <<>>
    <3>1. OnItsWay(c)' = {} /\ ~ToDo(c)'
      BY <1>0, <1>5, <1>8, <1>10, <2>1 DEF Places, Place
    <3> QED
      BY <3>1
  <2>2. CASE toClient'[c] # <<>>
    <3>1. Head(toClient'[c]) = Response(handling[w], Error, 0, NoCode)
      BY <1>5, <1>8, <2>2
    <3>2. Said(c)'.status = Error
      BY <3>1 DEF Said, Response
    <3>3. OnItsWay(c)' = {Said(c)'} /\ ~ToDo(c)'
      BY <1>0, <2>2 DEF Places, Place
    <3> QED
      BY <3>2, <3>3
  <2> QED
    BY <2>1, <2>2
<1>12. UNCHANGED <<step, flows, otp_code, confirmed, since, run>> /\ failed' \in BOOLEAN
  BY NotedFailures DEF Parts
<1>13. ~Healthy' /\ RoomInv' /\ Served'
  <2>1. ~Healthy'
    BY <1>1, NotedFailures DEF Parts
  <2> QED
    BY <1>1, <2>1 DEF Parts, RoomInv, Served
<1>14. Books(c)'
  BY <1>1, <1>5, <1>6, <1>7, <1>8, <1>11, <1>12 DEF Fine, Books, Room
<1>15. CodeKept(c)'
  BY <1>1, <1>7, <1>11, <1>12 DEF CodeKept
<1>16. Fine(c)'
  BY <1>1, <1>5, <1>7, <1>8, <1>11, <1>12, <1>13, <1>14, <1>15 DEF Fine
<1>17. \A v \in Workers \ {w} : Untouched(v)
  BY <1>0, <1>1, <1>8, <1>9 DEF Untouched, OTP!TypeOK
<1>18. \A d \in Clients \ {c} :
         UNCHANGED <<toClient[d], bal[AccountOf[d]], codes[AccountOf[d]]>>
  BY <1>1, <1>8
<1>19. handling'[w] \in {handling[w], NoPacket}
  BY <1>8, <1>9
<1> QED
  BY <1>1, <1>3, <1>8, <1>13, <1>16, <1>17, <1>18, <1>19, WorkerMoves

\* The OTP service crashes, which fails calls under way, or is started again.
LEMMA OtpFailsParts ==
  ASSUME Parts, [StressNext]_stressVars, Noted, OtpFails
  PROVE  Parts'
<1>0. /\ Places /\ Places' /\ IInv /\ IInv' /\ ThreadTyped /\ OTP!TypeOK
      /\ crashes \in Nat /\ CallInv
  <2>1. Places /\ Places' /\ IInv /\ IInv' /\ ThreadTyped
    BY ServingKeeps DEF Parts
  <2>2. TypeOK /\ CallInv
    BY <2>1 DEF IInv
  <2>3. OTP!TypeOK /\ crashes \in 0..MaxCrashes
    BY <2>2 DEF TypeOK
  <2> QED
    BY <2>1, <2>2, <2>3
<1>1. /\ UNCHANGED <<serving, handling, cpc, open, toServer, toClient>>
      /\ UNCHANGED <<bal, opened, phase, ans, alive>>
  BY DEF OtpFails, Meanwhile, wires, ledger
<1>2. UNCHANGED <<step, flows, otp_code, confirmed, since, run>> /\ failed' \in BOOLEAN
  BY NotedFailures DEF Parts
<1>3. \/ /\ crashes' = crashes + 1
         /\ \A w \in Workers :
              \/ UNCHANGED <<ophase[w], oans[w]>>
              \/ /\ ophase[w] # "idle" /\ ophase'[w] = "done" /\ oans'[w] = OTP!Failure
      \/ UNCHANGED <<crashes, codes, ophase, oans>> /\ ~up
  BY <1>0 DEF OtpFails, OTP!Crash, OTP!Restart, OTP!TypeOK
<1>4. ~Healthy'
  <2>1. CASE crashes' = crashes + 1
    BY <1>0, <2>1, NotedFailures
  <2>2. CASE crashes' = crashes /\ ~up
    BY <1>0, <2>2, NotedFailures DEF Parts, Served
  <2> QED
    BY <1>3, <2>1, <2>2
<1>5. ASSUME NEW w \in Workers
      PROVE  \/ InHand(w)' = InHand(w)
             \/ /\ crashes' = crashes + 1 /\ handling[w].kind = "otp"
                /\ InHand(w)' = {[status |-> Error, otp |-> NoCode]}
  <2>1. CASE UNCHANGED <<ophase[w], oans[w]>>
    BY <1>1, <2>1, InHandSame
  <2>2. CASE /\ crashes' = crashes + 1
             /\ ophase[w] # "idle" /\ ophase'[w] = "done" /\ oans'[w] = OTP!Failure
    <3>1. handling[w].kind = "otp" /\ phase[w] = "idle"
      BY <1>0, <2>2 DEF CallInv, IInv, TypeOK, DB!TypeOK
    <3> QED
      BY <1>1, <2>2, <3>1 DEF InHand, OTP!Failure
  <2> QED
    BY <1>3, <2>1, <2>2
<1>6. Error # Success
  BY ServerCodes
<1>7. ASSUME NEW c \in Clients PROVE Fine(c)'
  <2>1. \A w \in Workers : Busy(w, c)' <=> Busy(w, c)
    BY <1>1 DEF Busy, Working
  <2>2. Place(c) /\ Place(c)' /\ Fine(c) /\ Planned(c)
    BY <1>0, Asked DEF Places, Parts, ThreadTyped
  <2>3. /\ ToDo(c)' => ToDo(c)
        /\ \A x \in OnItsWay(c)' :
             \/ x \in OnItsWay(c)
             \/ /\ x.status = Error /\ crashes' = crashes + 1 /\ step[c] \in {"otp", "login"}
                /\ open[c] /\ (ToDo(c) \/ OnItsWay(c) # {})
    <3>1. CASE \A w \in Workers : ~Busy(w, c)
      <4>1. OnItsWay(c)' = OnItsWay(c) /\ (ToDo(c)' => ToDo(c))
        BY <1>1, <2>1, <3>1, Aside DEF ToDo
      <4> QED
        BY <4>1
    <3>2. ASSUME NEW w \in Workers, Busy(w, c)
          PROVE  /\ ToDo(c)' => ToDo(c)
                 /\ \A x \in OnItsWay(c)' :
                      \/ x \in OnItsWay(c)
                      \/ /\ x.status = Error /\ crashes' = crashes + 1
                         /\ step[c] \in {"otp", "login"}
                         /\ open[c] /\ (ToDo(c) \/ OnItsWay(c) # {})
      <4>1. /\ OnItsWay(c) = InHand(w) /\ (ToDo(c) <=> InHand(w) = {}) /\ open[c]
            /\ OnItsWay(c)' = InHand(w)' /\ (ToDo(c)' <=> InHand(w)' = {})
        BY <2>1, <2>2, <3>2 DEF Place
      <4>2. handling[w].kind = "otp" => step[c] \in {"otp", "login"}
        <5>1. Mine(c, handling[w])
          BY <3>2 DEF Busy, Working, Parts, Handled
        <5>2. PacketOf(c).kind = "otp" => step[c] \in {"otp", "login"}
          BY <2>2 DEF Planned
        <5> QED
          BY <5>1, <5>2 DEF Mine
      <4>3. CASE InHand(w)' = InHand(w)
        BY <4>1, <4>3
      <4>4. CASE /\ crashes' = crashes + 1 /\ handling[w].kind = "otp"
                 /\ InHand(w)' = {[status |-> Error, otp |-> NoCode]}
        BY <4>1, <4>2, <4>4
      <4> QED
        BY <1>5, <4>3, <4>4
    <3> QED
      BY <3>1, <3>2
  <2>4. \A code : TopCode(c, code) => TopCode(c, code)'
    BY <1>0, <1>2, <1>3, <2>2 DEF TopCode, Fine, ThreadTyped
  <2>5. crashes' = crashes + 1 => crashes' > since'[c]
    BY <1>0, <1>2, <2>2 DEF Fine, ThreadTyped
  <2>6. Books(c)'
    <3>1. ToDo(c)' => bal'[AccountOf[c]] # InitialBalance + Deposit * confirmed'[c] + Deposit
      BY <1>1, <1>2, <2>2, <2>3 DEF Fine, Books
    <3>2. ASSUME NEW x \in OnItsWay(c)'
          PROVE  bal'[AccountOf[c]] = InitialBalance + Deposit * confirmed'[c] + Deposit
                   <=> step'[c] = "deposit" /\ x.status = Success
      <4>1. CASE x \in OnItsWay(c)
        BY <1>1, <1>2, <2>2, <4>1 DEF Fine, Books
      <4>2. CASE step[c] \in {"otp", "login"} /\ (ToDo(c) \/ OnItsWay(c) # {})
        BY <1>1, <1>2, <2>2, <4>2 DEF Fine, Books
      <4> QED
        BY <2>3, <4>1, <4>2
    <3>3. OnItsWay(c)' # {} => OnItsWay(c) # {} \/ (open[c] /\ step[c] # "create")
      BY <2>3
    <3>4. /\ Room /\ \/ open'[c] /\ (step'[c] # "create" \/ flows'[c] > 0)
                     \/ OnItsWay(c)' # {}
          => bal'[AccountOf[c]] # NoAccount
      BY <1>1, <1>2, <2>2, <3>3 DEF Fine, Books
    <3>5. \/ bal'[AccountOf[c]] \in {InitialBalance + Deposit * confirmed'[c],
                                     InitialBalance + Deposit * confirmed'[c] + Deposit}
          \/ bal'[AccountOf[c]] = NoAccount /\ confirmed'[c] = 0
      BY <1>1, <1>2, <2>2 DEF Fine, Books
    <3> QED
      BY <3>1, <3>2, <3>4, <3>5 DEF Books, Room
  <2>7. CodeKept(c)'
    <3>1. ToDo(c)' /\ step'[c] = "login" => TopCode(c, otp_code[c])'
      BY <1>2, <2>2, <2>3, <2>4 DEF Fine, CodeKept, TopCode
    <3>2. ASSUME NEW x \in OnItsWay(c)', step'[c] = "otp", x.status = Success
          PROVE  TopCode(c, x.otp)'
      <4>1. CASE x \in OnItsWay(c)
        BY <1>2, <2>2, <2>4, <3>2, <4>1 DEF Fine, CodeKept
      <4>2. CASE x.status = Error /\ crashes' = crashes + 1
        BY <1>6, <3>2, <4>2
      <4> QED
        BY <2>3, <4>1, <4>2
    <3> QED
      BY <3>1, <3>2 DEF CodeKept
  <2>8. step'[c] = "otp" => \A x \in OnItsWay(c)' : x.status = Success => x.otp \in Otps
    BY <1>2, <1>6, <2>2, <2>3 DEF Fine
  <2>9. since'[c] <= crashes'
    BY <1>0, <1>2, <1>3, <2>2 DEF Fine, ThreadTyped
  <2>10. toServer'[c] # <<>> => Mine(c, Head(toServer[c]))'
    <3>1. step \in [Clients -> Steps] /\ step' \in [Clients -> Steps]
      BY <1>0, <1>2 DEF ThreadTyped
    <3> QED
      BY <1>1, <1>2, <2>2, <3>1, SameAsk DEF Fine, Mine
  <2> QED
    BY <1>1, <1>2, <1>4, <2>2, <2>6, <2>7, <2>8, <2>9, <2>10 DEF Fine
<1>8. ThreadTyped' /\ RoomInv' /\ Served'
  BY <1>1, <1>2, <1>4 DEF Parts, ThreadTyped, RoomInv, Served
<1>9. ASSUME NEW w \in Workers PROVE Keeps(w)
  BY <1>1, <1>2 DEF Keeps
<1> QED
  BY <1>7, <1>8, <1>9, Assembled

-----------------------------------------------------------------------------
(***************************************************************************)
(* The invariant, and what it implies.                                     *)
(***************************************************************************)
LEMMA BeginsWell == StressInit => Parts
<1> SUFFICES ASSUME StressInit PROVE Parts
  OBVIOUS
<1>1. IInv /\ Places /\ TypeOK
  BY InitHolds, PlacesHold DEF StressInit, IInv
<1>2. /\ bal = [i \in Ids |-> NoAccount] /\ opened = 0 /\ codes = [i \in Ids |-> <<>>]
      /\ up = TRUE /\ crashes = 0
      /\ handling = [w \in Workers |-> NoPacket] /\ cpc = [c \in Clients |-> "off"]
      /\ open = [c \in Clients |-> FALSE] /\ toServer = [c \in Clients |-> <<>>]
      /\ toClient = [c \in Clients |-> <<>>] /\ alive = [w \in Workers |-> TRUE]
  BY DEF StressInit, Init, DB!Init, OTP!Init
<1>3. /\ step = [c \in Clients |-> "create"] /\ flows = [c \in Clients |-> 0]
      /\ otp_code = [c \in Clients |-> NoCode] /\ run = "running"
      /\ confirmed = [c \in Clients |-> 0] /\ since = [c \in Clients |-> 0]
      /\ failed = FALSE
  BY DEF StressInit
<1>4. ThreadTyped
  <2>1. failed \in BOOLEAN
    BY <1>3
  <2> QED
    BY <1>3, <2>1 DEF ThreadTyped, Steps
<1>5. RoomInv
  <2>1. {c \in Clients : bal[AccountOf[c]] # NoAccount} = {}
    BY <1>2
  <2>2. Cardinality({}) = 0
    BY FS_EmptySet
  <2>3. opened <= Cardinality({})
    BY <1>2, <2>2
  <2> QED
    BY <2>1, <2>3 DEF RoomInv
<1>6. Served /\ \A w \in Workers : Handled(w)
  BY <1>2 DEF Served, Handled
<1>7. ASSUME NEW c \in Clients PROVE Fine(c)
  <2>1. \A w \in Workers : ~Busy(w, c)
    BY <1>2 DEF Busy, Working
  <2>2. OnItsWay(c) = {} /\ toServer[c] = <<>> /\ ~open[c]
    BY <1>1, <1>2, <2>1 DEF Places, Place
  <2>3. bal[AccountOf[c]] = NoAccount /\ codes[AccountOf[c]] = <<>>
    BY <1>2
  <2>4. NoAccount # InitialBalance + Deposit * confirmed[c] + Deposit
    BY <1>3, Sums
  <2>5. Books(c)
    BY <1>3, <2>2, <2>3, <2>4 DEF Books
  <2>6. CodeKept(c) /\ Flowing(c)
    BY <1>2, <1>3, <2>2, <2>3 DEF CodeKept, Flowing
  <2> QED
    BY <1>2, <1>3, <2>2, <2>5, <2>6 DEF Fine
<1> QED
  BY <1>1, <1>4, <1>5, <1>6, <1>7 DEF Parts

LEMMA PartsKept == Parts /\ [StressNext]_stressVars => Parts'
<1> SUFFICES ASSUME Parts, [StressNext]_stressVars PROVE Parts'
  OBVIOUS
<1>1. ASSUME NEW c \in Clients, ThreadStep(c) PROVE Parts'
  <2>1. CASE Begin(c)
    BY <2>1, BeginParts
  <2>2. CASE SendNext(c)
    BY <2>2, SendParts
  <2>3. CASE ReceiveNext(c)
    BY <2>3, ReceiveParts
  <2>4. CASE FlowFails(c)
    BY <2>4, FlowFailsParts
  <2>5. CASE NeverConnects(c) \/ Finish(c)
    BY <2>5, ThreadEndsParts
  <2> QED
    BY <1>1, <2>1, <2>2, <2>3, <2>4, <2>5 DEF ThreadStep
<1>2. CASE SigPipe
  BY <1>2, ThreadEndsParts
<1>3. CASE Report \/ UNCHANGED stressVars
  BY <1>3, ReportParts
<1>4. ASSUME Noted, NEW w \in Workers, WorkerStep(w) PROVE Parts'
  <2>1. CASE Accept(w) \/ HandshakeFails(w)
    BY <1>4, <2>1, AcceptParts
  <2>2. CASE CallDatabase(w) \/ CallOtp(w)
    BY <1>4, <2>2, CallParts
  <2>3. CASE DatabasePerforms(w)
    BY <1>4, <2>3, DatabasePerformsParts
  <2>4. CASE Respond(w)
    BY <1>4, <2>4, RespondParts
  <2>5. CASE OtpPerforms(w)
    BY <1>4, <2>5, OtpPerformsParts
  <2>6. CASE RespondOtp(w)
    BY <1>4, <2>6, ReturnParts, GiveUpParts
  <2>7. ASSUME NEW c \in Clients, EndOfConnection(w, c) PROVE Parts'
    BY <1>4, <2>7, CloseParts
  <2>8. ASSUME NEW c \in Clients, TakePacket(w, c) PROVE Parts'
    BY <1>4, <2>8, TakePacketParts
  <2>9. ~Malformed(w) /\ \A c \in Clients : ~WrongSize(w, c) /\ ~BadChecksum(w, c)
    BY NeverRefused
  <2> QED
    BY <1>4, <2>1, <2>2, <2>3, <2>4, <2>5, <2>6, <2>7, <2>8, <2>9 DEF WorkerStep
<1>5. ASSUME Noted, NEW w \in Workers, Die(w) PROVE Parts'
  BY <1>5, CloseParts
<1>6. CASE OtpFails /\ Noted
  BY <1>6, OtpFailsParts
<1> QED
  BY <1>1, <1>2, <1>3, <1>4, <1>5, <1>6 DEF StressNext

-----------------------------------------------------------------------------
(***************************************************************************)
(* Logins that get through to the OTP service.                             *)
(***************************************************************************)

\* The outcome of a call of w to the OTP service stays as it is.
Settled(w) ==
  UNCHANGED <<ophase[w], oans[w], serving[w], handling[w], alive[w], crashes>>

\* What a call to the OTP service has come to, it has come to before, by the
\* call's effect or by a crash.
LEMMA Settling ==
  ASSUME Parts, NEW v \in Workers, NEW w \in Workers, WorkerStep(v) \/ Die(v),
         alive'[w], handling'[w] # NoPacket, ophase'[w] = "done"
  PROVE  Settled(w) \/ OtpPerforms(w)
<1>1. /\ TypeOK /\ CallInv /\ ConnectionInv /\ PacketInv
      /\ ophase \in [Workers -> {"idle", "called", "done"}]
      /\ alive \in [Workers -> BOOLEAN] /\ oans \in [Workers -> OTP!Answers]
      /\ serving \in [Workers -> Clients \cup {Nobody}]
      /\ handling \in [Workers -> Packets \cup {NoPacket}]
  BY DEF Parts, IInv, TypeOK, OTP!TypeOK, DB!TypeOK
<1>2. /\ ophase[w] = "done" => handling[w] # NoPacket
      /\ serving[v] = Nobody => handling[v] = NoPacket
  BY <1>1 DEF CallInv, NoPacket, PacketInv, AtHand
<1>3. CASE Accept(v) \/ HandshakeFails(v)
  BY <1>1, <1>2, <1>3 DEF Accept, HandshakeFails, services, ledger, otp, Settled
<1>4. CASE Malformed(v)
  BY <1>1, <1>4 DEF Malformed, Answer, services, ledger, otp, Settled
<1>5. CASE CallDatabase(v)
  BY <1>1, <1>5 DEF CallDatabase, DB!Start, Meanwhile, otp, Settled
<1>6. CASE DatabasePerforms(v)
  <2>1. UNCHANGED alive
    BY <1>6 DEF DatabasePerforms, DB!Perform, DB!Refusal, DB!Opening, DB!Movement,
                DB!Inquiry, DB!Effect
  <2> QED
    BY <1>1, <1>6, <2>1 DEF DatabasePerforms, Meanwhile, otp, Settled
<1>7. CASE Respond(v)
  BY <1>1, <1>7 DEF Respond, DB!Finish, Answer, otp, Settled
<1>8. CASE CallOtp(v)
  BY <1>1, <1>8 DEF CallOtp, OTP!Start, Meanwhile, Settled
<1>9. CASE OtpPerforms(v)
  <2>1. OTP!TypeOK
    BY <1>1 DEF TypeOK
  <2>2. /\ ophase' = [ophase EXCEPT ![v] = "done"] /\ oans' = [oans EXCEPT ![v] = oans'[v]]
        /\ UNCHANGED alive
    BY <1>9, <2>1, OtpPerformed DEF OtpPerforms
  <2> QED
    BY <1>1, <1>9, <2>2 DEF OtpPerforms, Meanwhile, Settled
<1>10. CASE RespondOtp(v)
  BY <1>1, <1>10 DEF RespondOtp, OTP!Return, OTP!GiveUp, OTP!Over, Answer, Settled
<1>11. CASE Die(v)
  BY <1>1, <1>11 DEF Die, DB!Kill, OTP!Kill, Settled
<1>12. ASSUME NEW c \in Clients, EndOfConnection(v, c) \/ WrongSize(v, c)
       PROVE  Settled(w)
  BY <1>1, <1>2, <1>12
     DEF EndOfConnection, WrongSize, ReadsFrom, CloseConnection, services, ledger, otp, Settled
<1>13. ASSUME NEW c \in Clients, BadChecksum(v, c) \/ TakePacket(v, c)
       PROVE  Settled(w)
  BY <1>1, <1>2, <1>13 DEF BadChecksum, TakePacket, ReadsFrom, services, ledger, otp, Settled
<1> QED
  BY <1>3, <1>4, <1>5, <1>6, <1>7, <1>8, <1>9, <1>10, <1>11, <1>12, <1>13 DEF WorkerStep

LEMMA LoginsKept ==
  ASSUME Parts, LoginAccepted, [StressNext]_stressVars
  PROVE  LoginAccepted'
<1> SUFFICES ASSUME NEW c \in Clients, NEW w \in Workers, step'[c] = "login", alive'[w],
                    Working(w, c)', ophase'[w] = "done", oans'[w].status # 1
             PROVE  crashes' > since'[c]
  BY DEF LoginAccepted
<1>1. /\ ThreadTyped /\ Places /\ IInv /\ IInv' /\ OTP!TypeOK /\ Fine(c) /\ c # Nobody
      /\ crashes \in Nat /\ since[c] \in Nat /\ since[c] <= crashes
  <2>1. TypeOK /\ c # Nobody
    BY DEF Parts, IInv
  <2>2. OTP!TypeOK /\ crashes \in 0..MaxCrashes
    BY <2>1 DEF TypeOK
  <2> QED
    BY <2>1, <2>2, ServingKeeps DEF Parts, ThreadTyped, Fine
\* Settled before, for the same request of c.
<1>2. ASSUME Settled(w), UNCHANGED <<step[c], since[c]>>
      PROVE  crashes' > since'[c]
  BY <1>2 DEF LoginAccepted, Working, Settled
<1>3. ASSUME UNCHANGED <<services, serving, handling>>
      PROVE  Settled(w) /\ Busy(w, c)
  BY <1>3 DEF services, ledger, otp, Settled, Busy, Working
<1>4. ASSUME NEW d \in Clients, ThreadStep(d) PROVE crashes' > since'[c]
  <2>1. CASE Begin(d) \/ NeverConnects(d) \/ Finish(d)
    BY <1>2, <1>3, <2>1
       DEF Begin, NeverConnects, Finish, Connect, Leave, EndProcess, thread, program
  <2>2. CASE SendNext(d)
    <3>1. UNCHANGED <<services, serving, handling, step>>
      BY <2>2 DEF SendNext, Send
    <3>2. since' = IF step[d] = "otp" THEN [since EXCEPT ![d] = crashes] ELSE since
      BY <2>2 DEF SendNext
    <3>3. since'[c] = since[c]
      BY <1>1, <3>1, <3>2 DEF ThreadTyped
    <3> QED
      BY <1>2, <1>3, <3>1, <3>3
  <2>3. CASE ReceiveNext(d)
    <3>1. /\ UNCHANGED <<services, serving, handling, since>> /\ toClient[d] # <<>>
          /\ Follow(d, Head(toClient[d]))
      BY <2>3 DEF ReceiveNext, Receive
    <3>2. Busy(w, c)
      BY <1>3, <3>1
    <3>3. d # c
      BY <1>1, <3>1, <3>2 DEF Places, Place, Busy
    <3>4. \E next : step' = [step EXCEPT ![d] = next]
      BY <3>1 DEF Follow, GoOn, EndFlow
    <3>5. step'[c] = step[c]
      BY <1>1, <3>3, <3>4 DEF ThreadTyped
    <3> QED
      BY <1>2, <1>3, <3>1, <3>5
  <2>4. CASE FlowFails(d)
    <3>1. /\ UNCHANGED <<services, serving, handling, since>>
          /\ step' = [step EXCEPT ![d] = "create"]
      BY <2>4 DEF FlowFails, RequestFails, EndFlow
    <3>2. step'[c] = step[c]
      BY <1>1, <3>1 DEF ThreadTyped
    <3> QED
      BY <1>2, <1>3, <3>1, <3>2
  <2> QED
    BY <1>4, <2>1, <2>2, <2>3, <2>4 DEF ThreadStep
<1>5. CASE SigPipe \/ Report \/ UNCHANGED stressVars
  BY <1>2, <1>3, <1>5 DEF SigPipe, Report, EndProcess, stressVars, vars, thread, program
<1>6. ASSUME Noted, NEW v \in Workers, WorkerStep(v) \/ Die(v)
      PROVE  crashes' > since'[c]
  <2>1. UNCHANGED <<step, since>>
    BY <1>1, <1>6, NotedFailures
  <2>2. CASE Settled(w)
    BY <1>2, <2>1, <2>2
  <2>3. CASE OtpPerforms(w)
    <3>1. /\ OTP!Perform(w) /\ UNCHANGED <<serving, handling, phase, crashes>>
      BY <2>3 DEF OtpPerforms, Meanwhile, ledger
    <3>2. ophase[w] = "called" /\ UNCHANGED alive
      BY <1>1, <3>1, OtpPerformed
    <3>3. alive[w] /\ serving[w] = c /\ handling[w] # NoPacket
      BY <3>1, <3>2 DEF Working
    <3>4. phase[w] = "idle"
      BY <1>1, <3>2 DEF IInv, CallInv, TypeOK, DB!TypeOK
    <3>5. ToDo(c)
      <4>1. InHand(w) = {}
        BY <3>2, <3>4 DEF InHand
      <4> QED
        BY <1>1, <3>3, <4>1, AtServer
    <3>6. Attended(c, [status |-> Error, otp |-> oans'[w].otp])
      BY <3>1, <3>3, Attending
    <3>7. codes[AccountOf[c]] = <<>> \/ Head(codes[AccountOf[c]]) # otp_code[c]
      BY <2>1, <3>6, ServerCodes DEF Attended
    <3>8. TopCode(c, otp_code[c])
      BY <1>1, <2>1, <3>5 DEF Fine, CodeKept
    <3> QED
      BY <2>1, <3>1, <3>7, <3>8 DEF TopCode
  <2>4. handling'[w] # NoPacket
    BY DEF Working
  <2> QED
    BY <1>6, <2>2, <2>3, <2>4, Settling
<1>7. CASE OtpFails /\ Noted
  <2>1. UNCHANGED <<step, since>>
    BY <1>1, <1>7, NotedFailures
  <2>2. CASE crashes' = crashes + 1
    BY <1>1, <2>1, <2>2
  <2>3. CASE OTP!Restart /\ UNCHANGED crashes
    <3>1. Settled(w)
      BY <1>7, <2>3 DEF OTP!Restart, OtpFails, Meanwhile, ledger, Settled
    <3> QED
      BY <1>2, <2>1, <3>1
  <2> QED
    BY <1>7, <2>2, <2>3 DEF OtpFails
<1> QED
  BY <1>4, <1>5, <1>6, <1>7 DEF StressNext

\* Types, what threads and server have of each other's requests, the books, the
\* codes and the health of the flows, for worker_thread against the server.
THEOREM StressInvariantHolds == StressSpec => []StressInv
<1>1. StressInit => StressInv
  <2>1. StressInit => LoginAccepted
    BY DEF StressInit, LoginAccepted
  <2> QED
    BY <2>1, BeginsWell, SortedOut
<1>2. StressInv /\ [StressNext]_stressVars => StressInv'
  <2>1. StressInv /\ [StressNext]_stressVars => Parts' /\ LoginAccepted'
    BY PartsKept, LoginsKept, SortedOut
  <2>2. Parts' /\ LoginAccepted' => StressInv'
    BY SortedOut, PTL
  <2> QED
    BY <2>1, <2>2
<1> QED
  BY <1>1, <1>2, PTL DEF StressSpec

\* worker_thread is a client of the server as any other: whatever the server
\* promises its clients holds for the threads.
THEOREM ThreadsAreClients == StressSpec => Spec
<1>1. StressInit => Init
  BY DEF StressInit
<1>2. StressInv /\ [StressNext]_stressVars => [Next]_vars
  BY StressIsServing DEF StressInv
<1> QED
  BY <1>1, <1>2, StressInvariantHolds, PTL DEF StressSpec, Spec

\* A login of worker_thread that gets through to the OTP service is refused there
\* only after a crash of it since the thread asked for its code, whatever the
\* other threads do and however many codes the service has left over.
THEOREM LoginsAccepted == StressSpec => []LoginAccepted
<1>1. StressInv => LoginAccepted
  BY DEF StressInv
<1> QED
  BY <1>1, StressInvariantHolds, PTL

\* As long as the threads are no more than MAX_ACCOUNTS and MAX_OTPS, the balance
\* in shared memory is what worker_thread has had confirmed, and at most the one
\* deposit more it waits for or has lost the answer of.
THEOREM BalancesAsConfirmed ==
  ASSUME Room PROVE StressSpec => []BalanceAsConfirmed
<1>1. StressInv => BalanceAsConfirmed
  <2> SUFFICES ASSUME StressInv, NEW c \in Clients
               PROVE  LET expected == InitialBalance + Deposit * confirmed[c]
                          b == bal[AccountOf[c]]
                      IN  \/ b = expected
                          \/ b = expected + Deposit /\ (cpc[c] = "ready" => ~open[c])
                          \/ /\ b = NoAccount /\ confirmed[c] = 0
                             /\ open[c] => flows[c] = 0 /\ step[c] = "create"
    BY DEF BalanceAsConfirmed
  <2>1. Books(c) /\ flows[c] \in Nat
    BY DEF StressInv, StressTypeOK
  <2>2. cpc[c] = "ready" /\ open[c] => ToDo(c)
    BY DEF ToDo
  <2> QED
    BY <2>1, <2>2 DEF Books
<1> QED
  BY <1>1, StressInvariantHolds, PTL

\* As long as nothing has failed, success_count is the number of deposits made:
\* no flow of worker_thread ends early, however the threads interleave.
THEOREM FlowsAllDeposit ==
  ASSUME Room PROVE StressSpec => []FlowsAreDeposits
<1>1. StressInv => FlowsAreDeposits
  BY DEF StressInv, HealthInv, Healthy, Flowing, FlowsAreDeposits
<1> QED
  BY <1>1, StressInvariantHolds, PTL
=============================================================================
