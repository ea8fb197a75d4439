--------------------------- MODULE WebhooksProofs ----------------------------
(***************************************************************************)
(* Proofs about Webhooks, for every set of deliveries and handlers, every  *)
(* rules, guards configured or not, and any number of leases that expire.  *)
(***************************************************************************)
EXTENDS Webhooks, TLAPS

-----------------------------------------------------------------------------
(***************************************************************************)
(* The inductive invariant                                                 *)
(***************************************************************************)
\* The handlers that may yet act on behalf of a delivery the row has let through.
MayAct == {"claiming", "enqueuing", "relaying"}

\* While Postgres answers, the row of a delivery has one handler, and nothing is
\* built or relayed without a row, or before that handler has got to it.
RowGuards ==
  "db" \notin lost =>
    /\ \A d \in Deliveries :
         /\ builds[d] \in {0, 1} /\ \A i \in DOMAIN relays[d] : relays[d][i] \in {0, 1}
         /\ Key(d) \notin rows =>
              builds[d] = 0 /\ \A i \in DOMAIN relays[d] : relays[d][i] = 0
    /\ \A h \in Handlers : Stage(h) \in MayAct =>
         /\ Key(Delivery(h)) \in rows
         /\ \A g \in Handlers :
              Stage(g) \in MayAct /\ Delivery(g) = Delivery(h) => g = h
         /\ ~At(h, "relaying") => builds[Delivery(h)] = 0
         /\ At(h, "relaying") =>
              \A i \in DOMAIN relays[Delivery(h)] :
                i > handler[h].sent => relays[Delivery(h)][i] = 0

\* While the lease service answers, a handler past its claim has the lease, the
\* holder is not yet through, and a free lease stands for a delivery not built.
LeaseGuards ==
  "lease" \notin lost =>
    /\ \A d \in Deliveries :
         /\ builds[d] \in {0, 1}
         /\ lease[d].state = "free" => builds[d] = 0
         /\ lease[d].state = "held" =>
              /\ Delivery(lease[d].by) = d
              /\ Stage(lease[d].by) \in {"enqueuing", "finishing", "dropped"}
    /\ \A h \in Handlers : Stage(h) \in {"enqueuing", "finishing"} =>
         /\ lease[Delivery(h)].state = "held" /\ lease[Delivery(h)].by = h
         /\ At(h, "enqueuing") \/ handler[h].verdict = "refused" => builds[Delivery(h)] = 0

\* The verdict a handler is about to settle its lease with is founded.
VerdictsFounded ==
  \A h \in Handlers : At(h, "finishing") =>
    /\ handler[h].verdict \in {"ignored", "accepted", "refused"}
    /\ handler[h].verdict = "accepted" => builds[Delivery(h)] > 0
    /\ handler[h].verdict = "ignored" => ~(Delivery(h).actionable /\ Matched(Delivery(h)))

\* Only deliveries of GitHub are claimed.  A relay goes on from its first event,
\* and what it has passed NATS has, unless NATS has let some handler down.
RelaysInOrder ==
  \A h \in Handlers :
    /\ At(h, "recording") => handler[h].sent = 0
    /\ At(h, "claiming") => Delivery(h) \in FromGithub
    /\ At(h, "relaying") /\ "nats" \notin lost =>
         \A i \in DOMAIN relays[Delivery(h)] :
           i <= handler[h].sent => relays[Delivery(h)][i] > 0

\* A row of the registry has its events relayed, or a handler at work on them, or
\* one that was dropped at it.
RowsRelayed ==
  \A d \in FromRegistry : Key(d) \in rows =>
    \/ \E h \in Handlers : Delivery(h) = d /\ Stage(h) \in {"relaying", "dropped"}
    \/ \A i \in DOMAIN relays[d] : relays[d][i] > 0
    \/ "nats" \in lost

IInv ==
  /\ TypeOK /\ RowGuards /\ LeaseGuards /\ VerdictsFounded
  /\ CompletedMeansHandled /\ RelaysInOrder /\ RowsRelayed

-----------------------------------------------------------------------------
(***************************************************************************)
(* How a handler moves                                                     *)
(***************************************************************************)
\* One handler goes on with its delivery, at the given stage, and no other moves.
Moves(h, stage, verdict, sent) ==
  /\ handler' \in [Handlers -> Arrivals]
  /\ Stage(h)' = stage /\ Delivery(h)' = Delivery(h)
  /\ handler'[h].verdict = verdict /\ handler'[h].sent = sent
  /\ \A g \in Handlers \ {h} : handler'[g] = handler[g]

LEMMA GotoMoves ==
  ASSUME TypeOK, NEW h \in Handlers, NEW stage \in Stages, Goto(h, stage)
  PROVE  /\ Moves(h, stage, handler[h].verdict, handler[h].sent)
         /\ handler'[h].reply = handler[h].reply
<1>1. handler[h] \in Arrivals /\ handler \in [Handlers -> Arrivals]
  BY DEF TypeOK
<1>2. [handler[h] EXCEPT !.stage = stage] \in Arrivals
  BY <1>1 DEF Arrivals
<1>3. handler' = [handler EXCEPT ![h] = [handler[h] EXCEPT !.stage = stage]]
  BY DEF Goto
<1> QED
  BY <1>1, <1>2, <1>3 DEF Moves, Stage, Delivery, Arrivals

LEMMA AnswerMoves ==
  ASSUME TypeOK, NEW h \in Handlers, NEW reply \in Replies, Answer(h, reply)
  PROVE  /\ Moves(h, "answered", handler[h].verdict, handler[h].sent)
         /\ handler'[h].reply = reply
<1> DEFINE r == [handler[h] EXCEPT !.stage = "answered", !.reply = reply]
<1>1. handler[h] \in Arrivals /\ handler \in [Handlers -> Arrivals]
  BY DEF TypeOK
<1>2. "answered" \in Stages
  BY DEF Stages
<1>3. /\ r \in Arrivals /\ r.stage = "answered" /\ r.delivery = handler[h].delivery
      /\ r.verdict = handler[h].verdict /\ r.sent = handler[h].sent /\ r.reply = reply
  BY <1>1, <1>2 DEF Arrivals
<1>4. handler' = [handler EXCEPT ![h] = r]
  BY DEF Answer
<1> HIDE DEF r
<1> QED
  BY <1>1, <1>3, <1>4 DEF Moves, Stage, Delivery

LEMMA JudgedMoves ==
  ASSUME TypeOK, NEW h \in Handlers, NEW stage \in Stages, NEW verdict \in Verdicts,
         Judged(h, stage, verdict)
  PROVE  Moves(h, stage, verdict, handler[h].sent)
<1> DEFINE r == [handler[h] EXCEPT !.stage = stage, !.verdict = verdict]
<1>1. handler[h] \in Arrivals /\ handler \in [Handlers -> Arrivals]
  BY DEF TypeOK
<1>2. /\ r \in Arrivals /\ r.stage = stage /\ r.delivery = handler[h].delivery
      /\ r.verdict = verdict /\ r.sent = handler[h].sent
  BY <1>1 DEF Arrivals
<1>3. handler' = [handler EXCEPT ![h] = r]
  BY DEF Judged
<1> HIDE DEF r
<1> QED
  BY <1>1, <1>2, <1>3 DEF Moves, Stage, Delivery

LEMMA HoldersKnown ==
  ASSUME TypeOK
  PROVE  \A d \in Deliveries :
           /\ lease[d].state \in {"free", "completed", "held"}
           /\ lease[d].state = "held" => lease[d].by \in Handlers
  BY DEF TypeOK, Leases

LEMMA MoveStages ==
  ASSUME NEW h \in Handlers, NEW stage, NEW verdict, NEW sent, Moves(h, stage, verdict, sent)
  PROVE  /\ Stage(h)' = stage /\ handler'[h].verdict = verdict /\ handler'[h].sent = sent
         /\ \A g \in Handlers : Delivery(g)' = Delivery(g)
         /\ \A g \in Handlers \ {h} :
              /\ Stage(g)' = Stage(g) /\ handler'[g].verdict = handler[g].verdict
              /\ handler'[g].sent = handler[g].sent
  BY DEF Moves, Stage, Delivery

LEMMA CountUp ==
  ASSUME NEW S, NEW f \in [S -> Nat], NEW i \in S
  PROVE  /\ [f EXCEPT ![i] = @ + 1] \in [S -> Nat]
         /\ [f EXCEPT ![i] = @ + 1][i] = f[i] + 1
         /\ \A j \in S \ {i} : [f EXCEPT ![i] = @ + 1][j] = f[j]
  OBVIOUS

-----------------------------------------------------------------------------
(***************************************************************************)
(* Steps                                                                   *)
(***************************************************************************)
LEMMA InitIInv == Init => IInv
<1> SUFFICES ASSUME Init PROVE IInv
  OBVIOUS
<1> USE DEF Init
<1>1. (CHOOSE d \in Deliveries : TRUE) \in Deliveries
  BY WebhookAssumption
<1>2. \A h \in Handlers : Stage(h) = "idle"
  BY DEF Stage
<1>3. TypeOK
  <2>1. "idle" \in Stages
    BY DEF Stages
  <2>2. [stage |-> "idle", delivery |-> CHOOSE d \in Deliveries : TRUE,
         verdict |-> "none", sent |-> 0, reply |-> "none"] \in Arrivals
    BY <1>1, <2>1 DEF Arrivals, Replies, Verdicts
  <2>3. handler \in [Handlers -> Arrivals]
    BY <2>2
  <2>4. lease \in [Deliveries -> Leases]
    BY DEF Leases
  <2>5. \A d \in Deliveries : relays[d] \in [1..d.images -> Nat]
    OBVIOUS
  <2>6. lost \subseteq Services /\ expiries \in 0..MaxExpiries
    BY WebhookAssumption DEF Services, Guards
  <2> QED
    BY <2>3, <2>4, <2>5, <2>6 DEF TypeOK
<1>4. RowGuards /\ LeaseGuards
  BY <1>2 DEF RowGuards, LeaseGuards, MayAct
<1>5. VerdictsFounded /\ RelaysInOrder
  BY <1>2 DEF VerdictsFounded, RelaysInOrder, At
<1>6. CompletedMeansHandled /\ RowsRelayed
  BY DEF CompletedMeansHandled, RowsRelayed, FromRegistry
<1> QED
  BY <1>3, <1>4, <1>5, <1>6 DEF IInv

LEMMA ArriveIInv ==
  ASSUME IInv, NEW h \in Handlers, NEW d \in Deliveries, Arrive(h, d)
  PROVE  IInv'
<1> USE DEF IInv
<1>1. /\ handler' \in [Handlers -> Arrivals]
      /\ Stage(h) = "idle" /\ Stage(h)' \in {"recording", "answered"} /\ handler'[h].sent = 0
      /\ \A g \in Handlers \ {h} : handler'[g] = handler[g]
  <2> DEFINE r == [stage    |-> IF d.signed /\ d.event # "ping" THEN "recording" ELSE "answered",
                   delivery |-> d,
                   verdict  |-> "none",
                   sent     |-> 0,
                   reply    |-> IF ~d.signed THEN "rejected"
                                ELSE IF d.event = "ping" THEN "ok" ELSE "none"]
  <2>1. handler' = [handler EXCEPT ![h] = r] /\ At(h, "idle")
    BY DEF Arrive
  <2>2. {"recording", "answered"} \subseteq Stages
    BY DEF Stages
  <2>3. r \in Arrivals /\ r.stage \in {"recording", "answered"} /\ r.sent = 0
    BY <2>2 DEF Arrivals, Replies, Verdicts
  <2> HIDE DEF r
  <2> QED
    BY <2>1, <2>3 DEF TypeOK, Stage, At
<1>2. UNCHANGED <<rows, marks, lease, builds, relays, lost, expiries>>
  BY DEF Arrive
<1>3. \A g \in Handlers \ {h} : Stage(g)' = Stage(g) /\ Delivery(g)' = Delivery(g)
  BY <1>1 DEF Stage, Delivery
<1>4. TypeOK'
  BY <1>1, <1>2 DEF TypeOK
<1>5. RowGuards'
  BY <1>1, <1>2, <1>3 DEF RowGuards, MayAct, At
<1>6. LeaseGuards'
  <2>1. \A d_1 \in Deliveries : lease[d_1].state = "held" => lease[d_1].by \in Handlers
    BY DEF TypeOK, Leases
  <2> QED
    BY <1>1, <1>2, <1>3, <2>1 DEF LeaseGuards, At
<1>7. VerdictsFounded'
  BY <1>1, <1>2, <1>3 DEF VerdictsFounded, At
<1>8. CompletedMeansHandled'
  BY <1>2 DEF CompletedMeansHandled
<1>9. RelaysInOrder'
  BY <1>1, <1>2, <1>3 DEF RelaysInOrder, At
<1>10. RowsRelayed'
  BY <1>1, <1>2, <1>3 DEF RowsRelayed
<1> QED
  BY <1>4, <1>5, <1>6, <1>7, <1>8, <1>9, <1>10

LEMMA RecordIInv ==
  ASSUME IInv, NEW h \in Handlers, Record(h)
  PROVE  IInv'
<1> USE DEF IInv
<1> DEFINE d == Delivery(h)
<1>1. d \in Deliveries /\ Stage(h) = "recording" /\ handler[h].sent = 0
  BY DEF TypeOK, Arrivals, Record, RelaysInOrder, At, Delivery
<1>2. UNCHANGED <<marks, lease, builds, relays, expiries>> /\ lost \subseteq lost'
      /\ lost' \subseteq lost \cup {"db"}
  BY DEF Record
<1>3. CASE Known(h) /\ Answer(h, "duplicate") /\ UNCHANGED <<rows, lost>>
  <2>1. Moves(h, "answered", handler[h].verdict, handler[h].sent)
    BY <1>3, AnswerMoves DEF Replies
  <2>2. TypeOK'
    BY <1>2, <1>3, <2>1 DEF TypeOK, Moves
  <2> QED
    BY <1>1, <1>2, <1>3, <2>1, <2>2, MoveStages, HoldersKnown
       DEF RowGuards, MayAct, LeaseGuards, VerdictsFounded, CompletedMeansHandled,
           RelaysInOrder, RowsRelayed, At
<1>4. CASE /\ Goto(h, AfterRecord(h)) /\ rows \subseteq rows'
           /\ rows' \subseteq rows \cup {Key(d)}
           /\ (~Known(h) /\ rows' = rows \cup {Key(d)}) \/ "db" \in lost'
  <2>1. \/ AfterRecord(h) = "claiming" /\ d \in FromGithub
        \/ AfterRecord(h) = "relaying" /\ d \in FromRegistry
    BY <1>1 DEF AfterRecord, FromRegistry
  <2>2. {"claiming", "relaying"} \subseteq Stages
    BY DEF Stages
  <2>3. Moves(h, AfterRecord(h), handler[h].verdict, handler[h].sent)
    BY <1>4, <2>1, <2>2, GotoMoves
  <2>4. TypeOK'
    BY <1>1, <1>2, <1>4, <2>3 DEF TypeOK, Moves, Services, Guards
  <2>5. RowGuards'
    <3> SUFFICES ASSUME "db" \notin lost' PROVE RowGuards'
      BY DEF RowGuards
    <3>1. "db" \notin lost /\ Key(d) \notin rows /\ rows' = rows \cup {Key(d)}
      BY <1>2, <1>4 DEF Known
    <3>2. \A g \in Handlers : Stage(g) \in MayAct => Delivery(g) # d
      BY <3>1 DEF RowGuards
    <3>3. builds[d] = 0 /\ \A i \in DOMAIN relays[d] : relays[d][i] = 0
      BY <1>1, <3>1 DEF RowGuards
    <3> QED
      BY <1>1, <1>2, <2>1, <2>3, <3>1, <3>2, <3>3, MoveStages DEF RowGuards, MayAct, At
  <2>6. LeaseGuards' /\ VerdictsFounded' /\ CompletedMeansHandled'
    BY <1>1, <1>2, <2>1, <2>3, MoveStages, HoldersKnown
       DEF LeaseGuards, VerdictsFounded, CompletedMeansHandled, At
  <2>7. RelaysInOrder'
    <3>1. \A i \in DOMAIN relays[d] : ~(i <= 0)
      <4>1. relays[d] \in [1..d.images -> Nat] /\ d.images \in Nat
        BY <1>1, WebhookAssumption DEF TypeOK
      <4> QED
        BY <4>1
    <3> QED
      BY <1>1, <1>2, <2>1, <2>3, <3>1, MoveStages DEF RelaysInOrder, At
  <2>8. RowsRelayed'
    <3> SUFFICES ASSUME NEW e \in FromRegistry, Key(e) \in rows'
                 PROVE  \/ \E g \in Handlers : Delivery(g)' = e
                                               /\ Stage(g)' \in {"relaying", "dropped"}
                        \/ \A i \in DOMAIN relays'[e] : relays'[e][i] > 0
                        \/ "nats" \in lost'
      BY DEF RowsRelayed
    <3>1. CASE Key(e) = Key(d)
      <4>1. e = d
        BY <1>1, <3>1, WebhookAssumption DEF FromRegistry
      <4> QED
        BY <2>1, <2>3, <4>1, MoveStages DEF FromRegistry
    <3>2. CASE Key(e) \in rows
      BY <1>1, <1>2, <2>3, <3>2, MoveStages DEF RowsRelayed
    <3> QED
      BY <1>4, <3>1, <3>2
  <2> QED
    BY <2>4, <2>5, <2>6, <2>7, <2>8
<1> QED
  BY <1>3, <1>4 DEF Record

LEMMA RelayIInv ==
  ASSUME IInv, NEW h \in Handlers, Relay(h)
  PROVE  IInv'
<1> USE DEF IInv
<1> DEFINE d == Delivery(h)
           i == handler[h].sent + 1
<1>1. /\ d \in Deliveries /\ Stage(h) = "relaying" /\ handler[h].sent \in Nat
      /\ i \in DOMAIN relays[d] /\ relays[d] \in [1..d.images -> Nat]
  BY DEF TypeOK, Arrivals, Relay, At, Stage, Delivery
<1>2. UNCHANGED <<rows, marks, lease, builds, expiries>>
      /\ lost \subseteq lost' /\ lost' \subseteq lost \cup {"nats"}
  BY DEF Relay
<1>3. Moves(h, "relaying", handler[h].verdict, i)
  <2>1. handler' = [handler EXCEPT ![h] = [handler[h] EXCEPT !.sent = i]]
    BY DEF Relay
  <2>2. handler[h] \in Arrivals /\ handler \in [Handlers -> Arrivals]
    BY DEF TypeOK
  <2>3. i \in Nat
    BY <1>1
  <2> HIDE DEF i
  <2>4. [handler[h] EXCEPT !.sent = i] \in Arrivals
    BY <2>2, <2>3 DEF Arrivals
  <2> QED
    BY <1>1, <2>1, <2>2, <2>4 DEF Moves, Stage, Delivery, Arrivals
<1>4. /\ \A e \in Deliveries \ {d} : relays'[e] = relays[e]
      /\ \A e \in Deliveries : DOMAIN relays'[e] = DOMAIN relays[e]
      /\ relays'[d] \in [1..d.images -> Nat]
      /\ \A j \in DOMAIN relays[d] \ {i} : relays'[d][j] = relays[d][j]
      /\ \/ relays'[d][i] = relays[d][i] + 1
         \/ relays'[d][i] = relays[d][i] /\ "nats" \in lost'
  <2>1. CASE UNCHANGED relays /\ "nats" \in lost'
    BY <1>1, <2>1
  <2>2. CASE relays' = [relays EXCEPT ![d][i] = @ + 1]
    <3> DEFINE events == [relays[d] EXCEPT ![i] = @ + 1]
    <3>1. d \in DOMAIN relays /\ relays' = [relays EXCEPT ![d] = events]
      BY <1>1, <2>2 DEF TypeOK
    <3>2. /\ events \in [1..d.images -> Nat] /\ events[i] = relays[d][i] + 1
          /\ \A j \in DOMAIN relays[d] \ {i} : events[j] = relays[d][j]
      <4>1. i \in 1..d.images /\ DOMAIN relays[d] = 1..d.images
        BY <1>1
      <4> QED
        BY <1>1, <4>1, CountUp
    <3> HIDE DEF events
    <3> QED
      BY <1>1, <3>1, <3>2
  <2> QED
    BY <2>1, <2>2 DEF Relay
<1>5. \A j \in DOMAIN relays[d] : j \in Nat /\ relays[d][j] \in Nat
  BY <1>1, WebhookAssumption
<1> HIDE DEF i
<1>6. TypeOK'
  <2>1. DOMAIN relays' = Deliveries
    BY DEF Relay, TypeOK
  <2>2. \A e \in Deliveries : relays'[e] \in [1..e.images -> Nat]
    BY <1>1, <1>4 DEF TypeOK
  <2>3. lost' \subseteq Services
    BY <1>2 DEF TypeOK, Services
  <2>4. handler' \in [Handlers -> Arrivals]
    BY <1>3 DEF Moves
  <2> QED
    BY <1>2, <2>1, <2>2, <2>3, <2>4 DEF TypeOK
<1>7. RowGuards'
  <2> SUFFICES ASSUME "db" \notin lost' PROVE RowGuards'
    BY DEF RowGuards
  <2>1. /\ "db" \notin lost /\ Key(d) \in rows
        /\ \A j \in DOMAIN relays[d] : j > handler[h].sent => relays[d][j] = 0
    BY <1>1, <1>2 DEF RowGuards, MayAct, At
  <2>2. relays'[d][i] \in {0, 1}
    BY <1>1, <1>4, <2>1 DEF i
  <2>3. \A j \in DOMAIN relays[d] : j > i => relays'[d][j] = 0
    BY <1>1, <1>4, <1>5, <2>1 DEF i
  <2>4. \A g \in Handlers \ {h} : Stage(g) \in MayAct => Delivery(g) # d
    BY <1>1, <2>1 DEF RowGuards, MayAct
  <2>5. \A e \in Deliveries : \A j \in DOMAIN relays'[e] : relays'[e][j] \in {0, 1}
    BY <1>4, <2>1, <2>2 DEF RowGuards
  <2>6. \A e \in Deliveries : Key(e) \notin rows => e # d
    BY <2>1
  <2>7. \A g \in Handlers : Stage(g)' = Stage(g) /\ Delivery(g)' = Delivery(g)
    BY <1>1, <1>3, MoveStages
  <2>8. \A g \in Handlers \ {h} : Stage(g) \in MayAct =>
          /\ handler'[g].sent = handler[g].sent
          /\ Delivery(g) \in Deliveries \ {d}
    BY <1>3, <2>4, MoveStages DEF TypeOK, Delivery, Arrivals
  <2>9. \A g \in Handlers : At(g, "relaying")' =>
          \A j \in DOMAIN relays'[Delivery(g)'] :
            j > handler'[g].sent => relays'[Delivery(g)'][j] = 0
    <3>1. \A g \in Handlers \ {h} : At(g, "relaying") =>
            \A j \in DOMAIN relays[Delivery(g)] :
              j > handler[g].sent => relays[Delivery(g)][j] = 0
      BY <2>1 DEF RowGuards, MayAct, At
    <3>2. \A g \in Handlers \ {h} : At(g, "relaying") => relays'[Delivery(g)] = relays[Delivery(g)]
      BY <1>4, <2>8 DEF At, MayAct
    <3>3. \A g \in Handlers : At(g, "relaying")' => At(g, "relaying")
      BY <2>7 DEF At
    <3> SUFFICES ASSUME NEW g \in Handlers, At(g, "relaying"),
                        NEW j \in DOMAIN relays'[Delivery(g)], j > handler'[g].sent
                 PROVE  relays'[Delivery(g)][j] = 0
      BY <2>7, <3>3
    <3>4. CASE g = h
      BY <1>1, <1>3, <1>4, <2>3, <3>4, MoveStages
    <3>5. CASE g # h
      BY <2>8, <3>1, <3>2, <3>5 DEF At, MayAct
    <3> QED
      BY <3>4, <3>5
  <2>10. \A g \in Handlers : ~At(g, "relaying")' /\ Stage(g)' \in MayAct => builds[Delivery(g)] = 0
    BY <2>1, <2>7 DEF RowGuards, At
  <2>11. \A e \in Deliveries \ {d} : Key(e) \notin rows =>
          \A j \in DOMAIN relays'[e] : relays'[e][j] = 0
    BY <1>4, <2>1 DEF RowGuards
  <2>12. /\ \A e \in Deliveries : builds[e] \in {0, 1} /\ (Key(e) \notin rows => builds[e] = 0)
        /\ \A g, k \in Handlers : Stage(g) \in MayAct =>
             Key(Delivery(g)) \in rows
             /\ (Stage(k) \in MayAct /\ Delivery(k) = Delivery(g) => k = g)
    BY <2>1 DEF RowGuards
  <2> HIDE DEF d
  <2> QED
    BY <1>2, <2>5, <2>6, <2>7, <2>9, <2>10, <2>11, <2>12 DEF RowGuards
<1>8. LeaseGuards' /\ VerdictsFounded' /\ CompletedMeansHandled'
  BY <1>1, <1>2, <1>3, MoveStages, HoldersKnown
     DEF LeaseGuards, VerdictsFounded, CompletedMeansHandled, At
<1>9. \A j \in DOMAIN relays[d] : relays[d][j] > 0 => relays'[d][j] > 0
  BY <1>4, <1>5, <1>1
<1>10. RelaysInOrder'
  <2>1. "nats" \notin lost' => \A j \in DOMAIN relays[d] : j <= i => relays'[d][j] > 0
    <3> SUFFICES ASSUME "nats" \notin lost', NEW j \in DOMAIN relays[d], j <= i
                 PROVE  relays'[d][j] > 0
      OBVIOUS
    <3>1. CASE j = i
      BY <1>4, <1>5, <3>1
    <3>2. CASE j # i
      <4>1. j <= handler[h].sent
        BY <1>1, <1>5, <3>2 DEF i
      <4> QED
        BY <1>1, <1>2, <1>9, <4>1 DEF RelaysInOrder, At
    <3> QED
      BY <3>1, <3>2
  <2>2. \A g \in Handlers \ {h} : \A j \in DOMAIN relays[Delivery(g)] :
          relays[Delivery(g)][j] > 0 => relays'[Delivery(g)][j] > 0
    BY <1>4, <1>9 DEF TypeOK, Delivery, Arrivals
  <2>3. \A g \in Handlers : Delivery(g) \in Deliveries
    BY DEF TypeOK, Delivery, Arrivals
  <2> QED
    BY <1>1, <1>2, <1>3, <1>4, <2>1, <2>2, <2>3, MoveStages DEF RelaysInOrder, At
<1>11. RowsRelayed'
  BY <1>1, <1>2, <1>3, <1>4, <1>9, MoveStages DEF RowsRelayed, FromRegistry
<1> QED
  BY <1>6, <1>7, <1>8, <1>10, <1>11

\* A step that ends a handler, or leaves it only its mark to make, disturbs nothing
\* the others go by, unless it leaves a lease or the events of a relay behind.
LEMMA EndsIInv ==
  ASSUME IInv, NEW h \in Handlers, NEW stage \in {"answered", "dropped"},
         Moves(h, stage, handler[h].verdict, handler[h].sent),
         rows' = rows, lease' = lease, builds' = builds, relays' = relays,
         expiries' = expiries, marks' \subseteq Deliveries,
         lost \subseteq lost', lost' \subseteq Services,
         Stage(h) \in Working,
         Stage(h) \in {"enqueuing", "finishing"} => stage = "dropped",
         At(h, "relaying") /\ stage = "answered" =>
           \A i \in DOMAIN relays[Delivery(h)] : i <= handler[h].sent
  PROVE  IInv'
<1> USE DEF IInv
<1>1. /\ Stage(h)' = stage
      /\ \A g \in Handlers : Delivery(g)' = Delivery(g)
      /\ \A g \in Handlers \ {h} :
           /\ Stage(g)' = Stage(g) /\ handler'[g].verdict = handler[g].verdict
           /\ handler'[g].sent = handler[g].sent
  BY MoveStages
<1> Stage(h) # "dropped"
  BY DEF Working
<1>2. TypeOK'
  BY DEF TypeOK, Moves
<1>3. RowGuards'
  BY <1>1 DEF RowGuards, MayAct, At
<1>4. LeaseGuards'
  BY <1>1, HoldersKnown DEF LeaseGuards, At
<1>5. VerdictsFounded' /\ CompletedMeansHandled' /\ RelaysInOrder'
  BY <1>1 DEF VerdictsFounded, CompletedMeansHandled, RelaysInOrder, At
<1>6. RowsRelayed'
  <2> SUFFICES ASSUME NEW d \in FromRegistry, Key(d) \in rows, "nats" \notin lost',
                      NEW k \in DOMAIN relays[d], ~(relays[d][k] > 0)
               PROVE  \E g \in Handlers : Delivery(g)' = d
                                          /\ Stage(g)' \in {"relaying", "dropped"}
    BY DEF RowsRelayed
  <2>1. PICK g \in Handlers : Delivery(g) = d /\ Stage(g) \in {"relaying", "dropped"}
    BY DEF RowsRelayed
  <2>2. CASE g # h \/ stage = "dropped"
    BY <1>1, <2>1, <2>2
  <2>3. CASE g = h /\ stage = "answered"
    <3>1. ~At(h, "relaying")
      BY <2>1, <2>3 DEF RelaysInOrder, At
    <3> QED
      BY <2>1, <2>3, <3>1 DEF At
  <2> QED
    BY <2>1, <2>2, <2>3
<1> QED
  BY <1>2, <1>3, <1>4, <1>5, <1>6

LEMMA ClaimIInv ==
  ASSUME IInv, NEW h \in Handlers, Claim(h)
  PROVE  IInv'
<1> USE DEF IInv
<1> DEFINE d == Delivery(h)
<1>1. /\ d \in Deliveries /\ Stage(h) = "claiming"
      /\ lease \in [Deliveries -> Leases]
  BY DEF TypeOK, Arrivals, Claim, At, Stage, Delivery
<1>2. UNCHANGED <<rows, marks, builds, relays, expiries>>
      /\ lost \subseteq lost' /\ lost' \subseteq Services
  BY DEF Claim, TypeOK, Services, Guards
<1>3. CASE Answer(h, "duplicate") /\ UNCHANGED <<lease, lost>>
  <2>1. Moves(h, "answered", handler[h].verdict, handler[h].sent)
    BY <1>3, AnswerMoves DEF Replies
  <2> QED
    BY <1>1, <1>2, <1>3, <2>1, EndsIInv DEF TypeOK, At, Working, Stages
<1>4. CASE /\ Proceed(h)
           /\ \/ lease[d].state = "free" /\ HoldLease(h)
              \/ UNCHANGED lease /\ "lease" \in lost'
  <2>1. PICK stage \in {"enqueuing", "finishing"}, verdict \in {"none", "ignored"} :
          /\ Moves(h, stage, verdict, handler[h].sent)
          /\ stage = "enqueuing" => verdict = "none"
          /\ stage = "finishing" => verdict = "ignored" /\ ~(d.actionable /\ Matched(d))
    <3>1. {"enqueuing", "finishing"} \subseteq Stages /\ {"none", "ignored"} \subseteq Verdicts
      BY DEF Stages, Verdicts
    <3>2. CASE d.actionable /\ Matched(d)
      <4>1. Moves(h, "enqueuing", "none", handler[h].sent)
        BY <1>4, <3>1, <3>2, JudgedMoves DEF Proceed
      <4> QED
        BY <4>1
    <3>3. CASE ~(d.actionable /\ Matched(d))
      <4>1. Moves(h, "finishing", "ignored", handler[h].sent)
        BY <1>4, <3>1, <3>3, JudgedMoves DEF Proceed
      <4> QED
        BY <3>3, <4>1
    <3> QED
      BY <3>2, <3>3
  <2>2. /\ Stage(h)' = stage /\ handler'[h].verdict = verdict
        /\ \A g \in Handlers : Delivery(g)' = Delivery(g)
        /\ \A g \in Handlers \ {h} :
             /\ Stage(g)' = Stage(g) /\ handler'[g].verdict = handler[g].verdict
             /\ handler'[g].sent = handler[g].sent
    BY <2>1, MoveStages
  <2>3. /\ lease' \in [Deliveries -> Leases]
        /\ \A e \in Deliveries \ {d} : lease'[e] = lease[e]
        /\ "lease" \notin lost' =>
             lease[d].state = "free" /\ lease'[d] = [state |-> "held", by |-> h]
        /\ lease'[d].state = "completed" => lease[d].state = "completed"
    <3>1. [state |-> "held", by |-> h] \in Leases
      BY DEF Leases
    <3>2. CASE UNCHANGED lease /\ "lease" \in lost'
      BY <1>1, <3>2
    <3>3. CASE lease[d].state = "free" /\ HoldLease(h)
      <4>1. lease' = [lease EXCEPT ![d] = [state |-> "held", by |-> h]]
        BY <3>3 DEF HoldLease
      <4> HIDE DEF d
      <4>2. lease'[d] = [state |-> "held", by |-> h]
        BY <1>1, <4>1
      <4> QED
        BY <1>1, <3>1, <3>3, <4>1, <4>2
    <3> QED
      BY <1>4, <3>2, <3>3
  <2>4. TypeOK'
    BY <1>2, <2>1, <2>3 DEF TypeOK, Moves
  <2>5. RowGuards'
    BY <1>1, <1>2, <2>1, <2>2 DEF RowGuards, MayAct, At
  <2>6. LeaseGuards'
    <3> SUFFICES ASSUME "lease" \notin lost' PROVE LeaseGuards'
      BY DEF LeaseGuards
    <3>1. /\ "lease" \notin lost /\ lease[d].state = "free"
          /\ lease'[d].state = "held" /\ lease'[d].by = h
      BY <1>2, <2>3
    <3>2. \A g \in Handlers \ {h} : Stage(g) \in {"enqueuing", "finishing"} => Delivery(g) # d
      BY <3>1 DEF LeaseGuards
    <3>3. \A e \in Deliveries \ {d} : lease[e].state = "held" =>
            lease[e].by \in Handlers \ {h}
      BY <1>1, <3>1, HoldersKnown DEF LeaseGuards
    <3>4. builds[d] = 0
      BY <1>1, <3>1 DEF LeaseGuards
    <3>5. \A g \in Handlers : Delivery(g) \in Deliveries
      BY DEF TypeOK, Delivery, Arrivals
    <3>6. \A e \in Deliveries :
            /\ builds'[e] \in {0, 1}
            /\ lease'[e].state = "free" => builds'[e] = 0
            /\ lease'[e].state = "held" =>
                 /\ Delivery(lease[e].by)' = e
                 /\ Stage(lease[e].by)' \in {"enqueuing", "finishing", "dropped"}
      <4> SUFFICES ASSUME NEW e \in Deliveries
                   PROVE  /\ builds[e] \in {0, 1}
                          /\ lease'[e].state = "free" => builds[e] = 0
                          /\ lease'[e].state = "held" =>
                               /\ Delivery(lease[e].by)' = e
                               /\ Stage(lease[e].by)' \in {"enqueuing", "finishing", "dropped"}
        BY <1>2
      <4>1. CASE e = d
        BY <2>1, <2>2, <3>1, <3>4, <4>1 DEF Stage, Delivery
      <4>2. CASE e # d
        <5>1. /\ lease'[e] = lease[e] /\ builds[e] \in {0, 1}
              /\ lease[e].state = "free" => builds[e] = 0
              /\ lease[e].state = "held" =>
                   /\ Delivery(lease[e].by) = e
                   /\ Stage(lease[e].by) \in {"enqueuing", "finishing", "dropped"}
          BY <2>3, <3>1, <4>2 DEF LeaseGuards
        <5> QED
          BY <2>2, <3>3, <4>2, <5>1 DEF Stage, Delivery
      <4> QED
        BY <4>1, <4>2
    <3>7. ASSUME NEW g \in Handlers, Stage(g)' \in {"enqueuing", "finishing"}
          PROVE  /\ lease'[Delivery(g)'].state = "held" /\ lease'[Delivery(g)'].by = g
                 /\ At(g, "enqueuing")' \/ handler'[g].verdict = "refused" =>
                      builds'[Delivery(g)'] = 0
      <4>1. CASE g = h
        BY <1>2, <2>2, <3>1, <3>4, <4>1
      <4>2. CASE g # h
        BY <1>2, <2>2, <2>3, <3>1, <3>2, <3>5, <3>7, <4>2 DEF LeaseGuards, At
      <4> QED
        BY <4>1, <4>2
    <3> QED
      BY <3>6, <3>7 DEF LeaseGuards, At
  <2>7. VerdictsFounded' /\ CompletedMeansHandled' /\ RelaysInOrder'
    BY <1>1, <1>2, <2>1, <2>2, <2>3
       DEF VerdictsFounded, CompletedMeansHandled, RelaysInOrder, At
  <2>8. RowsRelayed'
    BY <1>1, <1>2, <2>2 DEF RowsRelayed
  <2> QED
    BY <2>4, <2>5, <2>6, <2>7, <2>8
<1>5. Claim(h) => (Answer(h, "duplicate") /\ UNCHANGED <<lease, lost>>)
                  \/ (/\ Proceed(h)
                      /\ \/ lease[d].state = "free" /\ HoldLease(h)
                         \/ UNCHANGED lease /\ "lease" \in lost')
  BY DEF Claim
<1> QED
  BY <1>3, <1>4, <1>5

\* The submission is judged, or its handler dropped behind the insertion of the job.
LEMMA BuildIInv ==
  ASSUME IInv, NEW h \in Handlers, NEW stage \in {"finishing", "dropped"}, NEW verdict,
         At(h, "enqueuing"), Moves(h, stage, verdict, handler[h].sent),
         \/ /\ builds' = [builds EXCEPT ![Delivery(h)] = @ + 1]
            /\ verdict = "accepted" \/ stage = "dropped"
         \/ builds' = builds /\ stage = "finishing" /\ verdict = "refused",
         UNCHANGED <<rows, marks, lease, lost, relays, expiries>>
  PROVE  IInv'
<1> USE DEF IInv
<1> DEFINE d == Delivery(h)
<1>1. /\ d \in Deliveries /\ Stage(h) = "enqueuing"
      /\ builds \in [Deliveries -> Nat]
  BY DEF TypeOK, Arrivals, At, Stage, Delivery
<1>2. /\ Stage(h)' = stage /\ handler'[h].verdict = verdict
      /\ \A g \in Handlers : Delivery(g)' = Delivery(g)
      /\ \A g \in Handlers \ {h} :
           /\ Stage(g)' = Stage(g) /\ handler'[g].verdict = handler[g].verdict
           /\ handler'[g].sent = handler[g].sent
  BY MoveStages
<1>3. /\ builds' \in [Deliveries -> Nat]
      /\ \A e \in Deliveries \ {d} : builds'[e] = builds[e]
      /\ builds'[d] \in {builds[d], builds[d] + 1}
      /\ stage = "finishing" /\ verdict = "accepted" => builds'[d] > 0
      /\ stage = "finishing" => verdict \in {"accepted", "refused"}
      /\ stage = "finishing" /\ verdict = "refused" => builds'[d] = builds[d]
  <2> HIDE DEF d
  <2>1. CASE builds' = builds /\ stage = "finishing" /\ verdict = "refused"
    BY <1>1, <2>1
  <2>2. CASE /\ builds' = [builds EXCEPT ![d] = @ + 1]
             /\ verdict = "accepted" \/ stage = "dropped"
    <3>1. builds' \in [Deliveries -> Nat] /\ builds'[d] = builds[d] + 1
          /\ \A e \in Deliveries \ {d} : builds'[e] = builds[e]
      BY <1>1, <2>2, CountUp
    <3>2. builds[d] \in Nat
      BY <1>1
    <3> QED
      BY <2>2, <3>1, <3>2
  <2> QED
    BY <2>1, <2>2 DEF d
<1>4. \A e \in Deliveries : builds[e] \in Nat /\ (builds[e] > 0 => builds'[e] > 0)
  BY <1>1, <1>3
<1>5. \A g \in Handlers : Delivery(g) \in Deliveries
  BY DEF TypeOK, Delivery, Arrivals
<1>6. TypeOK'
  BY <1>3 DEF TypeOK, Moves
<1>7. RowGuards'
  <2> SUFFICES ASSUME "db" \notin lost PROVE RowGuards'
    BY DEF RowGuards
  <2>1. /\ Key(d) \in rows /\ builds[d] = 0
        /\ \A g \in Handlers \ {h} : Stage(g) \in MayAct => Delivery(g) # d
    BY <1>1 DEF RowGuards, MayAct, At
  <2> QED
    BY <1>1, <1>2, <1>3, <1>5, <2>1 DEF RowGuards, MayAct, At
<1>8. LeaseGuards'
  <2> SUFFICES ASSUME "lease" \notin lost PROVE LeaseGuards'
    BY DEF LeaseGuards
  <2>1. /\ lease[d].state = "held" /\ lease[d].by = h /\ builds[d] = 0
        /\ \A g \in Handlers \ {h} :
             Stage(g) \in {"enqueuing", "finishing"} => Delivery(g) # d
    BY <1>1 DEF LeaseGuards, At
  <2>2. \A e \in Deliveries \ {d} : lease[e].state = "held" => lease[e].by \in Handlers \ {h}
    BY HoldersKnown DEF LeaseGuards
  <2>3. \A e \in Deliveries :
          /\ builds'[e] \in {0, 1}
          /\ lease[e].state = "free" => builds'[e] = 0
          /\ lease[e].state = "held" =>
               /\ Delivery(lease[e].by)' = e
               /\ Stage(lease[e].by)' \in {"enqueuing", "finishing", "dropped"}
    BY <1>2, <1>3, <2>1, <2>2 DEF LeaseGuards, Stage, Delivery
  <2>4. ASSUME NEW g \in Handlers, Stage(g)' \in {"enqueuing", "finishing"}
        PROVE  /\ lease[Delivery(g)].state = "held" /\ lease[Delivery(g)].by = g
               /\ At(g, "enqueuing")' \/ handler'[g].verdict = "refused" =>
                    builds'[Delivery(g)] = 0
    <3>1. CASE g = h
      BY <1>2, <1>3, <2>1, <2>4, <3>1 DEF At
    <3>2. CASE g # h
      BY <1>2, <1>3, <1>5, <2>1, <2>4, <3>2 DEF LeaseGuards, At
    <3> QED
      BY <3>1, <3>2
  <2> QED
    BY <1>2, <2>3, <2>4 DEF LeaseGuards, At
<1>9. VerdictsFounded'
  BY <1>2, <1>3, <1>4, <1>5 DEF VerdictsFounded, At
<1>10. CompletedMeansHandled' /\ RelaysInOrder' /\ RowsRelayed'
  BY <1>1, <1>2, <1>4 DEF CompletedMeansHandled, RelaysInOrder, RowsRelayed, At
<1> QED
  BY <1>6, <1>7, <1>8, <1>9, <1>10

LEMMA EnqueueIInv ==
  ASSUME IInv, NEW h \in Handlers, Enqueue(h)
  PROVE  IInv'
<1>1. "finishing" \in Stages /\ {"accepted", "refused"} \subseteq Verdicts /\ TypeOK
  BY DEF Stages, Verdicts, IInv
<1>2. CASE /\ builds' = [builds EXCEPT ![Delivery(h)] = @ + 1]
           /\ Judged(h, "finishing", "accepted")
  <2>1. Moves(h, "finishing", "accepted", handler[h].sent)
    BY <1>1, <1>2, JudgedMoves
  <2> QED
    BY <1>2, <2>1, BuildIInv DEF Enqueue
<1>3. CASE Judged(h, "finishing", "refused") /\ UNCHANGED builds
  <2>1. Moves(h, "finishing", "refused", handler[h].sent)
    BY <1>1, <1>3, JudgedMoves
  <2> QED
    BY <1>3, <2>1, BuildIInv DEF Enqueue
<1> QED
  BY <1>2, <1>3 DEF Enqueue

LEMMA FinishIInv ==
  ASSUME IInv, NEW h \in Handlers, Finish(h)
  PROVE  IInv'
<1> USE DEF IInv
<1> DEFINE d == Delivery(h)
           verdict == handler[h].verdict
<1>1. /\ d \in Deliveries /\ Stage(h) = "finishing"
      /\ verdict \in {"ignored", "accepted", "refused"}
      /\ lease \in [Deliveries -> Leases]
  BY DEF TypeOK, Arrivals, Finish, VerdictsFounded, At, Stage, Delivery
<1>2. UNCHANGED <<rows, marks, builds, relays, expiries>>
      /\ lost \subseteq lost' /\ lost' \subseteq Services
  BY DEF Finish, TypeOK, Services, Guards
<1>3. PICK stage \in {"marking", "answered"} : Moves(h, stage, verdict, handler[h].sent)
  <2>1. "marking" \in Stages /\ verdict \in Replies
    BY <1>1 DEF Stages, Replies, Verdicts
  <2>2. CASE Goto(h, "marking")
    BY <2>1, <2>2, GotoMoves
  <2>3. CASE Answer(h, verdict)
    BY <2>1, <2>3, AnswerMoves
  <2> QED
    BY <2>2, <2>3 DEF Finish, AfterFinish
<1>4. /\ Stage(h)' = stage
      /\ \A g \in Handlers : Delivery(g)' = Delivery(g)
      /\ \A g \in Handlers \ {h} :
           /\ Stage(g)' = Stage(g) /\ handler'[g].verdict = handler[g].verdict
           /\ handler'[g].sent = handler[g].sent
  BY <1>3, MoveStages
<1>5. FinalState(h) = IF verdict = "refused" THEN "free" ELSE "completed"
  BY DEF FinalState
<1>6. /\ lease' \in [Deliveries -> Leases]
      /\ \A e \in Deliveries \ {d} : lease'[e] = lease[e]
      /\ lease'[d] \in {lease[d], [state |-> FinalState(h)]}
      /\ "lease" \notin lost' /\ lease[d].state = "held" /\ lease[d].by = h
           => lease'[d] = [state |-> FinalState(h)]
  <2>1. [state |-> FinalState(h)] \in Leases
    BY <1>5 DEF Leases
  <2>2. CASE UNCHANGED lease /\ "lease" \in lost'
    BY <1>1, <2>2
  <2>3. CASE lease' = Settled(h, FinalState(h))
    <3>1. CASE lease[d].state = "held" /\ Home[lease[d].by] = Home[h]
      <4>1. lease' = [lease EXCEPT ![d] = [state |-> FinalState(h)]]
        BY <2>3, <3>1 DEF Settled
      <4> HIDE DEF d
      <4> QED
        BY <1>1, <2>1, <4>1
    <3>2. CASE ~(lease[d].state = "held" /\ Home[lease[d].by] = Home[h])
      BY <1>1, <2>3, <3>2 DEF Settled
    <3> QED
      BY <3>1, <3>2
  <2> QED
    BY <2>2, <2>3 DEF Finish
<1>7. TypeOK'
  BY <1>2, <1>3, <1>6 DEF TypeOK, Moves
<1>8. RowGuards'
  BY <1>1, <1>2, <1>4 DEF RowGuards, MayAct, At
<1>9. LeaseGuards'
  <2> SUFFICES ASSUME "lease" \notin lost' PROVE LeaseGuards'
    BY DEF LeaseGuards
  <2>1. /\ "lease" \notin lost
        /\ lease[d].state = "held" /\ lease[d].by = h
        /\ verdict = "refused" => builds[d] = 0
        /\ \A g \in Handlers \ {h} :
             Stage(g) \in {"enqueuing", "finishing"} => Delivery(g) # d
    BY <1>1, <1>2 DEF LeaseGuards, At
  <2>2. /\ lease'[d].state \in {"free", "completed"}
        /\ lease'[d].state = "free" => builds[d] = 0
    BY <1>5, <1>6, <2>1
  <2>3. \A e \in Deliveries \ {d} : lease[e].state = "held" => lease[e].by \in Handlers \ {h}
    BY <2>1, HoldersKnown DEF LeaseGuards
  <2>4. \A e \in Deliveries :
          /\ builds[e] \in {0, 1}
          /\ lease'[e].state = "free" => builds[e] = 0
          /\ lease'[e].state = "held" =>
               /\ Delivery(lease[e].by)' = e
               /\ Stage(lease[e].by)' \in {"enqueuing", "finishing", "dropped"}
    BY <1>4, <1>6, <2>1, <2>2, <2>3 DEF LeaseGuards, Stage, Delivery
  <2>5. ASSUME NEW g \in Handlers, Stage(g)' \in {"enqueuing", "finishing"}
        PROVE  /\ lease'[Delivery(g)].state = "held" /\ lease'[Delivery(g)].by = g
               /\ At(g, "enqueuing")' \/ handler'[g].verdict = "refused" =>
                    builds[Delivery(g)] = 0
    <3>1. g # h /\ Delivery(g) \in Deliveries \ {d} /\ Stage(g)' = Stage(g)
      BY <1>3, <1>4, <2>1, <2>5 DEF TypeOK, Delivery, Arrivals
    <3> QED
      BY <1>4, <1>6, <2>1, <2>5, <3>1 DEF LeaseGuards, At
  <2> QED
    BY <1>2, <1>4, <2>4, <2>5 DEF LeaseGuards, At
<1>10. VerdictsFounded' /\ RelaysInOrder' /\ RowsRelayed'
  BY <1>1, <1>2, <1>3, <1>4 DEF VerdictsFounded, RelaysInOrder, RowsRelayed, At
<1>11. CompletedMeansHandled'
  <2>1. lease'[d].state = "completed" =>
          lease[d].state = "completed" \/ verdict \in {"accepted", "ignored"}
    BY <1>1, <1>5, <1>6
  <2>2. verdict \in {"accepted", "ignored"} =>
          builds[d] > 0 \/ ~(d.actionable /\ Matched(d))
    BY <1>1 DEF VerdictsFounded, At
  <2> QED
    BY <1>2, <1>6, <2>1, <2>2 DEF CompletedMeansHandled
<1> QED
  BY <1>7, <1>8, <1>9, <1>10, <1>11

LEMMA MarkIInv ==
  ASSUME IInv, NEW h \in Handlers, Mark(h)
  PROVE  IInv'
<1>1. Moves(h, "answered", handler[h].verdict, handler[h].sent)
  BY AnswerMoves DEF Mark, IInv, Replies, Verdicts
<1>2. Delivery(h) \in Deliveries /\ marks \subseteq Deliveries /\ lost \subseteq Services
  BY DEF IInv, TypeOK, Arrivals, Delivery
<1>3. marks' \subseteq Deliveries /\ lost \subseteq lost' /\ lost' \subseteq Services
  BY <1>2 DEF Mark, Services, Guards
<1> QED
  BY <1>1, <1>3, EndsIInv DEF Mark, At, Working, Stages

LEMMA AnswerRelayedIInv ==
  ASSUME IInv, NEW h \in Handlers, AnswerRelayed(h)
  PROVE  IInv'
<1>1. Moves(h, "answered", handler[h].verdict, handler[h].sent)
  BY AnswerMoves DEF AnswerRelayed, IInv, Replies, Verdicts
<1>2. Delivery(h) \in Deliveries /\ marks \subseteq Deliveries /\ lost \subseteq Services
  BY DEF IInv, TypeOK, Arrivals, Delivery
<1>3. \A i \in DOMAIN relays[Delivery(h)] : i <= handler[h].sent
  <2>1. DOMAIN relays[Delivery(h)] = 1..Delivery(h).images /\ Delivery(h).images \in Nat
    BY <1>2, WebhookAssumption DEF IInv, TypeOK
  <2> QED
    BY <2>1 DEF AnswerRelayed
<1> QED
  BY <1>1, <1>2, <1>3, EndsIInv DEF AnswerRelayed, At, Working, Stages

LEMMA DropIInv ==
  ASSUME IInv, NEW h \in Handlers, Drop(h)
  PROVE  IInv'
<1>1. Moves(h, "dropped", handler[h].verdict, handler[h].sent)
  BY GotoMoves DEF Drop, IInv, Stages
<1>2. marks \subseteq Deliveries /\ lost \subseteq Services
  BY DEF IInv, TypeOK
<1>3. CASE UNCHANGED builds
  BY <1>1, <1>2, <1>3, EndsIInv DEF Drop
<1>4. CASE At(h, "enqueuing") /\ builds' = [builds EXCEPT ![Delivery(h)] = @ + 1]
  BY <1>1, <1>4, BuildIInv DEF Drop
<1> QED
  BY <1>3, <1>4 DEF Drop

LEMMA ExpireIInv ==
  ASSUME IInv, NEW d \in Deliveries, Expire(d)
  PROVE  IInv'
<1> USE DEF IInv, Expire
<1>1. lease \in [Deliveries -> Leases] /\ expiries \in 0..MaxExpiries
  BY DEF TypeOK
<1>2. /\ lease' \in [Deliveries -> Leases] /\ lease'[d].state = "free"
      /\ \A e \in Deliveries \ {d} : lease'[e] = lease[e]
  <2>1. [state |-> "free"] \in Leases
    BY DEF Leases
  <2> QED
    BY <1>1, <2>1
<1>3. expiries' \in 0..MaxExpiries
  BY <1>1, WebhookAssumption
<1>4. TypeOK'
  BY <1>2, <1>3 DEF TypeOK, Services, Guards
<1>5. RowGuards'
  BY DEF RowGuards, At, Stage, Delivery
<1>6. LeaseGuards'
  BY DEF LeaseGuards
<1>7. VerdictsFounded' /\ RelaysInOrder' /\ RowsRelayed'
  BY DEF VerdictsFounded, RelaysInOrder, RowsRelayed, At, Stage, Delivery
<1>8. CompletedMeansHandled'
  BY <1>2 DEF CompletedMeansHandled
<1> QED
  BY <1>4, <1>5, <1>6, <1>7, <1>8

LEMMA NextIInv == IInv /\ [Next]_vars => IInv'
<1> SUFFICES ASSUME IInv, [Next]_vars PROVE IInv'
  OBVIOUS
<1>1. ASSUME NEW h \in Handlers, HandlerStep(h) PROVE IInv'
  BY <1>1, RecordIInv, RelayIInv, ClaimIInv, EnqueueIInv, FinishIInv, MarkIInv,
     AnswerRelayedIInv DEF HandlerStep
<1>2. ASSUME NEW h \in Handlers, Drop(h) PROVE IInv'
  BY <1>2, DropIInv
<1>3. ASSUME NEW h \in Handlers, NEW d \in Deliveries, Arrive(h, d) PROVE IInv'
  BY <1>3, ArriveIInv
<1>4. ASSUME NEW d \in Deliveries, Expire(d) PROVE IInv'
  BY <1>4, ExpireIInv
<1>5. CASE UNCHANGED vars
  BY <1>5 DEF vars, IInv, TypeOK, RowGuards, LeaseGuards, VerdictsFounded,
              CompletedMeansHandled, RelaysInOrder, RowsRelayed, At, Stage, Delivery
<1> QED
  BY <1>1, <1>2, <1>3, <1>4, <1>5 DEF Next

LEMMA IInvCorrect == Spec => []IInv
  BY InitIInv, NextIInv, PTL DEF Spec

-----------------------------------------------------------------------------
(***************************************************************************)
(* What follows                                                            *)
(***************************************************************************)
\* Type correctness.
THEOREM TypeCorrect == Spec => []TypeOK
<1>1. IInv => TypeOK
  BY DEF IInv
<1> QED
  BY <1>1, IInvCorrect, PTL

\* A delivery is built twice only once the row and the lease have both let some
\* handler down, an event relayed twice only once the row has.
THEOREM OnceCorrect == Spec => []OncePerDelivery
<1>1. IInv => OncePerDelivery
  BY DEF IInv, OncePerDelivery, RowGuards, LeaseGuards, Guards
<1> QED
  BY <1>1, IInvCorrect, PTL

\* A completed lease stands for a delivery that was built or ignored.
THEOREM CompletedCorrect == Spec => []CompletedMeansHandled
<1>1. IInv => CompletedMeansHandled
  BY DEF IInv
<1> QED
  BY <1>1, IInvCorrect, PTL

\* No lease is held by a handler that is through, while the service answers.
THEOREM HoldersCorrect == Spec => []NoZombieHolder
<1>1. IInv => NoZombieHolder
  BY DEF IInv, NoZombieHolder, LeaseGuards
<1> QED
  BY <1>1, IInvCorrect, PTL

LEMMA OthersStay ==
  ASSUME TypeOK, NEW g \in Handlers, NEW h \in Handlers \ {g},
         HandlerStep(g) \/ Drop(g) \/ \E d \in Deliveries : Arrive(g, d)
  PROVE  handler'[h] = handler[h]
<1> USE DEF TypeOK
<1>1. CASE Record(g) \/ Claim(g) \/ Enqueue(g)
  BY <1>1 DEF Record, Claim, Enqueue, Proceed, Goto, Answer, Judged
<1>2. CASE Finish(g) \/ Mark(g) \/ Relay(g) \/ AnswerRelayed(g)
  BY <1>2 DEF Finish, AfterFinish, Mark, Relay, AnswerRelayed, Goto, Answer
<1>3. CASE Drop(g) \/ \E d \in Deliveries : Arrive(g, d)
  BY <1>3 DEF Drop, Arrive, Goto
<1> QED
  BY <1>1, <1>2, <1>3 DEF HandlerStep

\* Only a row that is known makes a duplicate of a delivery of the registry.
LEMMA DuplicateIsKnown ==
  ASSUME IInv, Next, NEW h \in Handlers, AnsweredDuplicate(h), Delivery(h) \in FromRegistry
  PROVE  At(h, "recording") /\ Known(h)
<1> USE DEF AnsweredDuplicate
<1>1. TypeOK /\ (At(h, "claiming") => Delivery(h) \in FromGithub)
  BY DEF IInv, RelaysInOrder
<1>2. HandlerStep(h) \/ Drop(h) \/ \E d \in Deliveries : Arrive(h, d)
  <2>1. CASE \E g \in Handlers \ {h} :
               HandlerStep(g) \/ Drop(g) \/ \E d \in Deliveries : Arrive(g, d)
    <3>1. handler'[h] = handler[h]
      BY <1>1, <2>1, OthersStay
    <3> QED
      BY <3>1 DEF Stage
  <2>2. CASE \E d \in Deliveries : Expire(d)
    BY <2>2 DEF Expire, Stage
  <2> QED
    BY <2>1, <2>2 DEF Next
<1>3. CASE Record(h)
  <2>1. CASE Goto(h, AfterRecord(h))
    <3>1. AfterRecord(h) \in Stages \ {"answered"}
      BY DEF AfterRecord, Stages
    <3> QED
      BY <1>1, <2>1, <3>1, GotoMoves, MoveStages
  <2> QED
    BY <1>3, <2>1 DEF Record
<1>4. CASE Claim(h)
  BY <1>1, <1>4 DEF Claim, FromRegistry
<1>5. CASE Enqueue(h)
  <2>1. "finishing" \in Stages /\ {"accepted", "refused"} \subseteq Verdicts
    BY DEF Stages, Verdicts
  <2> QED
    BY <1>1, <1>5, <2>1, JudgedMoves, MoveStages DEF Enqueue
<1>6. CASE Finish(h)
  <2>1. handler[h].verdict \in Verdicts /\ Verdicts \subseteq Replies /\ "marking" \in Stages
    BY <1>1 DEF TypeOK, Arrivals, Replies, Stages
  <2>2. CASE Answer(h, handler[h].verdict)
    BY <1>1, <2>1, <2>2, AnswerMoves DEF Verdicts
  <2>3. CASE Goto(h, "marking")
    BY <1>1, <2>1, <2>3, GotoMoves, MoveStages
  <2> QED
    BY <1>6, <2>2, <2>3 DEF Finish, AfterFinish
<1>7. CASE Mark(h) \/ AnswerRelayed(h)
  BY <1>1, <1>7, AnswerMoves DEF Mark, AnswerRelayed, Replies, Verdicts
<1>8. CASE Relay(h)
  BY <1>1, <1>8 DEF Relay, TypeOK, At, Stage
<1>9. CASE Drop(h)
  BY <1>1, <1>9, GotoMoves, MoveStages DEF Drop, Stages
<1>10. CASE \E d \in Deliveries : Arrive(h, d)
  BY <1>1, <1>10 DEF Arrive, TypeOK
<1> QED
  BY <1>2, <1>3, <1>4, <1>5, <1>6, <1>7, <1>8, <1>9, <1>10 DEF HandlerStep

\* A delivery of the registry that is answered as a duplicate has been relayed, or
\* some handler was, or is, at that.
THEOREM DuplicatesCorrect == Spec => DuplicateMeansRelayed
<1> DEFINE Relayed(h) ==
      AnsweredDuplicate(h) /\ Delivery(h) \in FromRegistry
      => \/ \A i \in DOMAIN relays[Delivery(h)] : relays[Delivery(h)][i] > 0
         \/ AtWork(h)
         \/ "nats" \in lost
<1>1. ASSUME IInv, [Next]_vars PROVE [\A h \in Handlers : Relayed(h)]_vars
  <2> SUFFICES ASSUME Next, NEW h \in Handlers,
                      AnsweredDuplicate(h), Delivery(h) \in FromRegistry
               PROVE  \/ \A i \in DOMAIN relays[Delivery(h)] : relays[Delivery(h)][i] > 0
                      \/ AtWork(h)
                      \/ "nats" \in lost
    BY <1>1
  <2>1. At(h, "recording") /\ Known(h)
    BY <1>1, DuplicateIsKnown
  <2>2. \/ \E g \in Handlers : /\ Delivery(g) = Delivery(h)
                               /\ Stage(g) \in {"relaying", "dropped"}
        \/ \A i \in DOMAIN relays[Delivery(h)] : relays[Delivery(h)][i] > 0
        \/ "nats" \in lost
    BY <1>1, <2>1 DEF IInv, RowsRelayed, Known
  <2> QED
    BY <2>1, <2>2 DEF AtWork, At, Working, Stages
<1> QED
  BY <1>1, IInvCorrect, PTL DEF Spec, DuplicateMeansRelayed
=============================================================================
