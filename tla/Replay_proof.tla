---------------------------- MODULE Replay_proof ----------------------------
(***************************************************************************)
(* The event loop of `wfl replay` over any rules and any lines: when the   *)
(* stages of a pipeline follow each other in the order of compilation      *)
(* nothing is left open, and when no two binds share an alias every rule   *)
(* meets exactly the lines its binds say, in order.                        *)
(***************************************************************************)
EXTENDS Replay, SequenceTheorems, TLAPS

(* A stage feeds only stages compiled after it.                            *)
StagesFollow ==
    \A i \in Plan, c \in Binds :
        IsPipe(plans[i].target) /\ BindOf(c).window = plans[i].target => i < c.engine

(* No two binds of external windows have the same alias.                   *)
AliasesDiffer ==
    \A c, d \in Binds :
        IsExternal(c) /\ IsExternal(d) /\ BindOf(c).alias = BindOf(d).alias => c = d

-----------------------------------------------------------------------------
(* Types and control. *)

IsSequence(s) == Len(s) \in Nat /\ DOMAIN s = 1 .. Len(s)
Driven == [line : Nat, bind : Nat]
AllRoutes == [window : DOMAIN Schemas, to : Binds]

TypeInv ==
    /\ IsSequence(plans) /\ \A i \in Plan : DOMAIN plans[i].binds \subseteq Nat
    /\ phase \in {"load", "read", "scan", "route", "eof", "done"}
    /\ line \in Nat /\ engine \in 0 .. Len(plans)
    /\ DOMAIN open = Plan /\ DOMAIN drivenBy = Plan
    /\ \A i \in Plan : drivenBy[i] \in Seq(Driven)
    /\ routes \subseteq AllRoutes /\ consumers \subseteq Binds
    /\ consumers # {} => current.line \in Nat
    /\ queue \in Seq({queue[n] : n \in DOMAIN queue})
    /\ \A n \in DOMAIN queue :
         queue[n].ev.line \in Nat /\ \E i \in Plan : queue[n].route = Internal(plans[i].target)

ControlInv ==
    /\ phase = "load" => plans = << >> /\ line = 0
    /\ phase \in {"load", "route", "done"} => Idle(phase)
    /\ closing # {} =>
         phase \in {"scan", "eof"} /\ engine \in Plan /\ consumers = {} /\ routes = {}
    /\ routes # {} => phase = "read"
    /\ phase \in {"scan", "route"} \/ routes # {} => line # 0 /\ lines[line].type = "event"

-----------------------------------------------------------------------------
(* What is open. *)

(* While engines are scanned or closed in turn, what is under way concerns   *)
(* the engines still to come.                                                *)
FlowInv ==
    /\ phase \in {"scan", "eof"} =>
         /\ \A c \in consumers : engine < c.engine
         /\ \A n \in DOMAIN queue : \A c \in Consumers(queue[n].route) : engine < c.engine
    /\ phase = "scan" =>
         \A i \in Plan : i <= engine => \A w \in open[i] : ~ (w.end <= watermark)
    /\ phase = "eof" => \A i \in Plan : i <= engine => open[i] = {}
    /\ phase = "done" => \A i \in Plan : open[i] = {}

-----------------------------------------------------------------------------
(* What is met. *)

At(i, d) == [engine |-> i, bind |-> d.bind]
Met(i) == {n \in DOMAIN drivenBy[i] : IsExternal(At(i, drivenBy[i][n]))}
RouteOf(c) == [window |-> WindowAt(c), to |-> c]

(* A bind whose turn for the current line has yet to come.                   *)
Waiting(c) ==
    phase \in {"scan", "route"} \/ c \in consumers \/ \E r \in routes : r.to = c

Due(i) ==
    {d \in [line : 1 .. line, bind : DOMAIN plans[i].binds] :
        Meets(At(i, d), d.line) /\ (d.line = line => ~ Waiting(At(i, d)))}

DrivenInv == \A i \in Plan : {drivenBy[i][n] : n \in Met(i)} = Due(i)

(* The routes of the line come from its stream, the consumers one at a time. *)
RoutesInv ==
    /\ routes # {} => routes \subseteq EventRoutes(lines[line].stream)
    /\ \A c \in consumers : IsExternal(c) =>
         /\ consumers = {c} /\ phase = "read"
         /\ line # 0 /\ lines[line].type = "event" /\ current = JsonToEvent(lines[line])
         /\ RouteOf(c) \in EventRoutes(lines[line].stream)
         /\ \A r \in routes : Precedes(RouteOf(c), r)

Earlier(i, d, e) ==
    d.line < e.line
    \/ (d.line = e.line /\ Precedes(RouteOf(At(i, d)), RouteOf(At(i, e))))

(* What was met precedes what is to be met.                                  *)
OrderInv ==
    /\ \A i \in Plan : \A m, n \in Met(i) :
         m < n => Earlier(i, drivenBy[i][m], drivenBy[i][n])
    /\ \A i \in Plan : \A n \in Met(i) : drivenBy[i][n].line = line =>
         /\ \A r \in routes : Precedes(RouteOf(At(i, drivenBy[i][n])), r)
         /\ \A c \in consumers : IsExternal(c) =>
              Precedes(RouteOf(At(i, drivenBy[i][n])), RouteOf(c))

MetInv == RoutesInv /\ DrivenInv /\ OrderInv

IInv == TypeInv /\ ControlInv /\ (StagesFollow => FlowInv) /\ (AliasesDiffer => MetInv)

-----------------------------------------------------------------------------
(* Proofs: the parts of a step.                                              *)

(* A consumer names an engine and one of its binds.                          *)
LEMMA BindIs ==
    ASSUME NEW c \in Binds
    PROVE  /\ c.engine \in Plan /\ c.bind \in DOMAIN plans[c.engine].binds
           /\ c = [engine |-> c.engine, bind |-> c.bind]
BY DEF Binds

(* Every bind of an engine is a consumer.                                    *)
LEMMA BindOfEngine ==
    ASSUME NEW i \in Plan, NEW b \in DOMAIN plans[i].binds
    PROVE  [engine |-> i, bind |-> b] \in Binds
BY DEF Binds

(* A queue grows by its last element.                                        *)
LEMMA QueueAppend ==
    ASSUME NEW q, q \in Seq({q[n] : n \in DOMAIN q}), NEW x, NEW r, r = Append(q, x)
    PROVE  /\ r \in Seq({r[n] : n \in DOMAIN r})
           /\ \A n \in DOMAIN r : r[n] = x \/ \E m \in DOMAIN q : r[n] = q[m]
<1>. DEFINE S == {q[n] : n \in DOMAIN q}
            T == S \cup {x}
<1>1. q \in Seq(T) /\ x \in T
  BY SeqDef
<1>2. /\ r \in Seq(T) /\ Len(r) = Len(q) + 1
      /\ \A i \in 1 .. Len(q) : r[i] = q[i]
      /\ r[Len(q) + 1] = x
  BY <1>1, AppendProperties
<1>3. Len(q) \in Nat /\ DOMAIN q = 1 .. Len(q) /\ DOMAIN r = 1 .. Len(q) + 1
  BY <1>1, <1>2, LenProperties
<1>4. \A n \in DOMAIN r : r[n] = x \/ \E m \in DOMAIN q : r[n] = q[m]
  BY <1>2, <1>3
<1>5. r \in [1 .. Len(r) -> {r[n] : n \in DOMAIN r}]
  BY <1>2, <1>3, LenProperties
<1>. QED BY <1>2, <1>3, <1>4, <1>5, SeqDef

(* What is behind the first element of a queue stays in it.                  *)
LEMMA QueueTail ==
    ASSUME NEW S, NEW q \in Seq(S), q # << >>
    PROVE  /\ Tail(q) \in Seq({Tail(q)[n] : n \in DOMAIN Tail(q)})
           /\ \A n \in DOMAIN Tail(q) : \E m \in DOMAIN q : Tail(q)[n] = q[m]
           /\ 1 \in DOMAIN q /\ Head(q) = q[1]
<1>. DEFINE r == Tail(q)
<1>1. /\ r \in Seq(S) /\ Len(r) = Len(q) - 1
      /\ \A i \in 1 .. Len(r) : r[i] = q[i + 1]
  BY HeadTailProperties
<1>2. Len(q) \in Nat \ {0} /\ DOMAIN q = 1 .. Len(q) /\ DOMAIN r = 1 .. Len(r)
  BY <1>1, LenProperties, EmptySeq
<1>3. Head(q) = q[1] /\ 1 \in DOMAIN q
  BY <1>2, HeadTailProperties
<1>4. r \in [1 .. Len(r) -> {r[n] : n \in DOMAIN r}] /\ Len(r) \in Nat
  BY <1>1, <1>2, LenProperties
<1>. HIDE DEF r
<1>5. \A n \in DOMAIN r : \E m \in DOMAIN q : r[n] = q[m]
  BY <1>1, <1>2
<1>6. r \in Seq({r[n] : n \in DOMAIN r})
  BY ONLY <1>4, SeqDef
<1>. QED BY <1>3, <1>5, <1>6 DEF r

(* What an executor adds to the queue: an output for the stage it feeds.     *)
Pushed(i) ==
    \/ queue' = queue
    \/ /\ IsPipe(plans[i].target)
       /\ \E ev : /\ ev.line = line
                  /\ queue' = Append(queue, [route |-> Internal(plans[i].target), ev |-> ev])

LEMMA ExecutePushes ==
    ASSUME NEW i, NEW matched, NEW key, NEW ts, NEW origin, Execute(i, matched, key, ts, origin)
    PROVE  Pushed(i)
BY DEF Execute, HandleOutput, Record, RecordToEvent, Pushed

LEMMA DriveEffect ==
    ASSUME NEW c, Drive(c)
    PROVE  /\ Pushed(c.engine)
           /\ \E ws : open' = [open EXCEPT ![c.engine] = ws]
           /\ drivenBy' = [drivenBy EXCEPT ![c.engine] =
                             Append(@, [line |-> current.line, bind |-> c.bind])]
BY ExecutePushes DEF Drive

(* What one turn of RouteOnce does to the state.                             *)
Turn(c) ==
    /\ c \in consumers /\ consumers' = consumers \ {c}
    /\ Pushed(c.engine)
    /\ UNCHANGED << loaded, phase, line, watermark, engine, closing, routes, current >>
    /\ \/ /\ Accepts(c, current)
          /\ \E ws : open' = [open EXCEPT ![c.engine] = ws]
          /\ drivenBy' = [drivenBy EXCEPT ![c.engine] =
                            Append(@, [line |-> current.line, bind |-> c.bind])]
       \/ ~ Accepts(c, current) /\ UNCHANGED << open, drivenBy >>

LEMMA RouteOnceIs ==
    ASSUME RouteOnce
    PROVE  \E c : Turn(c)
<1>1. PICK c \in consumers :
        /\ consumers' = consumers \ {c}
        /\ IF Accepts(c, current) THEN Drive(c)
           ELSE UNCHANGED << queue, open, raised, counts, drivenBy >>
  BY DEF RouteOnce
<1>2. UNCHANGED << loaded, phase, line, watermark, engine, closing, routes, current >>
  BY DEF RouteOnce
<1>3. CASE Accepts(c, current)
  BY <1>1, <1>2, <1>3, DriveEffect DEF Turn
<1>4. CASE ~ Accepts(c, current)
  BY <1>1, <1>2, <1>4 DEF Turn, Pushed
<1>. QED BY <1>3, <1>4

(* What the evaluation of a closed window does to the state.                 *)
LEMMA EvaluateIs ==
    ASSUME EvaluateClose
    PROVE  /\ \E w \in closing : closing' = closing \ {w}
           /\ Pushed(engine)
           /\ UNCHANGED << loaded, phase, line, watermark, engine, routes, current, consumers,
                           open, drivenBy >>
BY ExecutePushes DEF EvaluateClose

-----------------------------------------------------------------------------
(* Proofs: types and control.                                                *)

(* The rules are those of a file.                                            *)
LEMMA FileIsSequence ==
    ASSUME NEW file \in DOMAIN RuleFiles
    PROVE  /\ IsSequence(RuleFiles[file])
           /\ \A i \in DOMAIN RuleFiles[file] : DOMAIN RuleFiles[file][i].binds \subseteq Nat
BY ReplayAssumption DEF IsSequence

(* The routing tables are those of the rules.                                *)
LEMMA SameTables ==
    ASSUME UNCHANGED loaded
    PROVE  /\ Plan' = Plan /\ Binds' = Binds /\ AllRoutes' = AllRoutes
           /\ plans' = plans /\ lines' = lines
           /\ StagesFollow' <=> StagesFollow
           /\ AliasesDiffer' <=> AliasesDiffer
           /\ \A k : Consumers(k)' = Consumers(k)
           /\ \A c : BindOf(c)' = BindOf(c) /\ (IsExternal(c)' <=> IsExternal(c))
BY DEF loaded, Plan, Binds, AllRoutes, StagesFollow, AliasesDiffer, Consumers, RouteKey,
       BindOf, IsExternal

LEMMA InitControl ==
    ASSUME InitReplay
    PROVE  TypeInv /\ ControlInv
<1>1. /\ phase = "load" /\ plans = << >> /\ line = 0 /\ engine = 0 /\ closing = {}
      /\ routes = {} /\ queue = << >> /\ consumers = {} /\ open = << >> /\ drivenBy = << >>
  BY DEF InitReplay, Start
<1>2. queue \in Seq({queue[n] : n \in DOMAIN queue}) /\ DOMAIN queue = {}
  BY <1>1, EmptySeq
<1>3. Plan = {} /\ IsSequence(plans)
  BY <1>1, EmptySeq DEF Plan, IsSequence
<1>4. DOMAIN open = Plan /\ DOMAIN drivenBy = Plan
  BY <1>1, <1>3, EmptySeq DEF Plan
<1>5. TypeInv
  BY <1>1, <1>2, <1>3, <1>4, EmptySeq DEF TypeInv
<1>6. ControlInv
  BY <1>1 DEF ControlInv, Idle
<1>. QED BY <1>5, <1>6

LEMMA LoadControl ==
    ASSUME TypeInv, ControlInv, NEW file \in DOMAIN RuleFiles, Load(file)
    PROVE  TypeInv' /\ ControlInv' /\ line' = 0 /\ Idle(phase)'
           /\ phase' \in {"read", "done"} /\ (phase' = "done" => plans' = << >>)
           /\ open' = [i \in DOMAIN plans' |-> {}] /\ drivenBy' = [i \in DOMAIN plans' |-> << >>]
<1>1. /\ phase = "load" /\ plans' = RuleFiles[file]
      /\ phase' \in {"read", "done"} /\ (phase' = "done" => plans' = << >>)
      /\ open' = [i \in DOMAIN plans' |-> {}] /\ drivenBy' = [i \in DOMAIN plans' |-> << >>]
      /\ UNCHANGED << line, engine, closing, routes, queue, consumers, current >>
  BY DEF Load
<1>2. /\ line = 0 /\ engine = 0 /\ closing = {} /\ routes = {} /\ queue = << >> /\ consumers = {}
  <2>1. plans = << >> /\ line = 0 /\ Idle("load")
    BY <1>1 DEF ControlInv
  <2>. QED BY <2>1, EmptySeq DEF TypeInv, Idle
<1>3. IsSequence(plans') /\ \A i \in Plan' : DOMAIN plans'[i].binds \subseteq Nat
  BY <1>1, FileIsSequence DEF Plan
<1>4. queue' \in Seq({queue'[n] : n \in DOMAIN queue'}) /\ DOMAIN queue' = {}
  BY <1>1, <1>2, EmptySeq
<1>5. \A i \in Plan' : drivenBy'[i] \in Seq(Driven)
  BY <1>1, EmptySeq DEF Plan
<1>6. TypeInv'
  BY <1>1, <1>2, <1>3, <1>4, <1>5 DEF TypeInv, Plan, IsSequence
<1>7. ControlInv'
  BY <1>1, <1>2 DEF ControlInv, Idle
<1>8. Idle(phase)'
  BY <1>1, <1>2 DEF Idle
<1>. QED BY <1>1, <1>2, <1>6, <1>7, <1>8

(* The queue after an executor has added to it.                              *)
LEMMA PushedQueue ==
    ASSUME TypeInv, NEW i \in Plan, Pushed(i)
    PROVE  /\ queue' \in Seq({queue'[n] : n \in DOMAIN queue'})
           /\ \A n \in DOMAIN queue' :
                \/ \E m \in DOMAIN queue : queue'[n] = queue[m]
                \/ /\ IsPipe(plans[i].target) /\ queue'[n].ev.line = line
                   /\ queue'[n].route = Internal(plans[i].target)
           /\ \A n \in DOMAIN queue' :
                queue'[n].ev.line \in Nat /\ \E j \in Plan : queue'[n].route = Internal(plans[j].target)
<1>1. queue \in Seq({queue[n] : n \in DOMAIN queue}) /\ line \in Nat
  BY DEF TypeInv
<1>2. /\ queue' \in Seq({queue'[n] : n \in DOMAIN queue'})
      /\ \A n \in DOMAIN queue' :
            \/ \E m \in DOMAIN queue : queue'[n] = queue[m]
            \/ /\ IsPipe(plans[i].target) /\ queue'[n].ev.line = line
               /\ queue'[n].route = Internal(plans[i].target)
  <2>1. CASE queue' = queue
    BY <1>1, <2>1
  <2>2. CASE IsPipe(plans[i].target)
             /\ \E ev : ev.line = line
                        /\ queue' = Append(queue, [route |-> Internal(plans[i].target), ev |-> ev])
    <3>1. PICK ev : ev.line = line
                    /\ queue' = Append(queue, [route |-> Internal(plans[i].target), ev |-> ev])
      BY <2>2
    <3>2. DEFINE x == [route |-> Internal(plans[i].target), ev |-> ev]
    <3>3. x.ev.line = line /\ x.route = Internal(plans[i].target)
      BY <3>1
    <3>4. queue' = Append(queue, x)
      BY <3>1
    <3>. HIDE DEF x
    <3>5. /\ queue' \in Seq({queue'[n] : n \in DOMAIN queue'})
          /\ \A n \in DOMAIN queue' : queue'[n] = x \/ \E m \in DOMAIN queue : queue'[n] = queue[m]
      BY <1>1, <3>4, QueueAppend
    <3>. QED BY <2>2, <3>3, <3>5
  <2>. QED BY <2>1, <2>2 DEF Pushed
<1>3. \A n \in DOMAIN queue :
        queue[n].ev.line \in Nat /\ \E j \in Plan : queue[n].route = Internal(plans[j].target)
  BY DEF TypeInv
<1>. QED BY <1>1, <1>2, <1>3

LEMMA TurnControl ==
    ASSUME TypeInv, ControlInv, RouteOnce
    PROVE  TypeInv' /\ ControlInv'
<1>1. PICK c : Turn(c)
  BY RouteOnceIs
<1>2. /\ c \in consumers /\ consumers' = consumers \ {c} /\ Pushed(c.engine) /\ UNCHANGED loaded
      /\ UNCHANGED << phase, line, watermark, engine, closing, routes, current >>
  BY <1>1 DEF Turn
<1>3. c \in Binds /\ c.engine \in Plan /\ c.bind \in DOMAIN plans[c.engine].binds
  BY <1>2, BindIs DEF TypeInv
<1>4. Plan' = Plan /\ Binds' = Binds /\ AllRoutes' = AllRoutes /\ plans' = plans /\ lines' = lines
  BY <1>2, SameTables
<1>5. [line |-> current.line, bind |-> c.bind] \in Driven
  BY <1>2, <1>3 DEF TypeInv, Driven
<1>6. DOMAIN open' = Plan /\ DOMAIN drivenBy' = Plan /\ \A i \in Plan : drivenBy'[i] \in Seq(Driven)
  <2>1. DOMAIN open = Plan /\ DOMAIN drivenBy = Plan /\ \A i \in Plan : drivenBy[i] \in Seq(Driven)
    BY DEF TypeInv
  <2>2. CASE UNCHANGED << open, drivenBy >>
    BY <2>1, <2>2
  <2>3. CASE ~ UNCHANGED << open, drivenBy >>
    <3>1. /\ \E ws : open' = [open EXCEPT ![c.engine] = ws]
          /\ drivenBy' = [drivenBy EXCEPT ![c.engine] =
                            Append(@, [line |-> current.line, bind |-> c.bind])]
      BY <1>1, <2>3 DEF Turn
    <3>2. Append(drivenBy[c.engine], [line |-> current.line, bind |-> c.bind]) \in Seq(Driven)
      BY <1>3, <1>5, <2>1, AppendProperties
    <3>. QED BY <2>1, <3>1, <3>2
  <2>. QED BY <2>2, <2>3
<1>7. TypeInv'
  <2>1. /\ queue' \in Seq({queue'[n] : n \in DOMAIN queue'})
        /\ \A n \in DOMAIN queue' :
             queue'[n].ev.line \in Nat /\ \E j \in Plan : queue'[n].route = Internal(plans[j].target)
    BY <1>2, <1>3, PushedQueue
  <2>. QED BY <1>2, <1>4, <1>6, <2>1 DEF TypeInv, Internal
<1>8. ControlInv'
  BY <1>2, <1>4 DEF ControlInv, Idle
<1>. QED BY <1>7, <1>8

LEMMA TakeRouteControl ==
    ASSUME TypeInv, ControlInv, TakeRoute
    PROVE  TypeInv' /\ ControlInv'
<1>1. PICK r \in routes :
        /\ consumers = {} /\ closing = {} /\ routes' = routes \ {r}
        /\ current' = JsonToEvent(lines[line])
        /\ consumers' = Consumers(External(BindOf(r.to).alias))
        /\ UNCHANGED loaded
        /\ UNCHANGED << phase, line, watermark, engine, closing, queue, open, drivenBy >>
  BY DEF TakeRoute
<1>2. Plan' = Plan /\ Binds' = Binds /\ AllRoutes' = AllRoutes /\ plans' = plans /\ lines' = lines
  BY <1>1, SameTables
<1>3. consumers' \subseteq Binds /\ current'.line = line
  BY <1>1 DEF Consumers, JsonToEvent
<1>4. TypeInv'
  BY <1>1, <1>2, <1>3 DEF TypeInv, Internal
<1>5. ControlInv'
  BY <1>1, <1>2 DEF ControlInv, Idle
<1>. QED BY <1>4, <1>5

LEMMA TakeQueuedControl ==
    ASSUME TypeInv, ControlInv, TakeQueued
    PROVE  TypeInv' /\ ControlInv'
<1>1. /\ consumers = {} /\ closing = {} /\ routes = {} /\ queue # << >>
      /\ queue' = Tail(queue) /\ current' = Head(queue).ev
      /\ consumers' = Consumers(Head(queue).route)
      /\ UNCHANGED loaded
      /\ UNCHANGED << phase, line, watermark, engine, closing, routes, open, drivenBy >>
  BY DEF TakeQueued
<1>2. Plan' = Plan /\ Binds' = Binds /\ AllRoutes' = AllRoutes /\ plans' = plans /\ lines' = lines
  BY <1>1, SameTables
<1>3. /\ queue' \in Seq({queue'[n] : n \in DOMAIN queue'})
      /\ \A n \in DOMAIN queue' : \E m \in DOMAIN queue : queue'[n] = queue[m]
      /\ 1 \in DOMAIN queue /\ Head(queue) = queue[1]
  <2>1. queue \in Seq({queue[n] : n \in DOMAIN queue})
    BY DEF TypeInv
  <2>2. queue # << >> /\ queue' = Tail(queue)
    BY <1>1
  <2>. QED BY <2>1, <2>2, QueueTail
<1>4. consumers' \subseteq Binds
  BY <1>1 DEF Consumers
<1>5. \A n \in DOMAIN queue :
        queue[n].ev.line \in Nat /\ \E j \in Plan : queue[n].route = Internal(plans[j].target)
  BY DEF TypeInv
<1>6. current'.line \in Nat
  BY <1>1, <1>3, <1>5
<1>7. \A n \in DOMAIN queue' :
        queue'[n].ev.line \in Nat /\ \E j \in Plan : queue'[n].route = Internal(plans[j].target)
  BY <1>3, <1>5
<1>8. TypeInv'
  BY <1>1, <1>2, <1>3, <1>4, <1>6, <1>7 DEF TypeInv, Internal
<1>9. ControlInv'
  BY <1>1, <1>2 DEF ControlInv, Idle
<1>. QED BY <1>8, <1>9

LEMMA EvaluateControl ==
    ASSUME TypeInv, ControlInv, EvaluateClose
    PROVE  TypeInv' /\ ControlInv'
<1>1. /\ \E w \in closing : closing' = closing \ {w}
      /\ Pushed(engine) /\ UNCHANGED loaded
      /\ UNCHANGED << phase, line, watermark, engine, routes, current, consumers, open, drivenBy >>
  BY EvaluateIs
<1>2. Plan' = Plan /\ Binds' = Binds /\ AllRoutes' = AllRoutes /\ plans' = plans /\ lines' = lines
  BY <1>1, SameTables
<1>3. /\ closing # {} /\ phase \in {"scan", "eof"} /\ engine \in Plan
      /\ consumers = {} /\ routes = {}
  BY <1>1 DEF ControlInv
<1>4. /\ queue' \in Seq({queue'[n] : n \in DOMAIN queue'})
      /\ \A n \in DOMAIN queue' :
           queue'[n].ev.line \in Nat /\ \E j \in Plan : queue'[n].route = Internal(plans[j].target)
  BY <1>1, <1>3, PushedQueue
<1>5. TypeInv'
  BY <1>1, <1>2, <1>4 DEF TypeInv, Internal
<1>6. ControlInv'
  BY <1>1, <1>2, <1>3 DEF ControlInv, Idle
<1>. QED BY <1>5, <1>6

LEMMA CloseControl ==
    ASSUME TypeInv, ControlInv, NEW closed, phase \in {"scan", "eof"}, Idle(phase),
           engine + 1 \in Plan, Close(closed)
    PROVE  TypeInv' /\ ControlInv'
<1>1. /\ engine' = engine + 1 /\ closing' = closed
      /\ open' = [open EXCEPT ![engine + 1] = @ \ closed] /\ UNCHANGED loaded
      /\ UNCHANGED << phase, line, watermark, routes, queue, current, consumers, drivenBy >>
  BY DEF Close
<1>2. Plan' = Plan /\ Binds' = Binds /\ AllRoutes' = AllRoutes /\ plans' = plans /\ lines' = lines
  BY <1>1, SameTables
<1>3. engine + 1 \in 0 .. Len(plans)
  BY DEF TypeInv, Plan, IsSequence
<1>4. TypeInv'
  BY <1>1, <1>2, <1>3 DEF TypeInv, Internal
<1>5. ControlInv'
  BY <1>1, <1>2 DEF ControlInv, Idle
<1>. QED BY <1>4, <1>5

(* The steps that only move on.                                              *)
MoveOn == SkipLine \/ ReadLine \/ Scanned \/ RouteEvent \/ EndOfFile \/ Finish

LEMMA MoveOnControl ==
    ASSUME TypeInv, ControlInv, MoveOn
    PROVE  TypeInv' /\ ControlInv'
<1>1. /\ UNCHANGED loaded
      /\ UNCHANGED << closing, queue, current, consumers, open, drivenBy >>
      /\ closing = {} /\ routes = {} /\ queue = << >> /\ consumers = {}
  BY DEF MoveOn, SkipLine, ReadLine, Scanned, RouteEvent, EndOfFile, Finish, Idle
<1>2. Plan' = Plan /\ Binds' = Binds /\ AllRoutes' = AllRoutes /\ plans' = plans /\ lines' = lines
  BY <1>1, SameTables
<1>3. /\ line' \in Nat /\ engine' \in 0 .. Len(plans) /\ routes' \subseteq AllRoutes
      /\ phase' \in {"load", "read", "scan", "route", "eof", "done"}
  BY <1>1 DEF MoveOn, SkipLine, ReadLine, Scanned, RouteEvent, EndOfFile, Finish, TypeInv,
              EventRoutes, AllRoutes, IsSequence
<1>4. TypeInv'
  BY <1>1, <1>2, <1>3 DEF TypeInv, Internal
<1>5. phase' # "load" /\ (routes' # {} => phase' = "read")
  BY <1>1 DEF MoveOn, SkipLine, ReadLine, Scanned, RouteEvent, EndOfFile, Finish, Idle
<1>6. phase' \in {"scan", "route"} \/ routes' # {} => line' # 0 /\ lines[line'].type = "event"
  BY <1>1 DEF MoveOn, SkipLine, ReadLine, Scanned, RouteEvent, EndOfFile, Finish, Idle,
              ControlInv, TypeInv
<1>7. phase' \in {"load", "route", "done"} => routes' = {}
  BY <1>5
<1>8. ControlInv'
  BY <1>1, <1>2, <1>5, <1>6, <1>7 DEF ControlInv, Idle
<1>. QED BY <1>4, <1>8

LEMMA NextControl ==
    ASSUME TypeInv, ControlInv, ReplayNext
    PROVE  TypeInv' /\ ControlInv'
<1>1. CASE ScanEngine
  BY <1>1, CloseControl DEF ScanEngine, Idle
<1>2. CASE CloseEngine
  BY <1>2, CloseControl DEF CloseEngine, Idle
<1>. QED BY <1>1, <1>2, TurnControl, TakeRouteControl, TakeQueuedControl, EvaluateControl,
            MoveOnControl DEF ReplayNext, MoveOn

-----------------------------------------------------------------------------
(* Proofs: what is left open.                                                *)

(* The alias of a bind is never taken for the window of a stage.             *)
LEMMA KeysDiffer ==
    ASSUME NEW a, NEW w, NEW v
    PROVE  External(a) # Internal(w) /\ (Internal(v) = Internal(w) => v = w)
           /\ (External(v) = External(w) => v = w)
BY DEF External, Internal

(* Who is driven by what a stage yields.                                     *)
LEMMA PipedConsumers ==
    ASSUME NEW i \in Plan, NEW c \in Consumers(Internal(plans[i].target))
    PROVE  /\ c \in Binds /\ ~ IsExternal(c) /\ BindOf(c).window = plans[i].target
           /\ IsPipe(plans[i].target) /\ (StagesFollow => i < c.engine)
<1>1. c \in Binds /\ RouteKey(c) = Internal(plans[i].target)
  BY DEF Consumers
<1>2. ~ IsExternal(c) /\ BindOf(c).window = plans[i].target
  BY <1>1, KeysDiffer DEF RouteKey
<1>3. IsPipe(plans[i].target)
  BY <1>2 DEF IsExternal
<1>. QED BY <1>1, <1>2, <1>3 DEF StagesFollow

LEMMA TurnFlow ==
    ASSUME TypeInv, ControlInv, StagesFollow, FlowInv, RouteOnce
    PROVE  FlowInv'
<1>1. PICK c : Turn(c)
  BY RouteOnceIs
<1>2. /\ c \in consumers /\ consumers' = consumers \ {c} /\ Pushed(c.engine) /\ UNCHANGED loaded
      /\ UNCHANGED << phase, line, watermark, engine >>
  BY <1>1 DEF Turn
<1>3. c.engine \in Plan /\ c.engine \in Nat /\ engine \in Nat
  BY <1>2, BindIs DEF TypeInv, Plan, IsSequence
<1>4. /\ Plan' = Plan /\ \A k : Consumers(k)' = Consumers(k)
  BY <1>2, SameTables
<1>5. \A i \in Plan : i # c.engine => open'[i] = open[i]
  BY <1>1 DEF Turn, TypeInv
<1>6. phase # "done"
  BY <1>2 DEF ControlInv, Idle
<1>7. CASE phase \in {"scan", "eof"}
  <2>1. engine < c.engine
    BY <1>2, <1>7 DEF FlowInv
  <2>2. \A i \in Plan : i <= engine => open'[i] = open[i]
    BY <1>3, <1>5, <2>1 DEF Plan, TypeInv, IsSequence
  <2>3. ASSUME NEW n \in DOMAIN queue', NEW d \in Consumers(queue'[n].route)
        PROVE  engine < d.engine
    <3>1. CASE \E m \in DOMAIN queue : queue'[n] = queue[m]
      BY <1>7, <2>3, <3>1 DEF FlowInv
    <3>2. CASE ~ \E m \in DOMAIN queue : queue'[n] = queue[m]
      <4>1. queue'[n].route = Internal(plans[c.engine].target)
        BY <1>2, <1>3, <3>2, PushedQueue
      <4>2. c.engine < d.engine /\ d \in Binds
        BY <1>3, <2>3, <4>1, PipedConsumers
      <4>3. d.engine \in Nat
        BY <4>2, BindIs DEF TypeInv, Plan, IsSequence
      <4>. QED BY ONLY <1>3, <2>1, <4>2, <4>3
    <3>. QED BY <3>1, <3>2
  <2>. QED BY <1>2, <1>4, <1>6, <2>2, <2>3 DEF FlowInv
<1>8. CASE phase \notin {"scan", "eof"}
  BY <1>2, <1>6, <1>8 DEF FlowInv
<1>. QED BY <1>7, <1>8

LEMMA TakeQueuedFlow ==
    ASSUME TypeInv, ControlInv, FlowInv, TakeQueued
    PROVE  FlowInv'
<1>1. /\ queue # << >> /\ queue' = Tail(queue)
      /\ consumers' = Consumers(Head(queue).route) /\ UNCHANGED loaded
      /\ UNCHANGED << phase, watermark, engine, open >>
  BY DEF TakeQueued
<1>2. Plan' = Plan /\ \A k : Consumers(k)' = Consumers(k)
  BY <1>1, SameTables
<1>3. /\ \A n \in DOMAIN queue' : \E m \in DOMAIN queue : queue'[n] = queue[m]
      /\ 1 \in DOMAIN queue /\ Head(queue) = queue[1]
  <2>1. queue \in Seq({queue[n] : n \in DOMAIN queue})
    BY DEF TypeInv
  <2>. QED BY <1>1, <2>1, QueueTail
<1>4. \A k : (Consumers(k))' = Consumers(k)
  BY <1>2
<1>. QED BY <1>1, <1>2, <1>3, <1>4 DEF FlowInv

LEMMA EvaluateFlow ==
    ASSUME TypeInv, ControlInv, StagesFollow, FlowInv, EvaluateClose
    PROVE  FlowInv'
<1>1. /\ \E w \in closing : closing' = closing \ {w}
      /\ Pushed(engine) /\ UNCHANGED loaded
      /\ UNCHANGED << phase, line, watermark, engine, consumers, open >>
  BY EvaluateIs
<1>2. Plan' = Plan /\ \A k : Consumers(k)' = Consumers(k)
  BY <1>1, SameTables
<1>3. phase \in {"scan", "eof"} /\ engine \in Plan /\ consumers = {}
  BY <1>1 DEF ControlInv
<1>4. ASSUME NEW n \in DOMAIN queue', NEW d \in Consumers(queue'[n].route)
      PROVE  engine < d.engine
  <2>1. CASE \E m \in DOMAIN queue : queue'[n] = queue[m]
    BY <1>3, <1>4, <2>1 DEF FlowInv
  <2>2. CASE ~ \E m \in DOMAIN queue : queue'[n] = queue[m]
    <3>1. queue'[n].route = Internal(plans[engine].target)
      BY <1>1, <1>3, <2>2, PushedQueue
    <3>. QED BY <1>3, <1>4, <3>1, PipedConsumers
  <2>. QED BY <2>1, <2>2
<1>. QED BY <1>1, <1>2, <1>3, <1>4 DEF FlowInv

LEMMA ScanFlow ==
    ASSUME TypeInv, FlowInv, ScanEngine
    PROVE  FlowInv'
<1>1. /\ phase = "scan" /\ phase' = "scan" /\ engine' = engine + 1 /\ UNCHANGED loaded
      /\ queue' = << >> /\ consumers' = {} /\ watermark' = watermark
      /\ open' = [open EXCEPT ![engine + 1] = @ \ {w \in open[engine + 1] : w.end <= watermark}]
      /\ engine + 1 \in Plan
  BY DEF ScanEngine, Close, Idle
<1>2. Plan' = Plan
  BY <1>1, SameTables
<1>3. engine \in Nat /\ Plan \subseteq Nat /\ DOMAIN open = Plan
  BY DEF TypeInv, Plan, IsSequence
<1>4. ASSUME NEW i \in Plan, i <= engine + 1, NEW w \in open'[i]
      PROVE  ~ (w.end <= watermark)
  <2>1. CASE i = engine + 1
    BY <1>1, <1>3, <1>4, <2>1
  <2>2. CASE i # engine + 1
    <3>1. i <= engine
      BY <1>3, <1>4, <2>2
    <3>. QED BY <1>1, <1>3, <1>4, <2>2, <3>1 DEF FlowInv
  <2>. QED BY <2>1, <2>2
<1>5. DOMAIN queue' = {}
  BY <1>1, EmptySeq
<1>. QED BY <1>1, <1>2, <1>4, <1>5 DEF FlowInv

LEMMA CloseFlow ==
    ASSUME TypeInv, FlowInv, CloseEngine
    PROVE  FlowInv'
<1>1. /\ phase = "eof" /\ phase' = "eof" /\ engine' = engine + 1 /\ UNCHANGED loaded
      /\ queue' = << >> /\ consumers' = {}
      /\ open' = [open EXCEPT ![engine + 1] = @ \ open[engine + 1]]
      /\ engine + 1 \in Plan
  BY DEF CloseEngine, Close, Idle
<1>2. Plan' = Plan
  BY <1>1, SameTables
<1>3. engine \in Nat /\ Plan \subseteq Nat /\ DOMAIN open = Plan
  BY DEF TypeInv, Plan, IsSequence
<1>4. ASSUME NEW i \in Plan, i <= engine + 1
      PROVE  open'[i] = {}
  <2>1. CASE i = engine + 1
    BY <1>1, <1>3, <2>1
  <2>2. CASE i # engine + 1
    <3>1. i <= engine
      BY <1>3, <1>4, <2>2
    <3>. QED BY <1>1, <1>3, <2>2, <3>1 DEF FlowInv
  <2>. QED BY <2>1, <2>2
<1>5. DOMAIN queue' = {}
  BY <1>1, EmptySeq
<1>. QED BY <1>1, <1>2, <1>4, <1>5 DEF FlowInv

LEMMA MoveOnFlow ==
    ASSUME TypeInv, ControlInv, FlowInv, MoveOn
    PROVE  FlowInv'
<1>1. /\ UNCHANGED loaded /\ UNCHANGED open
      /\ queue' = << >> /\ consumers' = {}
  BY DEF MoveOn, SkipLine, ReadLine, Scanned, RouteEvent, EndOfFile, Finish, Idle
<1>2. Plan' = Plan /\ DOMAIN queue' = {}
  BY <1>1, SameTables, EmptySeq
<1>3. \A i \in Plan : i \in Nat /\ i # 0 /\ i <= Len(plans)
  BY DEF TypeInv, Plan, IsSequence
<1>4. phase' \in {"scan", "eof"} => engine' = 0
  BY DEF MoveOn, SkipLine, ReadLine, Scanned, RouteEvent, EndOfFile, Finish, Idle
<1>5. phase' = "done" => \A i \in Plan : open[i] = {}
  <2>1. SUFFICES ASSUME Finish PROVE \A i \in Plan : open[i] = {}
    BY DEF MoveOn, SkipLine, ReadLine, Scanned, RouteEvent, EndOfFile, Finish, Idle
  <2>2. phase = "eof" /\ engine + 1 \notin Plan
    BY <2>1 DEF Finish, Idle
  <2>3. engine \in 0 .. Len(plans) /\ Len(plans) \in Nat /\ Plan = 1 .. Len(plans)
    BY DEF TypeInv, IsSequence, Plan
  <2>4. engine = Len(plans)
    BY ONLY <2>2, <2>3
  <2>. QED BY <1>3, <2>2, <2>4 DEF FlowInv
<1>. QED BY <1>1, <1>2, <1>3, <1>4, <1>5 DEF FlowInv

LEMMA NextFlow ==
    ASSUME TypeInv, ControlInv, StagesFollow, FlowInv, ReplayNext
    PROVE  FlowInv'
<1>1. CASE TakeRoute
  <2>1. phase = "read" /\ phase' = phase
    BY <1>1 DEF TakeRoute, ControlInv
  <2>. QED BY <2>1 DEF FlowInv
<1>. QED BY <1>1, TurnFlow, TakeQueuedFlow, EvaluateFlow, ScanFlow, CloseFlow, MoveOnFlow
         DEF ReplayNext, MoveOn

(* With stages that follow each other, a scan leaves nothing open that has   *)
(* ended and the end of the file leaves nothing open at all.                 *)
LEMMA FlowSuffices ==
    ASSUME TypeInv, FlowInv
    PROVE  NothingLeftOpen
<1>1. engine \in 0 .. Len(plans) /\ Len(plans) \in Nat /\ Plan = 1 .. Len(plans)
  BY DEF TypeInv, IsSequence, Plan
<1>2. engine + 1 \notin Plan => \A i \in Plan : i <= engine
  BY ONLY <1>1
<1>. QED BY <1>2 DEF FlowInv, NothingLeftOpen, Idle

LEMMA LoadFlow ==
    ASSUME TypeInv, ControlInv, NEW file \in DOMAIN RuleFiles, Load(file)
    PROVE  FlowInv'
<1>1. /\ phase' \in {"read", "done"} /\ (phase' = "done" => plans' = << >>)
      /\ open' = [i \in DOMAIN plans' |-> {}]
  BY LoadControl
<1>. QED BY <1>1 DEF FlowInv, Plan

-----------------------------------------------------------------------------
(* Proofs: what is met.                                                      *)

(* A route is that of its bind.                                              *)
LEMMA RouteIs ==
    ASSUME NEW s, NEW r \in EventRoutes(s)
    PROVE  /\ r = RouteOf(r.to) /\ r.to \in Binds /\ IsExternal(r.to) /\ r.window \in Nat
<1>1. /\ r \in [window : DOMAIN Schemas, to : Binds] /\ IsExternal(r.to)
      /\ BindOf(r.to).window = Schemas[r.window].name
  BY DEF EventRoutes
<1>2. r.window \in DOMAIN Schemas /\ r.to \in Binds /\ r = [window |-> r.window, to |-> r.to]
  BY <1>1
<1>3. WindowAt(r.to) = r.window
  BY <1>1, <1>2, ReplayAssumption DEF WindowAt
<1>. QED BY <1>1, <1>2, <1>3, ReplayAssumption DEF RouteOf

(* A bind must meet a line if the line has a route to it and it accepts it.  *)
LEMMA MeetsIs ==
    ASSUME NEW c \in Binds, NEW n
    PROVE  Meets(c, n) <=> /\ lines[n].type = "event" /\ lines[n].kind \in BindOf(c).accepts
                           /\ RouteOf(c) \in EventRoutes(lines[n].stream)
<1>1. ASSUME Meets(c, n) PROVE RouteOf(c) \in EventRoutes(lines[n].stream)
  <2>1. PICK m \in DOMAIN Schemas :
          Schemas[m].name = BindOf(c).window /\ lines[n].stream \in Schemas[m].streams
    BY <1>1 DEF Meets
  <2>2. WindowAt(c) = m
    BY <2>1, ReplayAssumption DEF WindowAt
  <2>. QED BY <1>1, <2>1, <2>2 DEF Meets, RouteOf, EventRoutes
<1>2. ASSUME RouteOf(c) \in EventRoutes(lines[n].stream)
      PROVE  IsExternal(c) /\ \E m \in DOMAIN Schemas :
               Schemas[m].name = BindOf(c).window /\ lines[n].stream \in Schemas[m].streams
  BY <1>2 DEF EventRoutes, RouteOf
<1>. QED BY <1>1, <1>2 DEF Meets

(* No route comes before itself.                                             *)
LEMMA NotItself ==
    ASSUME TypeInv, NEW s, NEW r \in EventRoutes(s)
    PROVE  ~ Precedes(r, r)
<1>1. r.window \in Nat /\ r.to.engine \in Nat /\ r.to.bind \in Nat
  <2>1. r.window \in Nat /\ r.to \in Binds
    BY RouteIs
  <2>2. r.to.engine \in Plan /\ r.to.bind \in DOMAIN plans[r.to.engine].binds
    BY <2>1, BindIs
  <2>. QED BY <2>1, <2>2 DEF TypeInv, Plan, IsSequence
<1>. QED BY ONLY <1>1 DEF Precedes, Before

(* What the lines and the rules determine.                                   *)
LEMMA SameMeets ==
    ASSUME UNCHANGED loaded
    PROVE  /\ \A c, n : Meets(c, n)' <=> Meets(c, n)
           /\ \A c : RouteOf(c)' = RouteOf(c)
           /\ \A s : EventRoutes(s)' = EventRoutes(s)
           /\ \A i, d, e : Earlier(i, d, e)' <=> Earlier(i, d, e)
<1>1. plans' = plans /\ lines' = lines /\ Plan' = Plan /\ Binds' = Binds
  BY SameTables DEF loaded
<1>2. \A c, n : Meets(c, n)' <=> Meets(c, n)
  BY <1>1 DEF Meets, IsExternal, BindOf
<1>3. \A c : RouteOf(c)' = RouteOf(c)
  BY <1>1 DEF RouteOf, WindowAt, BindOf
<1>4. \A s : EventRoutes(s)' = EventRoutes(s)
  BY <1>1 DEF EventRoutes, IsExternal, BindOf
<1>5. \A i, d, e : Earlier(i, d, e)' <=> Earlier(i, d, e)
  BY <1>1 DEF Earlier, RouteOf, WindowAt, BindOf, At
<1>. QED BY <1>2, <1>3, <1>4, <1>5

(* What is due stays what it is when no bind has its turn.                   *)
LEMMA DueStays ==
    ASSUME TypeInv, UNCHANGED loaded, line' \in Nat,
           \A c \in Binds, n \in Nat \ {0} : Meets(c, n) =>
               ((n <= line /\ (n = line => ~ Waiting(c)))
                   <=> (n <= line' /\ (n = line' => ~ Waiting(c)')))
    PROVE  \A i \in Plan : Due(i)' = Due(i)
<1>. SUFFICES ASSUME NEW i \in Plan, NEW d
              PROVE  d \in Due(i)' <=> d \in Due(i)
  BY DEF Due
<1>1. plans' = plans /\ \A c, n : Meets(c, n)' <=> Meets(c, n)
  BY SameMeets DEF loaded
<1>2. d \in Due(i) <=>
        /\ \E n \in Nat, b \in DOMAIN plans[i].binds :
             n \in 1 .. line /\ d = [line |-> n, bind |-> b]
        /\ Meets(At(i, d), d.line) /\ (d.line = line => ~ Waiting(At(i, d)))
  BY DEF Due, TypeInv
<1>3. d \in Due(i)' <=>
        /\ \E n \in Nat, b \in DOMAIN plans[i].binds :
             n \in 1 .. line' /\ d = [line |-> n, bind |-> b]
        /\ Meets(At(i, d), d.line) /\ (d.line = line' => ~ Waiting(At(i, d))')
  BY <1>1 DEF Due, At
<1>4. ASSUME NEW n \in Nat, NEW b \in DOMAIN plans[i].binds, d = [line |-> n, bind |-> b]
      PROVE  At(i, d) \in Binds /\ d.line = n
  BY <1>4, BindOfEngine DEF At
<1>. QED BY <1>1, <1>2, <1>3, <1>4 DEF TypeInv, At

(* What was met and its order stay when nothing is driven.                   *)
LEMMA DrivenStays ==
    ASSUME TypeInv, DrivenInv, OrderInv, UNCHANGED loaded, UNCHANGED drivenBy,
           \A i \in Plan : Due(i)' = Due(i),
           \A i \in Plan : \A n \in Met(i) : drivenBy[i][n].line = line' =>
               /\ \A r \in routes' : Precedes(RouteOf(At(i, drivenBy[i][n])), r)
               /\ \A c \in consumers' : IsExternal(c) =>
                    Precedes(RouteOf(At(i, drivenBy[i][n])), RouteOf(c))
    PROVE  DrivenInv' /\ OrderInv'
<1>1. /\ Plan' = Plan /\ \A c : IsExternal(c)' <=> IsExternal(c)
      /\ \A c : RouteOf(c)' = RouteOf(c)
      /\ \A i, d, e : Earlier(i, d, e)' <=> Earlier(i, d, e)
  BY SameTables, SameMeets
<1>2. \A i : Met(i)' = Met(i)
  BY <1>1 DEF Met, At
<1>3. DrivenInv'
  BY <1>1, <1>2 DEF DrivenInv
<1>4. \A i, n : RouteOf(At(i, drivenBy[i][n]))' = RouteOf(At(i, drivenBy[i][n]))
  BY <1>1 DEF At
<1>5. \A c : RouteOf(c)' = RouteOf(c)
  BY <1>1
<1>6. OrderInv'
  BY <1>1, <1>2, <1>4, <1>5 DEF OrderInv
<1>. QED BY <1>3, <1>6

(* A step that neither takes a route of the line nor drives one of its binds.*)
LEMMA QuietMet ==
    ASSUME TypeInv, MetInv, UNCHANGED << loaded, line, phase, routes, drivenBy >>,
           consumers = {}, \A c \in consumers' : ~ IsExternal(c)
    PROVE  MetInv'
<1>1. UNCHANGED loaded /\ lines' = lines
  BY DEF loaded
<1>2. \A c : (IsExternal(c)' <=> IsExternal(c)) /\ \A s : EventRoutes(s)' = EventRoutes(s)
  BY <1>1, SameTables, SameMeets
<1>3. RoutesInv'
  BY <1>1, <1>2 DEF MetInv, RoutesInv
<1>4. \A c \in Binds : IsExternal(c) => (Waiting(c)' <=> Waiting(c))
  BY DEF Waiting
<1>5. \A n : \A c \in Binds : Meets(c, n) => IsExternal(c)
  BY DEF Meets
<1>6. line' \in Nat /\ line' = line
  BY DEF TypeInv
<1>7. \A i \in Plan : Due(i)' = Due(i)
  BY <1>1, <1>4, <1>5, <1>6, DueStays
<1>8. \A i \in Plan : \A n \in Met(i) : drivenBy[i][n].line = line' =>
               /\ \A r \in routes' : Precedes(RouteOf(At(i, drivenBy[i][n])), r)
               /\ \A c \in consumers' : IsExternal(c) =>
                    Precedes(RouteOf(At(i, drivenBy[i][n])), RouteOf(c))
  BY <1>6 DEF MetInv, OrderInv
<1>. QED BY <1>1, <1>3, <1>7, <1>8, DrivenStays DEF MetInv

(* The order of a line that has met nothing or has nothing left to meet.     *)
LEMMA MoveOnMet ==
    ASSUME TypeInv, ControlInv, MetInv, MoveOn
    PROVE  MetInv'
<1>1. /\ UNCHANGED loaded /\ UNCHANGED drivenBy /\ consumers' = {} /\ lines' = lines
      /\ routes = {} /\ consumers = {}
  BY DEF MoveOn, SkipLine, ReadLine, Scanned, RouteEvent, EndOfFile, Finish, Idle, loaded
<1>2. \A s : EventRoutes(s)' = EventRoutes(s)
  BY <1>1, SameMeets
<1>3. line \in Nat /\ line' \in Nat
  BY DEF MoveOn, SkipLine, ReadLine, Scanned, RouteEvent, EndOfFile, Finish, TypeInv
<1>4. \A c : Waiting(c) <=> phase \in {"scan", "route"}
  BY <1>1 DEF Waiting
<1>5. \A n : \A c \in Binds : Meets(c, n) =>
        /\ lines[n].type = "event" /\ RouteOf(c) \in EventRoutes(lines[n].stream)
  BY MeetsIs
<1>6. CASE RouteEvent
  <2>1. /\ phase = "route" /\ phase' = "read" /\ line' = line
        /\ routes' = EventRoutes(lines[line].stream)
    BY <1>6 DEF RouteEvent, Idle
  <2>2. RoutesInv'
    BY <1>1, <1>2, <2>1 DEF RoutesInv
  <2>3. ASSUME NEW c \in Binds, Meets(c, line) PROVE Waiting(c)' /\ Waiting(c)
    <3>1. RouteOf(c) \in routes' /\ RouteOf(c).to = c
      BY <1>5, <2>1, <2>3 DEF RouteOf
    <3>. QED BY <1>4, <2>1, <3>1 DEF Waiting
  <2>4. \A i \in Plan : Due(i)' = Due(i)
    BY <1>1, <1>3, <2>1, <2>3, DueStays
  <2>5. ASSUME NEW i \in Plan, NEW n \in Met(i) PROVE drivenBy[i][n].line # line
    <3>1. drivenBy[i][n] \in Due(i)
      BY DEF MetInv, DrivenInv
    <3>. QED BY <1>4, <2>1, <3>1 DEF Due
  <2>. QED BY <1>1, <2>1, <2>2, <2>4, <2>5, DrivenStays DEF MetInv
<1>7. CASE ~ RouteEvent
  <2>1. routes' = {}
    BY <1>1, <1>7 DEF MoveOn, SkipLine, ReadLine, Scanned, EndOfFile, Finish
  <2>2. RoutesInv'
    BY <1>1, <2>1 DEF RoutesInv
  <2>3. \A c : Waiting(c)' <=> phase' \in {"scan", "route"}
    BY <1>1, <2>1 DEF Waiting
  <2>4. \/ /\ phase \notin {"scan", "route"} /\ line' = line + 1
           /\ lines[line'].type = "event" => phase' \in {"scan", "route"}
        \/ /\ line' = line
           /\ phase \in {"scan", "route"} <=> phase' \in {"scan", "route"}
    BY <1>7 DEF MoveOn, SkipLine, ReadLine, Scanned, EndOfFile, Finish, Idle
  <2>5. ASSUME NEW c \in Binds, NEW n \in Nat \ {0}, Meets(c, n)
        PROVE  (n <= line /\ (n = line => ~ Waiting(c)))
                   <=> (n <= line' /\ (n = line' => ~ Waiting(c)'))
    <3>1. lines[n].type = "event"
      BY <1>5, <2>5
    <3>2. CASE line' = line + 1
      <4>1. /\ ~ Waiting(c)
            /\ n = line' => Waiting(c)'
        BY <1>3, <1>4, <2>3, <2>4, <3>1, <3>2
      <4>. QED BY <1>3, <3>2, <4>1
    <3>3. CASE line' # line + 1
      <4>1. line' = line /\ (Waiting(c)' <=> Waiting(c))
        BY <1>4, <2>3, <2>4, <3>3
      <4>. QED BY <4>1
    <3>. QED BY <3>2, <3>3
  <2>6. \A i \in Plan : Due(i)' = Due(i)
    BY <1>1, <1>3, <2>5, DueStays
  <2>. QED BY <1>1, <2>1, <2>2, <2>6, DrivenStays DEF MetInv
<1>. QED BY <1>6, <1>7

LEMMA TakeRouteMet ==
    ASSUME TypeInv, ControlInv, AliasesDiffer, MetInv, TakeRoute
    PROVE  MetInv'
<1>1. PICK r \in routes :
        /\ \A s \in routes \ {r} : Precedes(r, s)
        /\ consumers = {} /\ closing = {} /\ routes' = routes \ {r}
        /\ current' = JsonToEvent(lines[line])
        /\ consumers' = Consumers(External(BindOf(r.to).alias))
        /\ UNCHANGED loaded
        /\ UNCHANGED << phase, line, drivenBy >>
  BY DEF TakeRoute
<1>2. /\ phase = "read" /\ line # 0 /\ lines[line].type = "event" /\ lines' = lines
      /\ routes \subseteq EventRoutes(lines[line].stream)
  BY <1>1 DEF ControlInv, MetInv, RoutesInv, loaded
<1>3. r = RouteOf(r.to) /\ r.to \in Binds /\ IsExternal(r.to)
  BY <1>1, <1>2, RouteIs
<1>4. consumers' = {r.to}
  <2>1. RouteKey(r.to) = External(BindOf(r.to).alias)
    BY <1>3 DEF RouteKey
  <2>2. ASSUME NEW d \in Binds, RouteKey(d) = External(BindOf(r.to).alias) PROVE d = r.to
    <3>1. IsExternal(d)
      BY <2>2, KeysDiffer DEF RouteKey
    <3>2. BindOf(d).alias = BindOf(r.to).alias
      BY <2>2, <3>1, KeysDiffer DEF RouteKey
    <3>. QED BY <1>3, <3>1, <3>2 DEF AliasesDiffer
  <2>. QED BY <1>1, <1>3, <2>1, <2>2 DEF Consumers
<1>5. /\ \A s : EventRoutes(s)' = EventRoutes(s)
      /\ \A c : RouteOf(c)' = RouteOf(c)
  BY <1>1, SameMeets
<1>6. current' = JsonToEvent(lines[line])'
  BY <1>1, <1>2 DEF JsonToEvent
<1>7. RoutesInv'
  <2>1. RouteOf(r.to)' = r
    BY <1>3, <1>5
  <2>2. \A c \in consumers' : c = r.to
    BY <1>4
  <2>. QED BY <1>1, <1>2, <1>4, <1>5, <1>6, <2>1, <2>2 DEF RoutesInv
<1>8. \A c : Waiting(c)' <=> Waiting(c)
  BY <1>1, <1>4 DEF Waiting
<1>9. line' \in Nat /\ line' = line
  BY <1>1 DEF TypeInv
<1>10. \A i \in Plan : Due(i)' = Due(i)
  BY <1>1, <1>8, <1>9, DueStays
<1>11. \A i \in Plan : \A n \in Met(i) : drivenBy[i][n].line = line' =>
               /\ \A s \in routes' : Precedes(RouteOf(At(i, drivenBy[i][n])), s)
               /\ \A c \in consumers' : IsExternal(c) =>
                    Precedes(RouteOf(At(i, drivenBy[i][n])), RouteOf(c))
  BY <1>1, <1>3, <1>4, <1>9 DEF MetInv, OrderInv
<1>. QED BY <1>1, <1>7, <1>10, <1>11, DrivenStays DEF MetInv

(* A consumer that is driven has met the event after all it met before.      *)
LEMMA Appended ==
    ASSUME TypeInv, UNCHANGED loaded, NEW c \in Binds, NEW x \in Driven, x.bind = c.bind,
           drivenBy' = [drivenBy EXCEPT ![c.engine] = Append(@, x)]
    PROVE  \E new \in Nat \ {0} :
             /\ \A n \in DOMAIN drivenBy[c.engine] : n < new
             /\ DOMAIN drivenBy'[c.engine] = DOMAIN drivenBy[c.engine] \cup {new}
             /\ drivenBy'[c.engine][new] = x
             /\ \A n \in DOMAIN drivenBy[c.engine] : drivenBy'[c.engine][n] = drivenBy[c.engine][n]
             /\ \A j \in Plan : j # c.engine => drivenBy'[j] = drivenBy[j] /\ Met(j)' = Met(j)
             /\ Met(c.engine)' = Met(c.engine) \cup {m \in {new} : IsExternal(c)}
<1>. DEFINE i == c.engine
            s == drivenBy[i]
            new == Len(s) + 1
<1>1. /\ i \in Plan /\ DOMAIN drivenBy = Plan /\ s \in Seq(Driven)
      /\ c = [engine |-> i, bind |-> c.bind]
  BY BindIs DEF TypeInv
<1>2. drivenBy'[i] = Append(s, x) /\ \A j \in Plan : j # i => drivenBy'[j] = drivenBy[j]
  BY <1>1
<1>3. /\ Len(s) \in Nat /\ DOMAIN s = 1 .. Len(s) /\ DOMAIN drivenBy'[i] = 1 .. Len(s) + 1
      /\ drivenBy'[i][Len(s) + 1] = x /\ \A n \in 1 .. Len(s) : drivenBy'[i][n] = s[n]
  <2>1. /\ Append(s, x) \in Seq(Driven) /\ Len(Append(s, x)) = Len(s) + 1
        /\ Append(s, x)[Len(s) + 1] = x /\ \A n \in 1 .. Len(s) : Append(s, x)[n] = s[n]
    BY <1>1, AppendProperties
  <2>. QED BY <1>1, <1>2, <2>1, LenProperties
<1>4. /\ new \in Nat \ {0} /\ \A n \in DOMAIN s : n < new
      /\ DOMAIN drivenBy'[i] = DOMAIN s \cup {new} /\ new \notin DOMAIN s
      /\ drivenBy'[i][new] = x /\ \A n \in DOMAIN s : drivenBy'[i][n] = s[n]
  BY ONLY <1>3
<1>. HIDE DEF s, new
<1>5. \A d : IsExternal(d)' <=> IsExternal(d)
  BY SameTables
<1>6. \A j \in Plan : j # i => Met(j)' = Met(j)
  BY <1>2, <1>5 DEF Met, At
<1>7. At(i, x) = c
  BY <1>1 DEF At
<1>8. \A n : n \in Met(i)' <=> n \in DOMAIN drivenBy'[i] /\ IsExternal(At(i, drivenBy'[i][n]))
  BY <1>5 DEF Met, At
<1>9. \A n : n \in Met(i) <=> n \in DOMAIN s /\ IsExternal(At(i, s[n]))
  BY DEF Met, s
<1>10. Met(i)' = Met(i) \cup {m \in {new} : IsExternal(c)}
  BY <1>4, <1>7, <1>8, <1>9
<1>. QED BY <1>2, <1>4, <1>6, <1>10 DEF s

(* The stages of a pipeline meet no line.                                    *)
LEMMA TurnPiped ==
    ASSUME TypeInv, ControlInv, MetInv, NEW c, Turn(c), ~ IsExternal(c)
    PROVE  MetInv'
<1>1. /\ c \in consumers /\ consumers' = consumers \ {c} /\ UNCHANGED loaded
      /\ UNCHANGED << phase, line, routes, current >> /\ c \in Binds /\ lines' = lines
  BY DEF Turn, TypeInv, loaded
<1>2. \A d \in consumers : ~ IsExternal(d)
  BY <1>1 DEF MetInv, RoutesInv
<1>3. /\ Plan' = Plan /\ \A d : IsExternal(d)' <=> IsExternal(d)
      /\ \A n : \A d : Meets(d, n)' <=> Meets(d, n)
      /\ \A d : RouteOf(d)' = RouteOf(d)
      /\ \A i, d, e : Earlier(i, d, e)' <=> Earlier(i, d, e)
      /\ \A s : EventRoutes(s)' = EventRoutes(s)
  BY <1>1, SameTables, SameMeets
<1>4. RoutesInv'
  BY <1>1, <1>2, <1>3 DEF MetInv, RoutesInv
<1>5. \A d \in Binds : IsExternal(d) => (Waiting(d)' <=> Waiting(d))
  BY <1>1, <1>2 DEF Waiting
<1>6. \A n : \A d \in Binds : Meets(d, n) => IsExternal(d)
  BY DEF Meets
<1>7. line' \in Nat /\ line' = line
  BY <1>1 DEF TypeInv
<1>8. \A i \in Plan : Due(i)' = Due(i)
  BY <1>1, <1>5, <1>6, <1>7, DueStays
<1>9. \A i \in Plan : Met(i)' = Met(i) /\ \A n \in Met(i) : drivenBy'[i][n] = drivenBy[i][n]
  <2>1. CASE UNCHANGED drivenBy
    BY <1>3, <2>1 DEF Met, At
  <2>2. CASE ~ UNCHANGED drivenBy
    <3>. DEFINE x == [line |-> current.line, bind |-> c.bind]
    <3>1. drivenBy' = [drivenBy EXCEPT ![c.engine] = Append(@, x)]
      BY <2>2 DEF Turn
    <3>2. x \in Driven /\ x.bind = c.bind
      BY <1>1, BindIs DEF TypeInv, Driven
    <3>. HIDE DEF x
    <3>3. /\ \A n \in DOMAIN drivenBy[c.engine] : drivenBy'[c.engine][n] = drivenBy[c.engine][n]
          /\ \A j \in Plan : j # c.engine => drivenBy'[j] = drivenBy[j] /\ Met(j)' = Met(j)
          /\ Met(c.engine)' = Met(c.engine)
      <4>1. PICK new \in Nat \ {0} :
              /\ \A n \in DOMAIN drivenBy[c.engine] : drivenBy'[c.engine][n] = drivenBy[c.engine][n]
              /\ \A j \in Plan : j # c.engine => drivenBy'[j] = drivenBy[j] /\ Met(j)' = Met(j)
              /\ Met(c.engine)' = Met(c.engine) \cup {m \in {new} : IsExternal(c)}
        BY <1>1, <3>1, <3>2, Appended
      <4>2. {m \in {new} : IsExternal(c)} = {}
        OBVIOUS
      <4>. QED BY <4>1, <4>2
    <3>. QED BY <3>3 DEF Met
  <2>. QED BY <2>1, <2>2
<1>10. DrivenInv'
  <2>1. \A i \in Plan : {drivenBy'[i][n] : n \in Met(i)'} = {drivenBy[i][n] : n \in Met(i)}
    BY <1>9
  <2>. QED BY <1>3, <1>8, <2>1 DEF MetInv, DrivenInv
<1>11. OrderInv'
  <2>1. ASSUME NEW i \in Plan, NEW m \in Met(i), NEW n \in Met(i), m < n
        PROVE  Earlier(i, drivenBy'[i][m], drivenBy'[i][n])
    BY <1>9, <2>1 DEF MetInv, OrderInv
  <2>2. ASSUME NEW i \in Plan, NEW n \in Met(i), drivenBy'[i][n].line = line
        PROVE  \A r \in routes : Precedes(RouteOf(At(i, drivenBy'[i][n])), r)
    BY <1>9, <2>2 DEF MetInv, OrderInv
  <2>3. \A i, n : RouteOf(At(i, drivenBy[i][n]))' = RouteOf(At(i, drivenBy'[i][n]))
    BY <1>3 DEF At
  <2>4. \A d \in consumers' : ~ IsExternal(d)'
    BY <1>1, <1>2, <1>3
  <2>5. \A i \in Plan : \A m, n \in Met(i)' : m < n => Earlier(i, drivenBy[i][m], drivenBy[i][n])'
    BY <1>3, <1>9, <2>1
  <2>6. \A i \in Plan' : \A n \in Met(i)' : drivenBy'[i][n].line = line' =>
          \A r \in routes' : Precedes(RouteOf(At(i, drivenBy[i][n]))', r)
    BY <1>1, <1>3, <1>9, <2>2, <2>3
  <2>. QED BY <1>3, <2>4, <2>5, <2>6 DEF OrderInv
<1>. QED BY <1>4, <1>10, <1>11 DEF MetInv

(* A bind of a window has its turn for the line.                             *)
LEMMA TurnExternal ==
    ASSUME TypeInv, ControlInv, MetInv, NEW c, Turn(c), IsExternal(c)
    PROVE  MetInv'
<1>1. /\ c \in consumers /\ consumers' = consumers \ {c} /\ UNCHANGED loaded
      /\ UNCHANGED << phase, line, routes, current >> /\ c \in Binds /\ lines' = lines
  BY DEF Turn, TypeInv, loaded
<1>2. /\ consumers = {c} /\ phase = "read"
      /\ line # 0 /\ lines[line].type = "event" /\ current = JsonToEvent(lines[line])
      /\ RouteOf(c) \in EventRoutes(lines[line].stream)
      /\ \A r \in routes : Precedes(RouteOf(c), r)
  BY <1>1 DEF MetInv, RoutesInv
<1>3. /\ Plan' = Plan /\ \A d : IsExternal(d)' <=> IsExternal(d)
      /\ \A n : \A d : Meets(d, n)' <=> Meets(d, n)
      /\ \A d : RouteOf(d)' = RouteOf(d)
      /\ \A i, d, e : Earlier(i, d, e)' <=> Earlier(i, d, e)
      /\ \A s : EventRoutes(s)' = EventRoutes(s)
  BY <1>1, SameTables, SameMeets
<1>4. consumers' = {}
  BY <1>1, <1>2
<1>5. RoutesInv'
  BY <1>1, <1>3, <1>4 DEF MetInv, RoutesInv
<1>6. Meets(c, line) <=> Accepts(c, current)
  BY <1>1, <1>2, MeetsIs DEF Accepts, JsonToEvent
<1>7. \A r \in routes : r.to # c
  <2>1. ASSUME NEW r \in routes, r.to = c PROVE FALSE
    <3>1. r \in EventRoutes(lines[line].stream) /\ r = RouteOf(r.to)
      BY RouteIs DEF MetInv, RoutesInv
    <3>. QED BY <1>2, <2>1, <3>1, NotItself
  <2>. QED BY <2>1
<1>8. /\ Waiting(c) /\ ~ Waiting(c)'
      /\ \A d : d # c => (Waiting(d)' <=> Waiting(d))
  BY <1>1, <1>2, <1>4, <1>7 DEF Waiting
<1>9. line \in Nat /\ line' = line /\ plans' = plans /\ current.line = line
  BY <1>1, <1>2 DEF TypeInv, loaded, JsonToEvent
<1>. DEFINE x == [line |-> line, bind |-> c.bind]
            k == c.engine
<1>10. /\ x \in Driven /\ x.line = line /\ x.bind = c.bind /\ At(k, x) = c /\ k \in Plan
       /\ x \in [line : 1 .. line, bind : DOMAIN plans[k].binds]
  BY <1>1, <1>2, <1>9, BindIs DEF TypeInv, Driven, At
<1>11. ASSUME NEW i \in Plan, NEW d
       PROVE  d \in Due(i)' <=> d \in Due(i) \/ (i = k /\ d = x /\ Meets(c, line))
  <2>1. d \in Due(i) <=>
          /\ d \in [line : 1 .. line, bind : DOMAIN plans[i].binds]
          /\ Meets(At(i, d), d.line) /\ (d.line = line => ~ Waiting(At(i, d)))
    BY DEF Due
  <2>2. d \in Due(i)' <=>
          /\ d \in [line : 1 .. line, bind : DOMAIN plans[i].binds]
          /\ Meets(At(i, d), d.line) /\ (d.line = line => ~ Waiting(At(i, d))')
    BY <1>3, <1>9 DEF Due, At
  <2>3. CASE i = k /\ d = x
    BY <1>8, <1>10, <2>1, <2>2, <2>3 DEF At
  <2>4. CASE ~ (i = k /\ d = x)
    <3>1. d \in [line : 1 .. line, bind : DOMAIN plans[i].binds] /\ d.line = line => At(i, d) # c
      <4>1. SUFFICES ASSUME d \in [line : 1 .. line, bind : DOMAIN plans[i].binds], d.line = line,
                            At(i, d) = c
                     PROVE  FALSE
        OBVIOUS
      <4>2. d = [line |-> d.line, bind |-> d.bind]
        BY <4>1
      <4>3. i = c.engine /\ d.bind = c.bind
        BY <4>1 DEF At
      <4>. QED BY <2>4, <4>1, <4>2, <4>3
    <3>2. d \in [line : 1 .. line, bind : DOMAIN plans[i].binds] /\ d.line = line =>
            (Waiting(At(i, d))' <=> Waiting(At(i, d)))
      BY <1>8, <3>1 DEF At
    <3>. QED BY <2>1, <2>2, <2>4, <3>2
  <2>. QED BY <2>3, <2>4
<1>12. ASSUME NEW i \in Plan
       PROVE  {drivenBy[i][n] : n \in Met(i)} = Due(i)
  BY DEF MetInv, DrivenInv
<1>13. CASE ~ Accepts(c, current)
  <2>1. UNCHANGED drivenBy /\ ~ Meets(c, line)
    BY <1>6, <1>13 DEF Turn
  <2>2. \A i \in Plan : Due(i)' = Due(i)
    BY <1>11, <2>1
  <2>3. \A i \in Plan : \A n \in Met(i) : drivenBy[i][n].line = line' =>
               /\ \A r \in routes' : Precedes(RouteOf(At(i, drivenBy[i][n])), r)
               /\ \A d \in consumers' : IsExternal(d) =>
                    Precedes(RouteOf(At(i, drivenBy[i][n])), RouteOf(d))
    BY <1>1, <1>4 DEF MetInv, OrderInv
  <2>4. MetInv => DrivenInv /\ OrderInv
    BY DEF MetInv
  <2>. QED BY <1>1, <1>5, <2>1, <2>2, <2>3, <2>4, DrivenStays DEF MetInv
<1>14. CASE Accepts(c, current)
  <2>1. drivenBy' = [drivenBy EXCEPT ![c.engine] = Append(@, x)]
    BY <1>9, <1>14 DEF Turn
  <2>. HIDE DEF x
  <2>2. PICK new \in Nat \ {0} :
             /\ \A n \in DOMAIN drivenBy[c.engine] : n < new
             /\ DOMAIN drivenBy'[c.engine] = DOMAIN drivenBy[c.engine] \cup {new}
             /\ drivenBy'[c.engine][new] = x
             /\ \A n \in DOMAIN drivenBy[c.engine] : drivenBy'[c.engine][n] = drivenBy[c.engine][n]
             /\ \A j \in Plan : j # c.engine => drivenBy'[j] = drivenBy[j] /\ Met(j)' = Met(j)
             /\ Met(c.engine)' = Met(c.engine) \cup {m \in {new} : IsExternal(c)}
    BY <1>1, <1>10, <2>1, Appended
  <2>3. Met(k)' = Met(k) \cup {new} /\ drivenBy'[k][new] = x
    BY <2>2
  <2>4. \A n \in Met(k) : drivenBy'[k][n] = drivenBy[k][n] /\ n < new
    BY <2>2 DEF Met
  <2>5. \A j \in Plan : j # k => Met(j)' = Met(j) /\ drivenBy'[j] = drivenBy[j]
    BY <2>2
  <2>6. DrivenInv'
    <3>1. ASSUME NEW i \in Plan
          PROVE  {drivenBy'[i][n] : n \in Met(i)'} = Due(i)'
      <4>1. CASE i # k
        <5>1. Due(i)' = Due(i)
          BY <1>11, <4>1
        <5>. QED BY <1>12, <2>5, <4>1, <5>1
      <4>2. CASE i = k
        <5>1. Due(k)' = Due(k) \cup {x}
          BY <1>6, <1>10, <1>11, <1>14
        <5>2. {drivenBy'[k][n] : n \in Met(k)'} = {drivenBy[k][n] : n \in Met(k)} \cup {x}
          BY <2>3, <2>4
        <5>. QED BY <1>10, <1>12, <4>2, <5>1, <5>2
      <4>. QED BY <4>1, <4>2
    <3>. QED BY <1>3, <3>1 DEF DrivenInv
  <2>7. ASSUME NEW i \in Plan, NEW m \in Met(i)', NEW n \in Met(i)', m < n
        PROVE  Earlier(i, drivenBy'[i][m], drivenBy'[i][n])
    <3>1. CASE i # k
      BY <2>5, <2>7, <3>1 DEF MetInv, OrderInv
    <3>2. CASE i = k /\ n # new
      <4>1. n \in Met(k) /\ m \in Met(k)
        <5>1. n \in Met(k)
          BY <2>3, <3>2
        <5>2. m # new
          <6>1. n \in Nat /\ new \in Nat /\ n < new
            BY <2>4, <5>1, <1>10, LenProperties DEF Met, TypeInv
          <6>. QED BY ONLY <2>7, <6>1
        <5>. QED BY <2>3, <3>2, <5>1, <5>2
      <4>. QED BY <2>4, <2>7, <3>2, <4>1, <1>10 DEF MetInv, OrderInv
    <3>3. CASE i = k /\ n = new
      <4>1. m \in Met(k)
        BY <2>2, <2>3, <2>7, <3>3
      <4>2. drivenBy[k][m] \in Due(k)
        BY <1>10, <1>12, <4>1
      <4>3. drivenBy[k][m].line \in 1 .. line
        BY <4>2 DEF Due
      <4>4. drivenBy[k][m].line = line =>
              Precedes(RouteOf(At(k, drivenBy[k][m])), RouteOf(At(k, x)))
        BY <1>1, <1>10, <4>1 DEF MetInv, OrderInv
      <4>. QED BY <1>9, <1>10, <2>3, <2>4, <3>3, <4>1, <4>3, <4>4 DEF Earlier
    <3>. QED BY <3>1, <3>2, <3>3
  <2>8. ASSUME NEW i \in Plan, NEW n \in Met(i)', drivenBy'[i][n].line = line, NEW r \in routes
        PROVE  Precedes(RouteOf(At(i, drivenBy'[i][n])), r)
    <3>1. CASE n \in Met(i) /\ drivenBy'[i][n] = drivenBy[i][n]
      BY <2>8, <3>1 DEF MetInv, OrderInv
    <3>2. CASE i = k /\ n = new
      BY <1>2, <1>10, <2>3, <3>2
    <3>. QED BY <2>3, <2>4, <2>5, <3>1, <3>2
  <2>9. OrderInv'
    <3>1. \A i, n : RouteOf(At(i, drivenBy[i][n]))' = RouteOf(At(i, drivenBy'[i][n]))
      BY <1>3 DEF At
    <3>2. \A i \in Plan : \A m, n \in Met(i)' : m < n => Earlier(i, drivenBy[i][m], drivenBy[i][n])'
      BY <1>3, <2>7
    <3>3. \A i \in Plan' : \A n \in Met(i)' : drivenBy'[i][n].line = line' =>
            \A r \in routes' : Precedes(RouteOf(At(i, drivenBy[i][n]))', r)
      BY <1>1, <1>3, <2>8, <3>1
    <3>. QED BY <1>3, <1>4, <3>2, <3>3 DEF OrderInv
  <2>. QED BY <1>5, <2>6, <2>9 DEF MetInv
<1>. QED BY <1>13, <1>14

LEMMA NextMet ==
    ASSUME TypeInv, ControlInv, AliasesDiffer, MetInv, ReplayNext
    PROVE  MetInv'
<1>1. CASE RouteOnce
  BY <1>1, RouteOnceIs, TurnPiped, TurnExternal
<1>2. CASE ScanEngine \/ CloseEngine
  <2>1. /\ UNCHANGED << loaded, line, phase, routes, drivenBy >>
        /\ consumers = {} /\ consumers' = {}
    BY <1>2 DEF ScanEngine, CloseEngine, Close, Idle
  <2>. QED BY <2>1, QuietMet
<1>3. CASE EvaluateClose
  <2>1. UNCHANGED << loaded, line, phase, routes, drivenBy >> /\ consumers = {} /\ consumers' = {}
    BY <1>3, EvaluateIs DEF ControlInv
  <2>. QED BY <2>1, QuietMet
<1>4. CASE TakeQueued
  <2>1. /\ UNCHANGED << loaded, line, phase, routes, drivenBy >>
        /\ consumers = {} /\ consumers' = Consumers(Head(queue).route) /\ queue # << >>
    BY <1>4 DEF TakeQueued
  <2>2. 1 \in DOMAIN queue /\ Head(queue) = queue[1]
    <3>1. queue \in Seq({queue[n] : n \in DOMAIN queue})
      BY DEF TypeInv
    <3>. QED BY <2>1, <3>1, QueueTail
  <2>3. \E i \in Plan : Head(queue).route = Internal(plans[i].target)
    BY <2>2 DEF TypeInv
  <2>4. \A c \in consumers' : ~ IsExternal(c)
    BY <2>1, <2>3, PipedConsumers
  <2>. QED BY <2>1, <2>4, QuietMet
<1>. QED BY <1>1, <1>2, <1>3, <1>4, TakeRouteMet, MoveOnMet DEF ReplayNext, MoveOn

LEMMA LoadMet ==
    ASSUME TypeInv, ControlInv, NEW file \in DOMAIN RuleFiles, Load(file)
    PROVE  MetInv'
<1>1. /\ line' = 0 /\ Idle(phase)' /\ drivenBy' = [i \in DOMAIN plans' |-> << >>]
  BY LoadControl
<1>2. routes' = {} /\ consumers' = {}
  BY <1>1 DEF Idle
<1>3. \A i \in Plan' : Met(i)' = {}
  BY <1>1, EmptySeq DEF Met, Plan
<1>4. \A i \in Plan' : Due(i)' = {}
  BY <1>1 DEF Due
<1>. QED BY <1>1, <1>2, <1>3, <1>4 DEF MetInv, RoutesInv, DrivenInv, OrderInv

(* Between two lines every bind has had its turn.                            *)
LEMMA MetSuffices ==
    ASSUME TypeInv, ControlInv, MetInv
    PROVE  RoutedAsBound
<1>. SUFFICES ASSUME Idle("read") \/ phase = "done", NEW i \in Plan
              PROVE  /\ {drivenBy[i][n] : n \in Met(i)} =
                           {d \in [line : 1 .. line, bind : DOMAIN plans[i].binds] :
                                Meets(At(i, d), d.line)}
                     /\ \A m, n \in Met(i) : m < n => Earlier(i, drivenBy[i][m], drivenBy[i][n])
  BY DEF RoutedAsBound, Met, At, Earlier, RouteOf
<1>1. routes = {} /\ consumers = {} /\ phase \notin {"scan", "route"}
  BY DEF ControlInv, Idle
<1>2. \A c : ~ Waiting(c)
  BY <1>1 DEF Waiting
<1>. QED BY <1>2 DEF MetInv, DrivenInv, OrderInv, Due

-----------------------------------------------------------------------------
(* The invariant holds throughout.                                           *)

LEMMA InitIInv ==
    ASSUME InitReplay
    PROVE  IInv
<1>1. TypeInv /\ ControlInv
  BY InitControl
<1>2. phase = "load" /\ plans = << >> /\ routes = {} /\ consumers = {}
  BY DEF InitReplay, Start
<1>3. Plan = {}
  BY <1>2, EmptySeq DEF Plan
<1>4. FlowInv
  BY <1>2 DEF FlowInv
<1>5. MetInv
  BY <1>2, <1>3 DEF MetInv, RoutesInv, DrivenInv, OrderInv
<1>. QED BY <1>1, <1>4, <1>5 DEF IInv

LEMMA NextIInv ==
    ASSUME IInv, [(\E file \in DOMAIN RuleFiles : Load(file)) \/ ReplayNext]_replayVars
    PROVE  IInv'
<1>1. TypeInv /\ ControlInv
  BY DEF IInv
<1>2. CASE \E file \in DOMAIN RuleFiles : Load(file)
  BY <1>1, <1>2, LoadControl, LoadFlow, LoadMet DEF IInv
<1>3. CASE ReplayNext
  <2>1. UNCHANGED loaded
    BY <1>3, RouteOnceIs, EvaluateIs
       DEF ReplayNext, SkipLine, ReadLine, ScanEngine, Scanned, RouteEvent, TakeRoute, TakeQueued,
           Turn, EndOfFile, CloseEngine, Close, Finish
  <2>2. (StagesFollow' <=> StagesFollow) /\ (AliasesDiffer' <=> AliasesDiffer)
    BY <2>1, SameTables
  <2>. QED BY <1>1, <1>3, <2>2, NextControl, NextFlow, NextMet DEF IInv
<1>4. CASE UNCHANGED replayVars
  <2>1. /\ UNCHANGED loaded /\ UNCHANGED << phase, line, watermark, engine, closing, routes >>
        /\ UNCHANGED << queue, current, consumers, open, drivenBy >>
    BY <1>4 DEF replayVars
  <2>2. lines' = lines /\ plans' = plans /\ Plan' = Plan /\ Binds' = Binds
    BY <2>1, SameTables
  <2>3. TypeInv' <=> TypeInv
    BY <2>1, <2>2 DEF TypeInv, AllRoutes, Internal
  <2>4. ControlInv' <=> ControlInv
    BY <2>1, <2>2 DEF ControlInv, Idle
  <2>5. FlowInv' <=> FlowInv
    BY <2>1, <2>2, SameTables DEF FlowInv
  <2>6. (StagesFollow' <=> StagesFollow) /\ (AliasesDiffer' <=> AliasesDiffer)
    BY <2>1, SameTables
  <2>7. RoutesInv' <=> RoutesInv
    BY <2>1, <2>2 DEF RoutesInv, IsExternal, BindOf, JsonToEvent, RouteOf, WindowAt, EventRoutes
  <2>8. DrivenInv' <=> DrivenInv
    BY <2>1, <2>2 DEF DrivenInv, Met, Due, Waiting, Meets, IsExternal, BindOf, At
  <2>9. OrderInv' <=> OrderInv
    BY <2>1, <2>2 DEF OrderInv, Met, Earlier, IsExternal, BindOf, At, RouteOf, WindowAt
  <2>. QED BY <2>3, <2>4, <2>5, <2>6, <2>7, <2>8, <2>9 DEF IInv, MetInv
<1>. QED BY <1>2, <1>3, <1>4

(* In every state of the event loop the types and the phases are right, what *)
(* is under way concerns engines still to come if the stages follow each     *)
(* other, and what was met is what was due if no alias is shared.            *)
THEOREM ReplayInvariant == ReplaySpec => []IInv
<1>1. InitReplay => IInv
  BY InitIInv
<1>2. IInv /\ [(\E file \in DOMAIN RuleFiles : Load(file)) \/ ReplayNext]_replayVars => IInv'
  BY NextIInv
<1>. QED BY <1>1, <1>2, PTL DEF ReplaySpec

(* The scan before a line leaves no window open that its time has passed,    *)
(* and the end of the file leaves none at all, whatever the stages open in   *)
(* one another (run_timeout_scan_for_engine and the loop at                  *)
(* cmd_replay.rs:345), provided every stage is compiled after those that     *)
(* feed it.                                                                  *)
THEOREM NothingStaysOpen == ReplaySpec => [](StagesFollow => NothingLeftOpen)
<1>1. IInv => (StagesFollow => NothingLeftOpen)
  BY FlowSuffices DEF IInv
<1>. QED BY <1>1, ReplayInvariant, PTL

(* Every rule meets the lines its binds say, once for each bind and in       *)
(* order, whatever fails in another rule, provided no two binds share an     *)
(* alias: routes carry the alias alone (resolve_event_routes).               *)
THEOREM RoutingExact == ReplaySpec => [](AliasesDiffer => RoutedAsBound)
<1>1. IInv => (AliasesDiffer => RoutedAsBound)
  BY MetSuffices DEF IInv
<1>. QED BY <1>1, ReplayInvariant, PTL

=============================================================================
