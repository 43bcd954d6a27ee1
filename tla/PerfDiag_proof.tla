--------------------------- MODULE PerfDiag_proof ---------------------------
(***************************************************************************)
(* What PerfDiag guarantees for any stages, frames, row counts and rounds: *)
(* every rate is computed from the answer to the send it follows.          *)
(*                                                                         *)
(* The driver finds an answer by counting the records of its stage and row *)
(* count.  That is the right one if the daemon starts on an empty file     *)
(* before each session, and if no two entries of --n-list are sent as the  *)
(* same number of rows; the README says what happens without.              *)
(***************************************************************************)
EXTENDS PerfDiag, FiniteSetTheorems, SequenceTheorems, TLAPS

DistinctPrefixes ==
    \A a, b \in 1 .. Len(NList) : SentRows(NList[a]) = SentRows(NList[b]) => a = b

(* Where a file has an answer for this stage and number of rows. *)
Answers(file, stage, rows) ==
    {i \in DOMAIN file : IsSentinel(file[i], stage, rows)}

IsSent(i) == sfile[i].type = "sentinel"

Message == [round : 0 .. LastStage, n : {SentRows(NList[j]) : j \in 1 .. Len(NList)},
            start : Nat]

Elements(s) == {s[i] : i \in DOMAIN s}

FileOK == sfile \in Seq(Elements(sfile)) /\ used \in Seq(Elements(used))

EngineOK ==
    engine \in [stage : 0 .. LastStage, inbox : Seq(Message), due : BOOLEAN]

DriverOK ==
    /\ pc \in {"idle", "stage", "send", "sentinel", "report"}
    /\ k \in 0 .. LastStage /\ ni \in 1 .. Len(NList) /\ r \in 0 .. Rounds - 1
    /\ t0 \in Nat /\ fresh \in BOOLEAN

TypeOK == FileOK /\ EngineOK /\ DriverOK

(* The engine leaves a stage only after a sentinel of that stage, and is   *)
(* never asked for a stage it has not reached.                             *)
EngineInv ==
    /\ \A i \in DOMAIN sfile :
         sfile[i].type = "stage" => sfile[i].current \in 0 .. engine.stage
    /\ \A s \in 0 .. engine.stage - 1 :
         \E i \in DOMAIN sfile : IsSent(i) /\ sfile[i].round = s
    /\ engine.due =>
         /\ engine.stage < LastStage
         /\ \E i \in DOMAIN sfile : IsSent(i) /\ sfile[i].round = engine.stage
    /\ \A i \in DOMAIN engine.inbox : engine.inbox[i].round <= engine.stage
    /\ pc \in {"send", "sentinel"} => k <= engine.stage

StageInv == TypeOK /\ EngineInv /\ OwnStage

(* The points (stage, row count) that the session has yet to measure. *)
Later(stage, j) == stage > k \/ (stage = k /\ j > ni)

(* A daemon that has just started; no later point has an answer yet. *)
StartInv ==
    /\ fresh => /\ pc = "idle" /\ Len(engine.inbox) = 0
                /\ \A i \in DOMAIN sfile : ~IsSent(i)
    /\ pc = "stage" => ni = 1 /\ r = 0
    /\ pc \in {"stage", "send", "sentinel"} =>
         \A stage \in 0 .. LastStage, j \in 1 .. Len(NList) :
           Later(stage, j) => Answers(sfile, stage, SentRows(NList[j])) = {}

(* How many answers the file holds for the current point.  While the       *)
(* driver waits for one, it is on its way or it is the last of them.       *)
OnItsWay ==
    /\ Len(engine.inbox) = 1
    /\ engine.inbox[1] = [round |-> k, n |-> Sent, start |-> t0]
    /\ Cardinality(Answers(sfile, k, Sent)) = r

LastAnswer(last) ==
    /\ last \in Answers(sfile, k, Sent)
    /\ sfile[last].start = t0
    /\ \A i \in Answers(sfile, k, Sent) : i <= last
    /\ Cardinality(Answers(sfile, k, Sent) \ {last}) = r

CountInv ==
    /\ pc \in {"stage", "send"} =>
         Len(engine.inbox) = 0 /\ Cardinality(Answers(sfile, k, Sent)) = r
    /\ pc = "sentinel" =>
         \/ OnItsWay
         \/ Len(engine.inbox) = 0 /\ \E last \in DOMAIN sfile : LastAnswer(last)

AnswerInv == StartInv /\ CountInv /\ OwnAnswer

IInv == StageInv /\ AnswerInv

-----------------------------------------------------------------------------
(* Sequences. *)

LEMMA AppendFacts ==
    ASSUME NEW s, NEW e, s \in Seq(Elements(s))
    PROVE  /\ Append(s, e) \in Seq(Elements(Append(s, e)))
           /\ Len(s) \in Nat /\ DOMAIN s = 1 .. Len(s)
           /\ DOMAIN Append(s, e) = 1 .. Len(s) + 1
           /\ \A i \in 1 .. Len(s) : Append(s, e)[i] = s[i]
           /\ Append(s, e)[Len(s) + 1] = e
<1>. DEFINE T == Elements(s) \cup {e}
<1>1. s \in Seq(T)
  BY SeqMonotonic
<1>2. Append(s, e) \in Seq(T)
  BY <1>1, AppendProperties
<1>3. /\ Len(Append(s, e)) = Len(s) + 1
      /\ \A i \in 1 .. Len(s) : Append(s, e)[i] = s[i]
      /\ Append(s, e)[Len(s) + 1] = e
  BY <1>1, AppendProperties
<1>4. /\ Len(s) \in Nat /\ DOMAIN s = 1 .. Len(s)
      /\ DOMAIN Append(s, e) = 1 .. Len(s) + 1
  BY <1>1, <1>2, <1>3
<1>5. Append(s, e) \in Seq(Elements(Append(s, e)))
  <2>. DEFINE u == Append(s, e)
  <2>1. Len(u) \in Nat /\ u \in [1 .. Len(u) -> T]
    BY <1>2, LenProperties
  <2>2. u \in [1 .. Len(u) -> Elements(u)]
    BY <2>1 DEF Elements
  <2>3. Seq(Elements(u)) = UNION {[1 .. n -> Elements(u)] : n \in Nat}
    BY SeqDef, Zenon
  <2>. HIDE DEF u
  <2>4. u \in Seq(Elements(u))
    BY <2>1, <2>2, <2>3, Zenon
  <2>. QED BY <2>4 DEF u
<1>. QED BY <1>3, <1>4, <1>5

LEMMA Lengths ==
    /\ Len(NList) \in Nat \ {0} /\ LastStage \in Nat /\ Rounds \in Nat \ {0}
<1>1. Len(NList) \in Nat \ {0} /\ Rounds \in Nat \ {0}
  BY RunAssumption, EmptySeq
<1>2. Len(Stages) \in Nat \ {0}
  BY RunAssumption, EmptySeq
<1>. QED BY <1>1, <1>2 DEF LastStage

-----------------------------------------------------------------------------
(* The engine is under the stage it reported: a step of the driver or the  *)
(* operator leaves it and the file alone, three steps do not.              *)

LEMMA FileKept ==
    ASSUME EngineInv, OwnStage, UNCHANGED << sfile, engine >>,
           pc' \in {"send", "sentinel"} => k' <= engine.stage
    PROVE  EngineInv' /\ OwnStage'
BY DEF EngineInv, OwnStage, IsSent

LEMMA BeginKeeps ==
    ASSUME StageInv, NEW m \in Modes, Begin(m)
    PROVE  StageInv'
<1>1. TypeOK'
  <2>1. << >> \in Seq(Elements(<< >>))
    BY EmptySeq
  <2>2. used' \in Seq(Elements(used'))
    BY <2>1, Zenon DEF Begin
  <2>3. FileOK' /\ EngineOK'
    BY <2>2 DEF StageInv, TypeOK, FileOK, EngineOK, Begin
  <2>4. DriverOK'
    <3>1. 0 \in 0 .. LastStage /\ 1 \in 1 .. Len(NList) /\ 0 \in 0 .. Rounds - 1
      BY Lengths
    <3>2. t0 \in Nat
      BY DEF StageInv, TypeOK, DriverOK
    <3>. QED BY <3>1, <3>2 DEF DriverOK, Begin
  <2>. QED BY <2>3, <2>4 DEF TypeOK
<1>2. EngineInv' /\ OwnStage'
  BY FileKept DEF StageInv, Begin
<1>. QED BY <1>1, <1>2 DEF StageInv

LEMMA StageAppliedKeeps ==
    ASSUME StageInv, StageApplied
    PROVE  StageInv'
<1>1. TypeOK'
  <2>1. FileOK' /\ EngineOK'
    BY DEF StageInv, TypeOK, FileOK, EngineOK, StageApplied
  <2>2. DriverOK'
    BY Lengths DEF StageInv, TypeOK, DriverOK, StageApplied
  <2>. QED BY <2>1, <2>2 DEF TypeOK
<1>2. k <= engine.stage
  <2>1. \E i \in DOMAIN sfile : IsStage(sfile[i], k)
    BY DEF StageApplied
  <2>. QED BY <2>1 DEF StageInv, TypeOK, DriverOK, EngineInv, IsStage
<1>3. EngineInv' /\ OwnStage'
  BY <1>2, FileKept DEF StageInv, StageApplied
<1>. QED BY <1>1, <1>3 DEF StageInv

(* The steps that end a session, and those that do not concern it. *)
LEMMA OthersKeep ==
    ASSUME StageInv,
           \/ StageTimeout \/ SendBreaks \/ SentinelBad \/ SentinelTimeout
           \/ Report \/ EditRules \/ UNCHANGED vars
    PROVE  StageInv'
<1>1. TypeOK'
  BY DEF StageInv, TypeOK, FileOK, EngineOK, DriverOK, StageTimeout,
         SendBreaks, SentinelBad, SentinelTimeout, Abort, Report, EditRules,
         vars, driver
<1>2. /\ UNCHANGED << sfile, engine >>
      /\ pc' \in {"send", "sentinel"} => k' <= engine.stage
  BY DEF StageInv, EngineInv, StageTimeout, SendBreaks, SentinelBad,
         SentinelTimeout, Abort, Report, EditRules, vars, driver
<1>. QED BY <1>1, <1>2, FileKept DEF StageInv

(* Where the driver goes when it has read an answer. *)
LEMMA ReadMoves ==
    ASSUME SentinelRead
    PROVE  /\ pc = "sentinel"
           /\ UNCHANGED << sfile, engine, fresh, t0 >>
           /\ \E i \in Matched(r) : \E eps :
                used' = Append(used, [k |-> k, ni |-> ni, t0 |-> t0,
                                      start |-> sfile[i].start, eps |-> eps])
           /\ \/ /\ r + 1 < Rounds /\ r' = r + 1
                 /\ pc' = "send" /\ k' = k /\ ni' = ni
              \/ /\ r' = 0 /\ ni < Len(NList)
                 /\ pc' = "send" /\ k' = k /\ ni' = ni + 1
              \/ /\ r' = 0 /\ k < LastStage
                 /\ pc' = "stage" /\ k' = k + 1 /\ ni' = 1
              \/ /\ r' = 0 /\ pc' = "report" /\ k' = k /\ ni' = 1
BY DEF SentinelRead, NextPoint

LEMMA SentinelReadKeeps ==
    ASSUME StageInv, SentinelRead
    PROVE  StageInv'
<1>1. /\ used' \in Seq(Elements(used'))
      /\ k' \in 0 .. LastStage /\ ni' \in 1 .. Len(NList) /\ r' \in 0 .. Rounds - 1
      /\ pc' \in {"stage", "send", "report"}
      /\ pc' = "send" => k' = k
  <2>1. PICK e : used' = Append(used, e)
    BY ReadMoves
  <2>2. used' \in Seq(Elements(used'))
    BY <2>1, AppendFacts DEF StageInv, TypeOK, FileOK
  <2>3. /\ k' \in 0 .. LastStage /\ ni' \in 1 .. Len(NList)
        /\ r' \in 0 .. Rounds - 1
        /\ pc' \in {"stage", "send", "report"} /\ (pc' = "send" => k' = k)
    BY Lengths, ReadMoves DEF StageInv, TypeOK, DriverOK
  <2>. QED BY <2>2, <2>3
<1>2. TypeOK'
  BY <1>1, ReadMoves DEF StageInv, TypeOK, FileOK, EngineOK, DriverOK
<1>3. EngineInv' /\ OwnStage'
  BY <1>1, ReadMoves, FileKept DEF StageInv, EngineInv
<1>. QED BY <1>2, <1>3 DEF StageInv

LEMMA SendKeeps ==
    ASSUME StageInv, Send
    PROVE  StageInv'
<1>. DEFINE m == [round |-> k, n |-> Sent, start |-> t0 + 1]
<1>1. /\ m \in Message
      /\ engine.inbox \in Seq(Message)
      /\ engine' = [engine EXCEPT !.inbox = Append(engine.inbox, m)]
  <2>1. k \in 0 .. LastStage /\ ni \in 1 .. Len(NList) /\ t0 + 1 \in Nat
    BY DEF StageInv, TypeOK, DriverOK
  <2>2. m \in Message
    BY <2>1 DEF Message, Sent
  <2>. QED BY <2>2 DEF StageInv, TypeOK, EngineOK, Send
<1>2. /\ Append(engine.inbox, m) \in Seq(Message)
      /\ DOMAIN Append(engine.inbox, m) = 1 .. Len(engine.inbox) + 1
      /\ DOMAIN engine.inbox = 1 .. Len(engine.inbox)
      /\ Len(engine.inbox) \in Nat
      /\ \A i \in 1 .. Len(engine.inbox) :
           Append(engine.inbox, m)[i] = engine.inbox[i]
      /\ Append(engine.inbox, m)[Len(engine.inbox) + 1] = m
  BY <1>1, AppendProperties, LenProperties
<1>3. TypeOK'
  <2>1. FileOK' /\ DriverOK'
    BY DEF StageInv, TypeOK, FileOK, DriverOK, Send
  <2>. HIDE DEF m
  <2>2. EngineOK'
    BY <1>1, <1>2 DEF StageInv, TypeOK, EngineOK
  <2>. QED BY <2>1, <2>2 DEF TypeOK
<1>4. \A i \in DOMAIN engine'.inbox : engine'.inbox[i].round <= engine'.stage
  <2>1. engine'.inbox = Append(engine.inbox, m) /\ engine'.stage = engine.stage
    BY <1>1 DEF StageInv, TypeOK, EngineOK
  <2>2. k <= engine.stage /\ m.round = k
    BY DEF StageInv, EngineInv, Send
  <2>. HIDE DEF m
  <2>. QED BY <1>2, <2>1, <2>2 DEF StageInv, EngineInv
<1>5. EngineInv' /\ OwnStage'
  <2>1. /\ engine'.stage = engine.stage /\ engine'.due = engine.due
        /\ sfile' = sfile /\ k' = k /\ pc = "send"
    BY DEF StageInv, TypeOK, EngineOK, Send
  <2>. QED BY <1>4, <2>1 DEF StageInv, EngineInv, OwnStage, IsSent
<1>. QED BY <1>3, <1>5 DEF StageInv

EngineTyped ==
    /\ engine.stage \in Nat /\ engine.stage <= LastStage
    /\ engine.due \in BOOLEAN
    /\ engine.inbox \in Seq(Message)
    /\ Len(engine.inbox) \in Nat
    /\ DOMAIN engine.inbox = 1 .. Len(engine.inbox)
    /\ \A i \in 1 .. Len(engine.inbox) :
         /\ engine.inbox[i] \in Message
         /\ engine.inbox[i].round \in 0 .. engine.stage

LEMMA EngineFacts == ASSUME StageInv PROVE EngineTyped
<1>1. /\ engine.stage \in Nat /\ engine.stage <= LastStage
      /\ engine.due \in BOOLEAN
      /\ engine.inbox \in Seq(Message)
  BY Lengths DEF StageInv, TypeOK, EngineOK
<1>2. /\ Len(engine.inbox) \in Nat
      /\ DOMAIN engine.inbox = 1 .. Len(engine.inbox)
      /\ \A i \in 1 .. Len(engine.inbox) : engine.inbox[i] \in Message
  BY <1>1, LenProperties, ElementOfSeq
<1>3. \A i \in 1 .. Len(engine.inbox) : engine.inbox[i].round \in 0 .. engine.stage
  <2>1. \A i \in DOMAIN engine.inbox : engine.inbox[i].round <= engine.stage
    BY DEF StageInv, EngineInv
  <2>2. \A i \in 1 .. Len(engine.inbox) : engine.inbox[i].round \in Nat
    BY <1>2, Lengths DEF Message
  <2>. QED BY <1>1, <1>2, <2>1, <2>2
<1>. QED BY <1>1, <1>2, <1>3 DEF EngineTyped

(* A file that grows by one record. *)
Grows(rec) ==
    /\ sfile' \in Seq(Elements(sfile'))
    /\ Len(sfile) \in Nat /\ DOMAIN sfile = 1 .. Len(sfile)
    /\ DOMAIN sfile' = 1 .. Len(sfile) + 1
    /\ \A i \in 1 .. Len(sfile) : sfile'[i] = sfile[i]
    /\ sfile'[Len(sfile) + 1] = rec

(* What a connection's answer looks like, whatever time the engine took. *)
IsAnswer(rec, m) ==
    /\ rec.type = "sentinel" /\ rec.round = m.round /\ rec.n = m.n
    /\ rec.start = m.start /\ rec.under = engine.stage

EmitEffect ==
    /\ Len(engine.inbox) > 0
    /\ engine'.stage = engine.stage
    /\ engine'.inbox = Tail(engine.inbox)
    /\ engine'.due = (engine.due \/ (engine.inbox[1].round = engine.stage
                                       /\ engine.stage < LastStage))
    /\ UNCHANGED << fresh, pc, k, ni, r, t0, used >>

LEMMA Emitted ==
    ASSUME StageInv, EngineEmit
    PROVE  /\ \E rec : Grows(rec) /\ IsAnswer(rec, engine.inbox[1])
           /\ EmitEffect /\ EngineOK'
<1>1. engine.inbox \in Seq(Message) /\ engine.inbox # << >>
  BY DEF StageInv, TypeOK, EngineOK, EngineEmit
<1>2. Head(engine.inbox) = engine.inbox[1] /\ Len(engine.inbox) > 0
  BY <1>1
<1>3. \E rec : sfile' = Append(sfile, rec) /\ IsAnswer(rec, engine.inbox[1])
  BY <1>2 DEF EngineEmit, IsAnswer
<1>4. \E rec : Grows(rec) /\ IsAnswer(rec, engine.inbox[1])
  BY <1>3, AppendFacts DEF Grows, StageInv, TypeOK, FileOK
<1>5. engine' = [engine EXCEPT
          !.inbox = Tail(engine.inbox),
          !.due = engine.due \/ (engine.inbox[1].round = engine.stage
                                    /\ engine.stage < LastStage)]
  BY <1>2 DEF EngineEmit
<1>6. Tail(engine.inbox) \in Seq(Message)
  BY <1>1, HeadTailProperties
<1>7. /\ engine'.stage = engine.stage
      /\ engine'.inbox = Tail(engine.inbox)
      /\ engine'.due = (engine.due \/ (engine.inbox[1].round = engine.stage
                                         /\ engine.stage < LastStage))
      /\ EngineOK'
  BY <1>5, <1>6 DEF StageInv, TypeOK, EngineOK
<1>8. UNCHANGED << fresh, pc, k, ni, r, t0, used >>
  BY DEF EngineEmit, driver
<1>. QED BY <1>2, <1>4, <1>7, <1>8 DEF EmitEffect

LEMMA EngineEmitKeeps ==
    ASSUME StageInv, EngineEmit
    PROVE  StageInv'
<1>1. PICK rec : Grows(rec) /\ IsAnswer(rec, engine.inbox[1])
  BY Emitted
<1>2. EngineTyped /\ EmitEffect /\ EngineOK' /\ EngineInv /\ OwnStage
  BY Emitted, EngineFacts DEF StageInv
<1>3. PICK m \in Message : m = engine.inbox[1] /\ m.round \in 0 .. engine.stage
  BY <1>2 DEF EngineTyped, EmitEffect
<1>4. rec.type = "sentinel" /\ rec.round = m.round /\ rec.under = engine.stage
  BY <1>1, <1>3 DEF IsAnswer
<1>5. TypeOK'
  <2>1. FileOK /\ DriverOK
    BY DEF StageInv, TypeOK
  <2>. QED BY <1>1, <1>2, <2>1 DEF Grows, EmitEffect, TypeOK, FileOK, DriverOK
<1>6. EngineInv'
  <2>1. \A i \in DOMAIN sfile' :
          sfile'[i].type = "stage" => sfile'[i].current \in 0 .. engine'.stage
    BY <1>1, <1>2, <1>4 DEF Grows, EmitEffect, EngineInv
  <2>2. \A s \in 0 .. engine'.stage - 1 :
          \E i \in DOMAIN sfile' : IsSent(i)' /\ sfile'[i].round = s
    BY <1>1, <1>2 DEF Grows, EmitEffect, EngineInv, IsSent
  <2>3. engine'.due =>
          /\ engine'.stage < LastStage
          /\ \E i \in DOMAIN sfile' : IsSent(i)' /\ sfile'[i].round = engine'.stage
    <3>1. CASE engine.due
      <4>1. /\ engine.stage < LastStage
            /\ \E i \in DOMAIN sfile : IsSent(i) /\ sfile[i].round = engine.stage
        BY <1>2, <3>1, Zenon DEF EngineInv
      <4>2. PICK i \in DOMAIN sfile : IsSent(i) /\ sfile[i].round = engine.stage
        BY <4>1
      <4>3. i \in DOMAIN sfile' /\ sfile'[i] = sfile[i]
        BY <1>1 DEF Grows
      <4>4. engine'.stage = engine.stage
        BY <1>2 DEF EmitEffect
      <4>5. sfile'[i].type = "sentinel" /\ sfile'[i].round = engine'.stage
        BY <4>2, <4>3, <4>4 DEF IsSent
      <4>. QED BY <4>1, <4>3, <4>4, <4>5, Zenon DEF IsSent
    <3>2. CASE ~engine.due
      <4>. SUFFICES ASSUME engine'.due
                    PROVE  /\ engine'.stage < LastStage
                           /\ \E i \in DOMAIN sfile' :
                                IsSent(i)' /\ sfile'[i].round = engine'.stage
        OBVIOUS
      <4>1. engine.inbox[1].round = engine.stage /\ engine.stage < LastStage
        BY <1>2, <3>2, Zenon DEF EmitEffect
      <4>. QED BY <1>1, <1>2, <1>3, <1>4, <4>1 DEF Grows, EmitEffect, IsSent
    <3>. QED BY <3>1, <3>2
  <2>4. \A i \in DOMAIN engine'.inbox :
          engine'.inbox[i].round <= engine'.stage
    <3>1. /\ DOMAIN Tail(engine.inbox) = 1 .. Len(engine.inbox) - 1
          /\ \A i \in 1 .. Len(engine.inbox) - 1 :
               Tail(engine.inbox)[i] = engine.inbox[i + 1]
      BY <1>2, HeadTailProperties, LenProperties, EmptySeq
      DEF EngineTyped, EmitEffect
    <3>. QED BY <1>2, <3>1 DEF EngineTyped, EmitEffect
  <2>5. pc' \in {"send", "sentinel"} => k' <= engine'.stage
    BY <1>2 DEF EmitEffect, EngineInv
  <2>. QED BY <2>1, <2>2, <2>3, <2>4, <2>5 DEF EngineInv
<1>7. OwnStage'
  <2>1. \/ rec.under = rec.round
        \/ \E j \in 1 .. Len(sfile) :
             sfile[j].type = "sentinel" /\ sfile[j].round = rec.round
    <3>1. m.round = engine.stage \/ m.round \in 0 .. engine.stage - 1
      BY <1>2, <1>3 DEF EngineTyped
    <3>. QED BY <1>1, <1>2, <1>4, <3>1 DEF Grows, EngineInv, IsSent
  <2>. QED BY <1>1, <1>2, <1>4, <2>1 DEF Grows, OwnStage
<1>. QED BY <1>5, <1>6, <1>7 DEF StageInv

SwitchEffect ==
    /\ engine.due /\ engine.stage < LastStage
    /\ engine'.stage = engine.stage + 1 /\ engine'.due = FALSE
    /\ engine'.inbox = engine.inbox
    /\ UNCHANGED << fresh, pc, k, ni, r, t0, used >>

LEMMA Switched ==
    ASSUME StageInv, EngineSwitch
    PROVE  /\ \E rec : /\ Grows(rec) /\ rec.type = "stage"
                       /\ rec.current = engine.stage + 1
           /\ SwitchEffect /\ EngineOK'
<1>1. \E rec : /\ sfile' = Append(sfile, rec)
              /\ rec.type = "stage" /\ rec.current = engine.stage + 1
  BY DEF EngineSwitch, StageRecord
<1>2. \E rec : /\ Grows(rec)
              /\ rec.type = "stage" /\ rec.current = engine.stage + 1
  BY <1>1, AppendFacts DEF Grows, StageInv, TypeOK, FileOK
<1>3. engine.due /\ engine.stage < LastStage /\ engine.stage + 1 \in 0 .. LastStage
  <2>1. engine.due /\ engine.stage < LastStage
    BY DEF StageInv, EngineInv, EngineSwitch
  <2>2. EngineTyped
    BY EngineFacts
  <2>. QED BY <2>1, <2>2, Lengths DEF EngineTyped
<1>4. /\ engine'.stage = engine.stage + 1 /\ engine'.due = FALSE
      /\ engine'.inbox = engine.inbox /\ EngineOK'
  BY <1>3 DEF StageInv, TypeOK, EngineOK, EngineSwitch
<1>. QED BY <1>2, <1>3, <1>4 DEF SwitchEffect, EngineSwitch, driver

LEMMA EngineSwitchKeeps ==
    ASSUME StageInv, EngineSwitch
    PROVE  StageInv'
<1>1. PICK rec : /\ Grows(rec) /\ rec.type = "stage"
                 /\ rec.current = engine.stage + 1
  BY Switched
<1>2. EngineTyped /\ SwitchEffect /\ EngineOK' /\ EngineInv /\ OwnStage
  BY Switched, EngineFacts DEF StageInv
<1>3. FileOK /\ DriverOK
  BY DEF StageInv, TypeOK
<1>4. TypeOK'
  BY <1>1, <1>2, <1>3 DEF Grows, SwitchEffect, TypeOK, FileOK, DriverOK
<1>5. EngineInv'
  <2>1. \A i \in DOMAIN sfile' :
          sfile'[i].type = "stage" => sfile'[i].current \in 0 .. engine'.stage
    BY <1>1, <1>2 DEF Grows, SwitchEffect, EngineTyped, EngineInv
  <2>2. \A s \in 0 .. engine.stage :
          \E i \in DOMAIN sfile : IsSent(i) /\ sfile[i].round = s
    <3>1. \A s \in 0 .. engine.stage :
            s = engine.stage \/ s \in 0 .. engine.stage - 1
      BY <1>2 DEF EngineTyped
    <3>. QED BY <1>2, <3>1 DEF SwitchEffect, EngineInv
  <2>3. \A s \in 0 .. engine'.stage - 1 :
          \E i \in DOMAIN sfile' : IsSent(i)' /\ sfile'[i].round = s
    BY <1>1, <1>2, <2>2 DEF Grows, SwitchEffect, EngineTyped, IsSent
  <2>4. \A i \in DOMAIN engine'.inbox :
          engine'.inbox[i].round <= engine'.stage
    BY <1>2 DEF SwitchEffect, EngineTyped
  <2>5. pc' \in {"send", "sentinel"} => k' <= engine'.stage
    BY <1>2, <1>3 DEF SwitchEffect, EngineTyped, DriverOK, EngineInv
  <2>6. ~engine'.due
    BY <1>2 DEF SwitchEffect
  <2>. QED BY <2>1, <2>3, <2>4, <2>5, <2>6 DEF EngineInv
<1>6. OwnStage'
  BY <1>1, <1>2 DEF Grows, OwnStage
<1>. QED BY <1>4, <1>5, <1>6 DEF StageInv

LEMMA FirstFile == << StageRecord(0) >> \in Seq(Elements(<< StageRecord(0) >>))
<1>. DEFINE one == << StageRecord(0) >>
<1>1. one \in Seq({StageRecord(0)}) /\ DOMAIN one = {1} /\ one[1] = StageRecord(0)
  OBVIOUS
<1>2. Elements(one) = {StageRecord(0)}
  BY <1>1 DEF Elements
<1>. QED BY <1>1, <1>2

LEMMA RestartKeeps ==
    ASSUME StageInv, Restart
    PROVE  StageInv'
<1>1. /\ sfile' = << StageRecord(0) >>
      /\ engine' = [stage |-> 0, inbox |-> << >>, due |-> FALSE]
      /\ UNCHANGED << pc, k, ni, r, t0, used >> /\ fresh' = TRUE /\ pc = "idle"
  BY DEF Restart, driver
<1>2. DOMAIN sfile' = {1} /\ sfile'[1] = StageRecord(0)
  BY <1>1
<1>3. sfile' \in Seq(Elements(sfile'))
  BY <1>1, FirstFile, Zenon
<1>4. TypeOK'
  <2>1. EngineOK'
    BY <1>1, Lengths, EmptySeq DEF EngineOK
  <2>. QED BY <1>1, <1>3, <2>1 DEF StageInv, TypeOK, FileOK, DriverOK
<1>5. EngineInv'
  BY <1>1, <1>2 DEF EngineInv, StageRecord, IsSent
<1>6. OwnStage'
  BY <1>1, <1>2 DEF OwnStage, StageRecord
<1>. QED BY <1>4, <1>5, <1>6 DEF StageInv

LEMMA NextStageInv ==
    ASSUME StageInv, [Next]_vars
    PROVE  StageInv'
<1>1. ASSUME NEW m \in Modes, Begin(m)
      PROVE  StageInv'
  BY <1>1, BeginKeeps
<1>2. CASE DriverStep
  BY <1>2, StageAppliedKeeps, SendKeeps, SentinelReadKeeps, OthersKeep
  DEF DriverStep
<1>3. CASE StageTimeout \/ SendBreaks \/ SentinelTimeout \/ EditRules
             \/ UNCHANGED vars
  BY <1>3, OthersKeep
<1>4. CASE EngineEmit \/ EngineSwitch \/ Restart
  BY <1>4, EngineEmitKeeps, EngineSwitchKeeps, RestartKeeps
<1>. QED BY <1>1, <1>2, <1>3, <1>4 DEF Next

LEMMA InitStageInv == Init => StageInv
<1>. SUFFICES ASSUME Init PROVE StageInv
  OBVIOUS
<1>1. sfile = << StageRecord(0) >> /\ DOMAIN sfile = {1} /\ sfile[1] = StageRecord(0)
  BY DEF Init
<1>2. FileOK
  <2>1. << >> \in Seq(Elements(<< >>))
    BY EmptySeq
  <2>2. used \in Seq(Elements(used))
    BY <2>1, Zenon DEF Init, NoDriver
  <2>3. sfile \in Seq(Elements(sfile))
    BY <1>1, FirstFile, Zenon
  <2>. QED BY <2>2, <2>3 DEF FileOK
<1>3. EngineOK
  BY Lengths, EmptySeq DEF Init, EngineOK
<1>4. DriverOK
  BY Lengths DEF Init, NoDriver, DriverOK
<1>5. EngineInv /\ OwnStage
  BY <1>1 DEF Init, NoDriver, EngineInv, OwnStage, StageRecord, IsSent
<1>. QED BY <1>2, <1>3, <1>4, <1>5 DEF StageInv, TypeOK

(* The first data of a stage is processed under that stage, also in a file *)
(* that several sessions have appended to, and whenever the driver, which  *)
(* has read that the stage is applied, gets to send (wait_for_stage).      *)
THEOREM StageIsInForce == Spec => []OwnStage
<1>1. Init => StageInv
  BY InitStageInv
<1>2. StageInv /\ [Next]_vars => StageInv'
  BY NextStageInv
<1>3. StageInv => OwnStage
  BY DEF StageInv
<1>. QED BY <1>1, <1>2, <1>3, PTL DEF Spec

-----------------------------------------------------------------------------
(* Counting answers. *)

LEMMA AnswersFinite ==
    ASSUME StageInv, NEW stage, NEW rows
    PROVE  /\ IsFiniteSet(Answers(sfile, stage, rows))
           /\ Answers(sfile, stage, rows) \subseteq Nat
<1>. DEFINE A == Answers(sfile, stage, rows)
            D == 1 .. Len(sfile)
<1>1. sfile \in Seq(Elements(sfile))
  BY DEF StageInv, TypeOK, FileOK
<1>2. Len(sfile) \in Nat /\ DOMAIN sfile = D
  BY <1>1, LenProperties
<1>3. IsFiniteSet(D) /\ D \subseteq Nat
  BY <1>2, FS_Interval
<1>4. A \in SUBSET D
  BY <1>2 DEF Answers
<1>. HIDE DEF A, D
<1>5. IsFiniteSet(A) /\ A \subseteq Nat
  BY <1>3, <1>4, FS_Subset
<1>. QED BY <1>5 DEF A

LEMMA AnswersGrow ==
    ASSUME NEW rec, Grows(rec), NEW stage, NEW rows
    PROVE  /\ IsSentinel(rec, stage, rows) =>
                Answers(sfile', stage, rows)
                  = Answers(sfile, stage, rows) \cup {Len(sfile) + 1}
           /\ ~IsSentinel(rec, stage, rows) =>
                Answers(sfile', stage, rows) = Answers(sfile, stage, rows)
BY DEF Grows, Answers

(* The record with so many others before it is the last one of so many and *)
(* one, and there is none among so many.                                   *)
LEMMA ReadsTheLast ==
    ASSUME StageInv, NEW last, LastAnswer(last), NEW i \in Matched(r)
    PROVE  i = last
<1>. DEFINE A == Answers(sfile, k, Sent)
            B == {j \in A : j < i}
            C == (A \ {last}) \ {i}
<1>1. IsFiniteSet(A) /\ A \subseteq Nat
  BY AnswersFinite
<1>2. i \in A /\ Cardinality(B) = r
  BY DEF Matched, Matching, Answers
<1>3. last \in A /\ i <= last /\ Cardinality(A \ {last}) = r
  BY <1>2 DEF LastAnswer
<1>4. r \in Nat
  BY Lengths DEF StageInv, TypeOK, DriverOK
<1>. HIDE DEF A
<1>. SUFFICES ASSUME i # last PROVE FALSE
  OBVIOUS
<1>5. IsFiniteSet(A \ {last})
  BY <1>1, FS_RemoveElement
<1>6. IsFiniteSet(C) /\ Cardinality(C) = r - 1
  <2>1. i \in A \ {last}
    BY <1>2
  <2>. QED BY <1>3, <1>5, <2>1, FS_RemoveElement
<1>7. B \in SUBSET C
  BY <1>1, <1>2, <1>3
<1>. HIDE DEF B, C
<1>8. Cardinality(B) <= Cardinality(C)
  BY <1>6, <1>7, FS_Subset
<1>. QED BY <1>2, <1>4, <1>6, <1>8

LEMMA NoneToRead ==
    ASSUME StageInv, Cardinality(Answers(sfile, k, Sent)) = r
    PROVE  Matched(r) = {}
<1>. SUFFICES ASSUME NEW i \in Matched(r) PROVE FALSE
  OBVIOUS
<1>. DEFINE A == Answers(sfile, k, Sent)
            B == {j \in A : j < i}
<1>1. IsFiniteSet(A) /\ A \subseteq Nat /\ Cardinality(A) = r
  BY AnswersFinite
<1>2. i \in A /\ Cardinality(B) = r
  BY DEF Matched, Matching, Answers
<1>3. r \in Nat
  BY Lengths DEF StageInv, TypeOK, DriverOK
<1>. HIDE DEF A
<1>4. IsFiniteSet(A \ {i}) /\ Cardinality(A \ {i}) = r - 1
  BY <1>1, <1>2, FS_RemoveElement
<1>5. B \in SUBSET (A \ {i})
  BY <1>1, <1>2
<1>. HIDE DEF B
<1>6. Cardinality(B) <= Cardinality(A \ {i})
  BY <1>4, <1>5, FS_Subset
<1>. QED BY <1>2, <1>3, <1>4, <1>6

-----------------------------------------------------------------------------
(* With the daemon restarted for every session, and row counts that tell   *)
(* the points of a session apart, the count finds the driver's own answer. *)

LEMMA BeginCounts ==
    ASSUME CleanStart, IInv, NEW m \in Modes, Begin(m)
    PROVE  AnswerInv'
<1>1. /\ Len(engine.inbox) = 0
      /\ \A i \in DOMAIN sfile : ~IsSent(i)
  BY DEF IInv, AnswerInv, StartInv, Begin
<1>2. \A stage, rows : Answers(sfile, stage, rows) = {}
  BY <1>1 DEF Answers, IsSentinel, IsSent
<1>3. /\ sfile' = sfile /\ engine' = engine /\ fresh' = FALSE
      /\ pc' = "stage" /\ k' = 0 /\ ni' = 1 /\ r' = 0 /\ used' = << >>
  BY DEF Begin
<1>4. StartInv'
  BY <1>2, <1>3 DEF StartInv
<1>5. CountInv'
  BY <1>1, <1>2, <1>3, FS_EmptySet DEF CountInv
<1>6. OwnAnswer'
  BY <1>3 DEF OwnAnswer
<1>. QED BY <1>4, <1>5, <1>6 DEF AnswerInv

LEMMA StageAppliedCounts ==
    ASSUME IInv, StageApplied
    PROVE  AnswerInv'
<1>1. /\ pc = "stage" /\ pc' = "send" /\ fresh' = fresh
      /\ sfile' = sfile /\ engine' = engine /\ k' = k /\ used' = used
      /\ ni' = 1 /\ r' = 0
  BY DEF StageApplied
<1>2. ni' = ni /\ r' = r
  BY <1>1 DEF IInv, AnswerInv, StartInv
<1>3. StartInv'
  BY <1>1, <1>2 DEF IInv, AnswerInv, StartInv, Later
<1>4. CountInv'
  BY <1>1, <1>2 DEF IInv, AnswerInv, CountInv, Sent
<1>5. OwnAnswer'
  BY <1>1 DEF IInv, AnswerInv, OwnAnswer
<1>. QED BY <1>3, <1>4, <1>5 DEF AnswerInv

LEMMA SendCounts ==
    ASSUME IInv, Send
    PROVE  AnswerInv'
<1>. DEFINE m == [round |-> k, n |-> Sent, start |-> t0 + 1]
<1>1. /\ pc = "send" /\ pc' = "sentinel" /\ fresh' = fresh /\ t0' = t0 + 1
      /\ sfile' = sfile /\ k' = k /\ ni' = ni /\ r' = r /\ used' = used
  BY DEF Send
<1>2. EngineTyped /\ Len(engine.inbox) = 0
  BY <1>1, EngineFacts DEF IInv, AnswerInv, CountInv
<1>3. m \in Message
  <2>1. k \in 0 .. LastStage /\ ni \in 1 .. Len(NList) /\ t0 + 1 \in Nat
    BY DEF IInv, StageInv, TypeOK, DriverOK
  <2>. QED BY <2>1 DEF Message, Sent
<1>4. engine'.inbox = Append(engine.inbox, m)
  BY DEF IInv, StageInv, TypeOK, EngineOK, Send
<1>. HIDE DEF m
<1>5. Len(engine'.inbox) = 1 /\ engine'.inbox[1] = m
  BY <1>2, <1>3, <1>4, AppendProperties DEF EngineTyped
<1>6. StartInv'
  BY <1>1 DEF IInv, AnswerInv, StartInv, Later
<1>7. CountInv'
  <2>1. Cardinality(Answers(sfile, k, Sent)) = r
    BY <1>1 DEF IInv, AnswerInv, CountInv
  <2>2. m = [round |-> k, n |-> Sent, start |-> t0']
    BY <1>1 DEF m
  <2>3. OnItsWay'
    BY <1>1, <1>5, <2>1, <2>2 DEF OnItsWay, Sent
  <2>. QED BY <1>1, <2>3 DEF CountInv
<1>8. OwnAnswer'
  BY <1>1 DEF IInv, AnswerInv, OwnAnswer
<1>. QED BY <1>6, <1>7, <1>8 DEF AnswerInv

LEMMA SentinelReadCounts ==
    ASSUME IInv, SentinelRead
    PROVE  AnswerInv'
<1>1. /\ pc = "sentinel" /\ sfile' = sfile /\ engine' = engine
      /\ fresh' = fresh /\ t0' = t0
  BY ReadMoves
<1>2. PICK i \in Matched(r) : \E eps :
        used' = Append(used, [k |-> k, ni |-> ni, t0 |-> t0,
                              start |-> sfile[i].start, eps |-> eps])
  BY ReadMoves
<1>3. ~OnItsWay
  BY <1>2, NoneToRead DEF IInv, OnItsWay
<1>4. Len(engine.inbox) = 0 /\ \E last \in DOMAIN sfile : LastAnswer(last)
  BY <1>1, <1>3 DEF IInv, AnswerInv, CountInv
<1>5. LastAnswer(i)
  BY <1>2, <1>4, ReadsTheLast DEF IInv
<1>6. Cardinality(Answers(sfile, k, Sent)) = r + 1
  <2>. DEFINE A == Answers(sfile, k, Sent)
  <2>1. IsFiniteSet(A)
    BY AnswersFinite DEF IInv
  <2>2. i \in A /\ Cardinality(A \ {i}) = r
    BY <1>5 DEF LastAnswer
  <2>. HIDE DEF A
  <2>3. IsFiniteSet(A \ {i}) /\ A = (A \ {i}) \cup {i}
    BY <2>1, <2>2, FS_RemoveElement
  <2>4. Cardinality((A \ {i}) \cup {i}) = r + 1
    BY <2>2, <2>3, FS_AddElement
  <2>. QED BY <2>3, <2>4 DEF A
<1>7. /\ k \in Nat /\ k <= LastStage /\ ni \in Nat /\ ni >= 1 /\ ni <= Len(NList)
      /\ r \in Nat
  BY Lengths DEF IInv, StageInv, TypeOK, DriverOK
<1>8. \A stage \in 0 .. LastStage, j \in 1 .. Len(NList) :
        Later(stage, j) => Answers(sfile, stage, SentRows(NList[j])) = {}
  BY <1>1 DEF IInv, AnswerInv, StartInv
<1>9. ~fresh
  BY <1>1 DEF IInv, AnswerInv, StartInv
<1>10. StartInv' /\ CountInv'
  <2>1. CASE /\ r + 1 < Rounds /\ r' = r + 1
             /\ pc' = "send" /\ k' = k /\ ni' = ni
    BY <1>1, <1>4, <1>6, <1>8, <1>9, <2>1 DEF StartInv, CountInv, Later, Sent
  <2>2. CASE /\ r' = 0 /\ ni < Len(NList)
             /\ pc' = "send" /\ k' = k /\ ni' = ni + 1
    <3>1. \A stage \in 0 .. LastStage, j \in 1 .. Len(NList) :
            Later(stage, j)' => Later(stage, j)
      BY <1>7, <2>2 DEF Later
    <3>2. k \in 0 .. LastStage /\ ni + 1 \in 1 .. Len(NList) /\ Later(k, ni + 1)
      BY <1>7, <2>2, Lengths DEF Later
    <3>3. Answers(sfile, k, SentRows(NList[ni + 1])) = {}
      BY <1>8, <3>2
    <3>4. Cardinality(Answers(sfile', k', Sent')) = 0
      BY <1>1, <2>2, <3>3, FS_EmptySet DEF Sent
    <3>. QED BY <1>1, <1>4, <1>8, <1>9, <2>2, <3>1, <3>4 DEF StartInv, CountInv
  <2>3. CASE /\ r' = 0 /\ k < LastStage
             /\ pc' = "stage" /\ k' = k + 1 /\ ni' = 1
    <3>1. \A stage \in 0 .. LastStage, j \in 1 .. Len(NList) :
            Later(stage, j)' => Later(stage, j)
      BY <1>7, <2>3 DEF Later
    <3>2. k + 1 \in 0 .. LastStage /\ 1 \in 1 .. Len(NList) /\ Later(k + 1, 1)
      BY <1>7, <2>3, Lengths DEF Later
    <3>3. Answers(sfile, k + 1, SentRows(NList[1])) = {}
      BY <1>8, <3>2
    <3>4. Cardinality(Answers(sfile', k', Sent')) = 0
      BY <1>1, <2>3, <3>3, FS_EmptySet DEF Sent
    <3>. QED BY <1>1, <1>4, <1>8, <1>9, <2>3, <3>1, <3>4 DEF StartInv, CountInv
  <2>4. CASE r' = 0 /\ pc' = "report" /\ k' = k /\ ni' = 1
    BY <1>1, <1>9, <2>4 DEF StartInv, CountInv
  <2>. QED BY <2>1, <2>2, <2>3, <2>4, ReadMoves
<1>11. OwnAnswer'
  <2>1. PICK eps :
          used' = Append(used, [k |-> k, ni |-> ni, t0 |-> t0,
                                start |-> sfile[i].start, eps |-> eps])
    BY <1>2
  <2>2. PICK e : /\ used' = Append(used, e) /\ e.start = e.t0
    BY <1>5, <2>1 DEF LastAnswer
  <2>3. /\ Len(used) \in Nat /\ DOMAIN used = 1 .. Len(used)
        /\ DOMAIN used' = 1 .. Len(used) + 1
        /\ \A j \in 1 .. Len(used) : used'[j] = used[j]
        /\ used'[Len(used) + 1] = e
    BY <2>2, AppendFacts DEF IInv, StageInv, TypeOK, FileOK
  <2>. QED BY <2>2, <2>3 DEF IInv, AnswerInv, OwnAnswer
<1>. QED BY <1>10, <1>11 DEF AnswerInv

LEMMA OthersCount ==
    ASSUME IInv,
           \/ StageTimeout \/ SendBreaks \/ SentinelBad \/ SentinelTimeout
           \/ Report \/ EditRules \/ UNCHANGED vars
    PROVE  AnswerInv'
<1>1. CASE StageTimeout \/ SendBreaks \/ SentinelBad \/ SentinelTimeout \/ Report
  <2>1. /\ pc # "idle" /\ pc' = "idle"
        /\ fresh' = fresh /\ used' = used
    BY <1>1 DEF StageTimeout, SendBreaks, SentinelBad, SentinelTimeout, Abort,
                Report
  <2>. QED BY <2>1 DEF IInv, AnswerInv, StartInv, CountInv, OwnAnswer
<1>2. CASE EditRules \/ UNCHANGED vars
  <2>1. UNCHANGED << sfile, engine, fresh, pc, k, ni, r, t0, used >>
    BY <1>2 DEF EditRules, vars, driver
  <2>. QED BY <2>1 DEF IInv, AnswerInv, StartInv, CountInv, OwnAnswer, IsSent,
                       Later, OnItsWay, LastAnswer, Sent
<1>. QED BY <1>1, <1>2

(* The answer that comes in is the one the driver waits for, and is not    *)
(* taken for one of a later point.                                         *)
LEMMA EngineEmitCounts ==
    ASSUME DistinctPrefixes, IInv, EngineEmit
    PROVE  AnswerInv'
<1>1. PICK rec : Grows(rec) /\ IsAnswer(rec, engine.inbox[1])
  BY Emitted DEF IInv
<1>2. EmitEffect /\ EngineTyped
  BY Emitted, EngineFacts DEF IInv
<1>3. ~fresh /\ pc \notin {"stage", "send"} /\ (pc = "sentinel" => OnItsWay)
  BY <1>2 DEF IInv, AnswerInv, StartInv, CountInv, EmitEffect
<1>4. OwnAnswer'
  BY <1>2 DEF IInv, AnswerInv, OwnAnswer, EmitEffect
<1>5. UNCHANGED << fresh, pc, k, ni, r, t0 >>
  BY <1>2 DEF EmitEffect
<1>6. CASE pc # "sentinel"
  <2>1. StartInv' /\ CountInv'
    BY <1>3, <1>5, <1>6 DEF StartInv, CountInv
  <2>. QED BY <1>4, <2>1 DEF AnswerInv
<1>7. CASE pc = "sentinel"
  <2>1. /\ Len(engine.inbox) = 1 /\ Cardinality(Answers(sfile, k, Sent)) = r
        /\ rec.type = "sentinel" /\ rec.round = k /\ rec.n = Sent
        /\ rec.start = t0
    BY <1>1, <1>3, <1>7 DEF OnItsWay, IsAnswer
  <2>2. ni \in 1 .. Len(NList) /\ k \in 0 .. LastStage /\ r \in Nat
    BY Lengths DEF IInv, StageInv, TypeOK, DriverOK
  <2>3. StartInv'
    <3>1. ASSUME NEW stage \in 0 .. LastStage, NEW j \in 1 .. Len(NList),
                 Later(stage, j)
          PROVE  Answers(sfile', stage, SentRows(NList[j])) = {}
      <4>1. ~(stage = k /\ SentRows(NList[j]) = SentRows(NList[ni]))
        BY <2>2, <3>1, Lengths DEF DistinctPrefixes, Later
      <4>2. ~IsSentinel(rec, stage, SentRows(NList[j]))
        BY <2>1, <4>1 DEF IsSentinel, Sent
      <4>3. Answers(sfile, stage, SentRows(NList[j])) = {}
        BY <1>7, <3>1 DEF IInv, AnswerInv, StartInv
      <4>. QED BY <1>1, <4>2, <4>3, AnswersGrow
    <3>. QED BY <1>3, <1>5, <1>7, <3>1 DEF StartInv, Later
  <2>4. Len(engine'.inbox) = 0
    <3>1. engine'.inbox = Tail(engine.inbox) /\ engine.inbox \in Seq(Message)
      BY <1>2 DEF EmitEffect, EngineTyped
    <3>2. engine.inbox # << >>
      <4>1. Len(<< >>) = 0
        BY EmptySeq
      <4>2. Len(engine.inbox) = 1
        BY <2>1
      <4>. QED BY <4>1, <4>2
    <3>. QED BY <2>1, <3>1, <3>2, HeadTailProperties
  <2>5. PICK last : last = Len(sfile) + 1
    OBVIOUS
  <2>6. last \in DOMAIN sfile' /\ LastAnswer(last)'
    <3>. DEFINE A == Answers(sfile, k, Sent)
    <3>1. IsFiniteSet(A) /\ A \subseteq 1 .. Len(sfile) /\ Cardinality(A) = r
      BY <1>1, <2>1, AnswersFinite DEF IInv, Grows, Answers
    <3>2. Answers(sfile', k', Sent') = A \cup {last}
      BY <1>1, <1>5, <2>1, <2>5, AnswersGrow DEF IsSentinel, Sent
    <3>3. /\ Len(sfile) \in Nat /\ last \in DOMAIN sfile'
          /\ sfile'[last].start = t0'
      BY <1>1, <1>5, <2>1, <2>5 DEF Grows
    <3>. HIDE DEF A
    <3>4. /\ last \in A \cup {last} /\ (A \cup {last}) \ {last} = A
          /\ \A i \in A \cup {last} : i <= last
      BY <2>5, <3>1, <3>3
    <3>5. Cardinality((A \cup {last}) \ {last}) = r'
      BY <1>5, <3>1, <3>4
    <3>. QED BY <3>2, <3>3, <3>4, <3>5 DEF LastAnswer
  <2>7. CountInv'
    BY <1>5, <1>7, <2>4, <2>6 DEF CountInv
  <2>. QED BY <1>4, <2>3, <2>7 DEF AnswerInv
<1>. QED BY <1>6, <1>7

(* A record that a stage is applied is no answer.                          *)
LEMMA EngineSwitchCounts ==
    ASSUME IInv, EngineSwitch
    PROVE  AnswerInv'
<1>1. PICK rec : Grows(rec) /\ rec.type = "stage"
  BY Switched DEF IInv
<1>2. /\ engine'.inbox = engine.inbox
      /\ UNCHANGED << fresh, pc, k, ni, r, t0, used >>
  BY Switched DEF IInv, SwitchEffect
<1>3. \A stage, rows : Answers(sfile', stage, rows) = Answers(sfile, stage, rows)
  BY <1>1, AnswersGrow DEF IsSentinel
<1>4. StartInv'
  <2>1. (\A i \in DOMAIN sfile : ~IsSent(i)) => \A i \in DOMAIN sfile' : ~IsSent(i)'
    BY <1>1 DEF Grows, IsSent
  <2>. QED BY <1>2, <1>3, <2>1 DEF IInv, AnswerInv, StartInv, Later
<1>5. CountInv'
  <2>1. OnItsWay => OnItsWay'
    BY <1>2, <1>3 DEF OnItsWay, Sent
  <2>2. ASSUME NEW last \in DOMAIN sfile, LastAnswer(last)
        PROVE  last \in DOMAIN sfile' /\ LastAnswer(last)'
    <3>1. last \in DOMAIN sfile' /\ sfile'[last] = sfile[last]
      BY <1>1 DEF Grows
    <3>2. Answers(sfile', k', Sent') = Answers(sfile, k, Sent)
      BY <1>2, <1>3 DEF Sent
    <3>. QED BY <1>2, <2>2, <3>1, <3>2 DEF LastAnswer
  <2>3. Cardinality(Answers(sfile', k', Sent')) = Cardinality(Answers(sfile, k, Sent))
    BY <1>2, <1>3 DEF Sent
  <2>. QED BY <1>2, <2>1, <2>2, <2>3 DEF IInv, AnswerInv, CountInv
<1>6. OwnAnswer'
  BY <1>2 DEF IInv, AnswerInv, OwnAnswer
<1>. QED BY <1>4, <1>5, <1>6 DEF AnswerInv

LEMMA RestartCounts ==
    ASSUME IInv, Restart
    PROVE  AnswerInv'
<1>1. /\ sfile' = << StageRecord(0) >>
      /\ engine' = [stage |-> 0, inbox |-> << >>, due |-> FALSE]
      /\ pc = "idle" /\ pc' = "idle" /\ used' = used
  BY DEF Restart, driver
<1>2. /\ DOMAIN sfile' = {1} /\ sfile'[1] = StageRecord(0)
      /\ Len(engine'.inbox) = 0
  BY <1>1
<1>3. StartInv'
  BY <1>1, <1>2 DEF StartInv, StageRecord, IsSent
<1>4. CountInv' /\ OwnAnswer'
  BY <1>1 DEF IInv, AnswerInv, CountInv, OwnAnswer
<1>. QED BY <1>3, <1>4 DEF AnswerInv

LEMMA InitAnswerInv == Init => AnswerInv
<1>. SUFFICES ASSUME Init PROVE AnswerInv
  OBVIOUS
<1>1. /\ sfile = << StageRecord(0) >> /\ engine.inbox = << >>
      /\ pc = "idle" /\ used = << >>
  BY DEF Init, NoDriver
<1>2. DOMAIN sfile = {1} /\ sfile[1] = StageRecord(0) /\ Len(engine.inbox) = 0
  BY <1>1
<1>. QED BY <1>1, <1>2 DEF AnswerInv, StartInv, CountInv, OwnAnswer, StageRecord,
                           IsSent

LEMMA NextAnswerInv ==
    ASSUME CleanStart, DistinctPrefixes, IInv, [Next]_vars
    PROVE  AnswerInv'
<1>1. ASSUME NEW m \in Modes, Begin(m)
      PROVE  AnswerInv'
  BY <1>1, BeginCounts
<1>2. CASE DriverStep
  BY <1>2, StageAppliedCounts, SendCounts, SentinelReadCounts, OthersCount
  DEF DriverStep
<1>3. CASE StageTimeout \/ SendBreaks \/ SentinelTimeout \/ EditRules
             \/ UNCHANGED vars
  BY <1>3, OthersCount
<1>4. CASE EngineEmit \/ EngineSwitch \/ Restart
  BY <1>4, EngineEmitCounts, EngineSwitchCounts, RestartCounts
<1>. QED BY <1>1, <1>2, <1>3, <1>4 DEF Next

(* Every rate of a session is computed from the answer to the send it      *)
(* follows, and that send was processed under its stage: for any stages,   *)
(* frames, row counts and rounds, and whatever times out, breaks or is     *)
(* late (wait_for_sentinel), when the daemon starts on an empty file       *)
(* before each session and the row counts differ by a frame at least.      *)
THEOREM MeasuresItsOwn ==
    CleanStart /\ DistinctPrefixes => (Spec => []OwnMeasurement)
<1>. SUFFICES ASSUME CleanStart /\ DistinctPrefixes
              PROVE  Spec => []OwnMeasurement
  OBVIOUS
<1>1. Init => IInv
  BY InitStageInv, InitAnswerInv DEF IInv
<1>2. IInv /\ [Next]_vars => IInv'
  BY NextStageInv, NextAnswerInv DEF IInv
<1>3. IInv => OwnMeasurement
  BY DEF IInv, StageInv, AnswerInv, OwnMeasurement
<1>. QED BY <1>1, <1>2, <1>3, PTL DEF Spec
=============================================================================
