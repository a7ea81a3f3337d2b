------------------------ MODULE PortalRequestsProofs ------------------------
(***************************************************************************)
(* For every table of programs, every registry of keys and any number of   *)
(* requests: every variable keeps its type, an answer and a cached entry   *)
(* show exactly what the scope of the request allows, losses are disclosed *)
(* or kept out of the cache where the table says so, what a mutation purges*)
(* holds nothing from before its change, one Idempotency-Key makes one     *)
(* change, and an operation that was opened is closed.  The invariants:    *)
(*                                                                         *)
(*  - IInv, what a handler's stack looks like: below its top, every frame  *)
(*    waits for a read.                                                    *)
(*  - FlowInv (on IInv), where a loss may be: a frame whose steps so far   *)
(*    are frank holds a value that admits what it misses, one whose steps  *)
(*    so far are whole a value that misses nothing (the rules of LossFlow).*)
(*  - ClosedInv (on FlowInv), where an operation may be open: only while   *)
(*    the steps left in the program record every way of leaving it.        *)
(*  - EffectInv (on FlowInv), what a handler has changed: a frame that is  *)
(*    past a change of the object has its effect to show.                  *)
(*  - KeyedInv (on EffectInv), who may still change the object: of requests*)
(*    with one key, at most one that is past its claim.                    *)
(*  - ScopeInv (on EffectInv), what a frame's value may show, with the     *)
(*    scope of the request and without it (the rules of ScopeFlow).        *)
(*  - FreshInv (on EffectInv), what may be old: nothing that a handler     *)
(*    would store under a purged namespace once the object has changed, and*)
(*    nothing there at all when a purge has followed the change (the rules *)
(*    of EffectFlow).                                                      *)
(*                                                                         *)
(* The last four follow a handler through the programs it calls: Walk says *)
(* what one step does to its stack, and WalkNext that every action but     *)
(* Begin is such a step.                                                   *)
(***************************************************************************)
EXTENDS PortalRequests, SequenceTheorems, TLAPS

Codes == {Prog[p] : p \in DOMAIN Prog}

\* Frame f waits for the result of a read.
AwaitsRead(f) == f.pc <= Len(f.code.steps) /\ f.code.steps[f.pc].op \in Reads

Stacked(s) ==
  /\ s \in Handler
  /\ s.st # "idle" => s.frames # <<>>
  /\ \A i \in 1 .. Len(s.frames) : s.frames[i].code \in Codes
  /\ \A i \in 2 .. Len(s.frames) : AwaitsRead(s.frames[i])

Globals ==
  /\ scenario \in Scenarios
  /\ cache \subseteq Entry
  /\ online \in BOOLEAN /\ written \in BOOLEAN /\ calm \in BOOLEAN
  /\ claim \in [st: {"absent", "pending", "done"}, body: STRING \cup {None}]
  /\ effects \in Nat /\ faults \in Nat

IInv ==
  /\ Globals
  /\ slot \in [Slots -> Handler]
  /\ \A r \in Slots : Stacked(slot[r])

-----------------------------------------------------------------------------
(* Values and stacks.                                                      *)

LEMMA CodesTyped == \A c \in Codes : c \in Code /\ c.steps \in Seq([op: STRING, arg: STRING])
  BY ProgAssumption DEF Codes, Code

LEMMA StepsTyped ==
  ASSUME NEW c \in Codes, NEW i \in 1 .. Len(c.steps)
  PROVE  c.steps[i].op \in STRING /\ c.steps[i].arg \in STRING
<1>1. c.steps \in Seq([op: STRING, arg: STRING])
  BY CodesTyped
<1>2. c.steps[i] \in [op: STRING, arg: STRING]
  BY <1>1, LenProperties
<1> QED BY <1>2

LEMMA BlankTyped == Blank \in Val /\ Blank.shows = {}
  BY DEF Blank, Val

LEMMA MergeTyped ==
  ASSUME NEW w \in Val, NEW v \in Val, NEW op
  PROVE  Merge(w, v, op) \in Val
  BY DEF Merge, Val

LEMMA MergeParts ==
  ASSUME NEW w, NEW v, NEW op
  PROVE  /\ Merge(w, v, op).lost = (w.lost \/ v.lost)
         /\ Merge(w, v, op).told = (w.told \/ (v.told /\ op \notin {"Bare", "Drop", "Each"}))
  BY Zenon DEF Merge

LEMMA FreshTyped ==
  ASSUME NEW fs \in Seq(Activation), NEW n \in Nat
  PROVE  Fresh("idle", fs, n) \in Handler
  BY BlankTyped DEF Fresh, Handler

\* The parts of a request are what ScenarioAssumption says.
LEMMA RequestTyped ==
  ASSUME scenario \in Scenarios, NEW r \in Slots
  PROVE  /\ Caller(r) \in Callers /\ Caller(r) \in STRING
         /\ Area(r) \in Areas /\ Area(r) \in STRING
         /\ scenario.req[r].body \in STRING
         /\ scenario.req[r].keyed \in BOOLEAN
         /\ scenario.req[r].runs \in Nat
         /\ scenario.req[r].prog \in DOMAIN Prog
         /\ scenario.faults \in Nat
<1>1. scenario.req[r] \in [prog: DOMAIN Prog, caller: Callers, area: Areas, runs: Nat, keyed: BOOLEAN, body: STRING]
  BY ScenarioAssumption
<1>2. scenario.faults \in Nat
  BY ScenarioAssumption
<1> QED BY <1>1, <1>2, CallersAssumption DEF Caller, Area

LEMMA ResolvedTyped ==
  ASSUME scenario \in Scenarios, NEW r \in Slots, NEW v \in Val
  PROVE  Resolved(r, v) \subseteq Areas
<1>1. Caller(r) \in Callers
  BY RequestTyped
<1>2. Mapped[Caller(r)] \subseteq Areas
  BY <1>1, CallersAssumption
<1>3. Owned[Caller(r)] \subseteq Areas
  BY <1>1, CallersAssumption
<1> QED BY <1>2, <1>3 DEF Resolved

LEMMA FramesTyped ==
  ASSUME NEW s \in Handler, s.frames # <<>>
  PROVE  /\ Len(s.frames) \in Nat \ {0}
         /\ \A i \in 1 .. Len(s.frames) : s.frames[i] \in Activation
         /\ s.frames[1] \in Activation
<1>1. s.frames \in Seq(Activation)
  BY DEF Handler
<1>2. Len(s.frames) \in Nat \ {0}
  BY <1>1, EmptySeq
<1>3. \A i \in 1 .. Len(s.frames) : s.frames[i] \in Activation
  BY <1>1, LenProperties
<1> QED BY <1>2, <1>3

(* Moving a handler on keeps its stack.                                    *)
LEMMA AdvanceSound ==
  ASSUME NEW s, Stacked(s), s.frames # <<>>, s.st = "run", ~Ended(Top(s)), NEW v \in Val
  PROVE  /\ Stacked(Advance(s, v))
         /\ Advance(s, v).st = s.st /\ Advance(s, v).scope = s.scope
<1> DEFINE t == Advance(s, v)
           f == s.frames[1]
           g == Moved(f, v)
           fs == [s.frames EXCEPT ![1] = g]
<1>1. /\ s \in Handler /\ s.frames \in Seq(Activation)
      /\ Len(s.frames) \in Nat \ {0} /\ f \in Activation
      /\ s.frames \in [1 .. Len(s.frames) -> Activation]
  BY FramesTyped, LenProperties DEF Stacked, Handler
<1>2. g \in Activation /\ g.code = f.code /\ g.pc = f.pc + 1 /\ g.val = v
  BY <1>1 DEF Activation, Moved
<1>3. t = [s EXCEPT !.frames = fs]
  BY <1>1 DEF Advance
<1>4. fs \in Seq(Activation) /\ Len(fs) = Len(s.frames) /\ fs[1] = g /\ \A i \in 2 .. Len(s.frames) : fs[i] = s.frames[i]
  BY <1>1, <1>2
<1> HIDE DEF fs, g
<1>5. /\ t \in Handler /\ t.frames = fs
      /\ t.st = s.st /\ t.scope = s.scope
  BY <1>1, <1>3, <1>4 DEF Handler
<1>6. t.frames[1] = g /\ Len(t.frames) = Len(s.frames) /\ \A i \in 2 .. Len(t.frames) : t.frames[i] = s.frames[i]
  BY <1>1, <1>4, <1>5
<1>7. Stacked(t)
  <2>1. \A i \in 1 .. Len(t.frames) : t.frames[i].code \in Codes
    BY <1>1, <1>2, <1>6 DEF Stacked
  <2>2. \A i \in 2 .. Len(t.frames) : AwaitsRead(t.frames[i])
    BY <1>6 DEF Stacked
  <2>3. t.frames # <<>>
    BY <1>1, <1>5, <1>6
  <2> QED BY <1>5, <2>1, <2>2, <2>3 DEF Stacked
<1> QED BY <1>5, <1>7

LEMMA OnwardSound ==
  ASSUME NEW s, Stacked(s), s.frames # <<>>, s.st = "run", ~Ended(Top(s))
  PROVE  /\ Stacked(Onward(s))
         /\ Onward(s).st = s.st /\ Onward(s).scope = s.scope
<1>1. Top(s).val \in Val
  BY FramesTyped DEF Stacked, Top, Activation
<1> QED BY <1>1, AdvanceSound DEF Onward

\* After Onward, the scope and the operation's state are free to change.
LEMMA OnwardFree ==
  ASSUME NEW s, Stacked(s), s.frames # <<>>, s.st = "run", ~Ended(Top(s)),
         NEW A \in SUBSET Areas, NEW o \in {None, "open", "completed", "failed"}
  PROVE  /\ Stacked([Onward(s) EXCEPT !.scope = A])
         /\ Stacked([Onward(s) EXCEPT !.oper = o])
<1> DEFINE t == Onward(s)
<1>1. Stacked(t) /\ t.st = "run" /\ t \in Handler
  BY OnwardSound DEF Stacked
<1> QED BY <1>1 DEF Stacked, Handler

LEMMA AnswerSound ==
  ASSUME NEW s, Stacked(s), NEW v \in Val, NEW k \in {"ok", "dup", "denied", "error", "lost"}
  PROVE  Stacked(Answer(s, k, v))
<1>1. <<>> \in Seq(Activation) /\ Len(<<>>) = 0
  BY EmptySeq
<1>2. Answer(s, k, v) \in Handler /\ Answer(s, k, v).st = "idle" /\ Answer(s, k, v).frames = <<>>
  BY <1>1 DEF Answer, Stacked, Handler
<1> QED BY <1>1, <1>2 DEF Stacked

LEMMA RaiseSound ==
  ASSUME NEW s, Stacked(s), s.frames # <<>>, NEW o \in {None, "open", "completed", "failed"}
  PROVE  Stacked(Raise(s)) /\ Stacked(Raise([s EXCEPT !.oper = o]))
  BY DEF Raise, Stacked, Handler

LEMMA TopTyped ==
  ASSUME NEW s, Stacked(s), s.frames # <<>>
  PROVE  /\ Top(s).val \in Val /\ Top(s).pc \in Nat \ {0} /\ Top(s).code \in Codes
         /\ s \in Handler /\ s.oper \in {None, "open", "completed", "failed"}
         /\ s.scope \in SUBSET Areas /\ s.runs \in Nat
<1>1. s \in Handler
  BY DEF Stacked
<1>2. s.frames[1] \in Activation /\ 1 \in 1 .. Len(s.frames)
  BY <1>1, FramesTyped
<1>3. s.frames[1].code \in Codes
  BY <1>2 DEF Stacked
<1>4. s.oper \in {None, "open", "completed", "failed"} /\ s.scope \in SUBSET Areas /\ s.runs \in Nat
  BY <1>1 DEF Handler
<1> QED BY <1>1, <1>2, <1>3, <1>4 DEF Top, Activation

(* What moving on, returning and calling do to the stack.                  *)
LEMMA AdvanceShape ==
  ASSUME NEW s, Stacked(s), s.frames # <<>>, NEW v \in Val
  PROVE  LET t == Advance(s, v) IN
         /\ t.frames # <<>> /\ Len(t.frames) = Len(s.frames) /\ Len(s.frames) \in Nat \ {0}
         /\ t.frames[1].code = s.frames[1].code /\ t.frames[1].pc = s.frames[1].pc + 1 /\ t.frames[1].val = v
         /\ \A i \in 2 .. Len(s.frames) : t.frames[i] = s.frames[i]
         /\ t.st = s.st /\ t.scope = s.scope /\ t.oper = s.oper /\ t.kind = s.kind /\ t.val = s.val
<1> DEFINE t == Advance(s, v)
           f == s.frames[1]
           g == Moved(f, v)
           fs == [s.frames EXCEPT ![1] = g]
<1>1. /\ s \in Handler /\ s.frames \in Seq(Activation)
      /\ Len(s.frames) \in Nat \ {0} /\ f \in Activation
      /\ s.frames \in [1 .. Len(s.frames) -> Activation]
  BY FramesTyped, LenProperties DEF Stacked, Handler
<1>2. g \in Activation /\ g.code = f.code /\ g.pc = f.pc + 1 /\ g.val = v
  BY <1>1 DEF Activation, Moved
<1>3. t = [s EXCEPT !.frames = fs]
  BY <1>1 DEF Advance
<1>4. fs \in Seq(Activation) /\ Len(fs) = Len(s.frames) /\ fs[1] = g /\ \A i \in 2 .. Len(s.frames) : fs[i] = s.frames[i]
  BY <1>1, <1>2
<1>5. fs # <<>>
  BY <1>1, <1>4, EmptySeq
<1> HIDE DEF fs, g
<1>6. t.frames = fs /\ t.st = s.st /\ t.scope = s.scope /\ t.oper = s.oper /\ t.kind = s.kind /\ t.val = s.val
  BY <1>1, <1>3 DEF Handler
<1> HIDE DEF t
<1> QED BY <1>1, <1>2, <1>4, <1>5, <1>6 DEF t

LEMMA PopShape ==
  ASSUME NEW s, Stacked(s), s.frames # <<>>, Len(s.frames) # 1
  PROVE  LET t == [s EXCEPT !.frames = Tail(@)] IN
         /\ Len(t.frames) \in Nat \ {0} /\ Len(s.frames) = Len(t.frames) + 1
         /\ \A i \in 1 .. Len(t.frames) : t.frames[i] = s.frames[i + 1]
         /\ t.st = s.st /\ t.oper = s.oper /\ t.kind = s.kind /\ t.val = s.val
<1> DEFINE t == [s EXCEPT !.frames = Tail(@)]
           fs == Tail(s.frames)
<1>1. s.frames \in Seq(Activation) /\ Len(s.frames) \in Nat \ {0} /\ s \in Handler
  BY FramesTyped DEF Stacked, Handler
<1>2. /\ Len(fs) = Len(s.frames) - 1
      /\ \A i \in 1 .. Len(fs) : fs[i] = s.frames[i + 1]
  BY <1>1, HeadTailProperties
<1> HIDE DEF fs
<1>3. t.frames = fs /\ t.st = s.st /\ t.oper = s.oper /\ t.kind = s.kind /\ t.val = s.val
  <2>1. t = [s EXCEPT !.frames = fs]
    BY DEF fs
  <2> QED BY <1>1, <2>1 DEF Handler
<1> HIDE DEF t
<1>4. Len(fs) \in Nat \ {0} /\ Len(s.frames) = Len(fs) + 1
  <2> DEFINE n == Len(s.frames)
             m == Len(fs)
  <2>1. n \in Nat \ {0} /\ n # 1 /\ m = n - 1
    BY <1>1, <1>2
  <2> HIDE DEF n, m
  <2>2. m \in Nat \ {0} /\ n = m + 1
    BY <2>1
  <2> QED BY <2>2 DEF n, m
<1> QED BY <1>2, <1>3, <1>4 DEF t

LEMMA PushShape ==
  ASSUME NEW s, Stacked(s), s.frames # <<>>, NEW p \in DOMAIN Prog
  PROVE  LET t == [s EXCEPT !.frames = <<Frame(p)>> \o @] IN
         /\ Len(s.frames) \in Nat \ {0} /\ Len(t.frames) = Len(s.frames) + 1
         /\ t.frames[1] = Frame(p)
         /\ \A i \in 2 .. Len(t.frames) : t.frames[i] = s.frames[i - 1]
         /\ t.st = s.st /\ t.oper = s.oper /\ t.kind = s.kind /\ t.val = s.val
<1> DEFINE f == Frame(p)
           fs == <<f>> \o s.frames
           t == [s EXCEPT !.frames = fs]
<1>1. s.frames \in Seq(Activation) /\ Len(s.frames) \in Nat \ {0} /\ s \in Handler
  BY FramesTyped DEF Stacked, Handler
<1>2. f \in Activation
  BY CodesTyped, BlankTyped DEF Frame, Codes, Activation
<1> HIDE DEF f
<1>3. <<f>> \in Seq(Activation) /\ Len(<<f>>) = 1 /\ <<f>>[1] = f
  BY <1>2
<1>4. /\ Len(fs) = Len(s.frames) + 1
      /\ fs[1] = f
      /\ \A i \in 2 .. Len(fs) : fs[i] = s.frames[i - 1]
  <2>1. fs \in Seq(Activation) /\ Len(fs) = Len(<<f>>) + Len(s.frames)
    BY <1>1, <1>3, ConcatProperties
  <2>2. \A i \in 1 .. Len(<<f>>) + Len(s.frames) :
          fs[i] = IF i <= Len(<<f>>) THEN <<f>>[i] ELSE s.frames[i - Len(<<f>>)]
    BY <1>1, <1>3, ConcatProperties
  <2> HIDE DEF fs
  <2>3. Len(fs) = Len(s.frames) + 1
    BY <1>1, <1>3, <2>1
  <2>4. fs[1] = f
    BY <1>1, <1>3, <2>2
  <2>5. \A i \in 2 .. Len(fs) : fs[i] = s.frames[i - 1]
    <3> DEFINE n == Len(s.frames)
    <3>1. n \in Nat /\ Len(fs) = n + 1
      BY <1>1, <2>3
    <3>2. \A i \in 1 .. 1 + n : fs[i] = IF i <= 1 THEN <<f>>[i] ELSE s.frames[i - 1]
      BY <1>3, <2>2
    <3> HIDE DEF n
    <3> QED BY <3>1, <3>2
  <2> QED BY <2>3, <2>4, <2>5
<1>5. t.frames = fs /\ t.st = s.st /\ t.oper = s.oper /\ t.kind = s.kind /\ t.val = s.val
  <2> HIDE DEF fs
  <2> QED BY <1>1 DEF Handler
<1> HIDE DEF fs, t
<1> QED BY <1>1, <1>4, <1>5 DEF t, fs, f

LEMMA DeliverSound ==
  ASSUME NEW s, Stacked(s), s.frames # <<>>, s.st = "run", ~Ended(Top(s)), Awaits(s).op \in Reads,
         scenario \in Scenarios, NEW r \in Slots, NEW v \in Val
  PROVE  Stacked(Deliver(r, s, v))
<1> DEFINE op == Awaits(s).op
<1>2. CASE op = "Scope"
  <2>1. Resolved(r, v) \in SUBSET Areas
    BY ResolvedTyped
  <2>2. Stacked([Onward(s) EXCEPT !.scope = Resolved(r, v)])
    BY <2>1, OnwardFree
  <2> QED BY <1>2, <2>2 DEF Deliver
<1>3. CASE op # "Scope" /\ op = "Must" /\ v.told
  <2>1. Stacked(Raise(s))
    BY RaiseSound
  <2> QED BY <1>3, <2>1 DEF Deliver
<1>4. CASE op = "Fire"
  <2>1. Stacked(Onward(s))
    BY OnwardSound
  <2> QED BY <1>4, <2>1 DEF Deliver
<1>5. CASE op # "Scope" /\ ~(op = "Must" /\ v.told) /\ op # "Fire"
  <2>1. Merge(Top(s).val, v, op) \in Val
    BY TopTyped, MergeTyped
  <2>2. Stacked(Advance(s, Merge(Top(s).val, v, op)))
    BY <2>1, AdvanceSound
  <2> QED BY <1>5, <2>2 DEF Deliver
<1> QED BY <1>2, <1>3, <1>4, <1>5

\* Without its top frame a stack is still one, and its new top waits for a read.
LEMMA PopStacked ==
  ASSUME NEW s, Stacked(s), s.frames # <<>>, Len(s.frames) # 1
  PROVE  LET t == [s EXCEPT !.frames = Tail(@)] IN
         /\ Stacked(t) /\ t.frames # <<>> /\ t.st = s.st
         /\ ~Ended(Top(t)) /\ Awaits(t).op \in Reads
<1> DEFINE t == [s EXCEPT !.frames = Tail(@)]
           fs == Tail(s.frames)
<1>1. s.frames \in Seq(Activation) /\ Len(s.frames) \in Nat \ {0} /\ s \in Handler
  BY FramesTyped DEF Stacked, Handler
<1>2. /\ fs \in Seq(Activation) /\ Len(fs) = Len(s.frames) - 1
      /\ \A i \in 1 .. Len(fs) : fs[i] = s.frames[i + 1]
  BY <1>1, HeadTailProperties
<1> HIDE DEF fs
<1>3. t \in Handler /\ t.frames = fs /\ t.st = s.st
  <2>1. t = [s EXCEPT !.frames = fs]
    BY DEF fs
  <2> QED BY <1>1, <1>2, <2>1 DEF Handler
<1> HIDE DEF t
<1>4. fs # <<>> /\ 1 \in 1 .. Len(fs) /\ \A i \in 1 .. Len(fs) : fs[i] \in Activation
  <2>1. Len(fs) \in Nat /\ Len(fs) >= 1
    <3> DEFINE n == Len(s.frames)
    <3>1. n \in Nat \ {0} /\ n # 1 /\ Len(fs) = n - 1
      BY <1>1, <1>2
    <3> HIDE DEF n
    <3> QED BY <3>1
  <2>3. fs # <<>>
    BY <1>2, <2>1, EmptySeq
  <2>2. \A i \in 1 .. Len(fs) : fs[i] \in Activation
    BY <1>2, LenProperties
  <2> QED BY <2>1, <2>2, <2>3
<1>5. \A i \in 1 .. Len(fs) : fs[i].code \in Codes /\ AwaitsRead(fs[i])
  <2> SUFFICES ASSUME NEW i \in 1 .. Len(fs)
               PROVE  fs[i].code \in Codes /\ AwaitsRead(fs[i])
    OBVIOUS
  <2>1. i + 1 \in 2 .. Len(s.frames) /\ i + 1 \in 1 .. Len(s.frames) /\ fs[i] = s.frames[i + 1]
    BY <1>1, <1>2
  <2> QED BY <2>1 DEF Stacked
<1>6. Stacked(t)
  BY <1>1, <1>2, <1>3, <1>4, <1>5 DEF Stacked
<1>7. ~Ended(Top(t)) /\ Awaits(t).op \in Reads
  <2>1. AwaitsRead(fs[1]) /\ fs[1] \in Activation /\ fs[1].code \in Codes
    BY <1>4, <1>5
  <2>2. Len(fs[1].code.steps) \in Nat /\ fs[1].pc \in Nat
    BY <2>1, CodesTyped, LenProperties DEF Activation
  <2> QED BY <1>3, <2>1, <2>2 DEF AwaitsRead, Ended, Top, Awaits
<1> QED BY <1>3, <1>4, <1>6, <1>7 DEF t

LEMMA LeaveSound ==
  ASSUME NEW s, Stacked(s), s.frames # <<>>, s.st = "run",
         scenario \in Scenarios, NEW r \in Slots, NEW v \in Val
  PROVE  Stacked(Leave(r, s, v))
<1>1. CASE Len(s.frames) = 1
  BY <1>1, AnswerSound DEF Leave
<1>2. CASE Len(s.frames) # 1
  BY <1>2, PopStacked, DeliverSound DEF Leave
<1> QED BY <1>1, <1>2

LEMMA ThrownSound ==
  ASSUME NEW s, Stacked(s), s.frames # <<>>, ~Ended(Top(s)), Awaits(s).op \in Reads
  PROVE  Stacked(Thrown(s))
<1> DEFINE op == Awaits(s).op
           w == Top(s).val
           t == [s EXCEPT !.st = "run"]
<1>0. w \in Val /\ s \in Handler /\ s.oper \in {None, "open", "completed", "failed"}
  BY TopTyped
<1>1. CASE op \in Surviving
  <2> DEFINE v == [w EXCEPT !.lost = TRUE, !.told = @ \/ op = "Try" \/ (op = "Spare" /\ w.lost)]
  <2>1. v \in Val
    BY <1>0 DEF Val
  <2>2. Stacked(t) /\ t.frames = s.frames /\ t.st = "run"
    BY <1>0 DEF Stacked, Handler
  <2>3. Top(t) = Top(s) /\ Awaits(t) = Awaits(s)
    BY <2>2 DEF Top, Awaits
  <2> HIDE DEF v, t
  <2>4. Stacked(Advance(t, v))
    BY <1>0, <2>1, <2>2, <2>3, AdvanceSound
  <2> QED BY <1>1, <2>4 DEF Thrown, Survive, GiveUp, v, t
<1>2. CASE op \notin Surviving
  <2> DEFINE o == IF op \in Recorded THEN "failed" ELSE s.oper
  <2>1. o \in {None, "open", "completed", "failed"}
    BY <1>0
  <2>2. Stacked(Raise([s EXCEPT !.oper = o]))
    BY <2>1, RaiseSound
  <2> QED BY <1>2, <2>2 DEF Thrown, Survive, GiveUp
<1> QED BY <1>1, <1>2

-----------------------------------------------------------------------------
(* What a step starts from.                                                *)
LEMMA AtStep ==
  ASSUME IInv, NEW r \in Slots, NEW ops, At(r, ops)
  PROVE  /\ Stacked(slot[r]) /\ slot[r].frames # <<>> /\ slot[r].st = "run"
         /\ ~Ended(Top(slot[r])) /\ Awaits(slot[r]).op \in ops /\ scenario \in Scenarios
         /\ Top(slot[r]).val \in Val /\ slot[r].scope \in SUBSET Areas
         /\ Top(slot[r]).code \in Codes /\ Top(slot[r]).pc \in 1 .. Len(Top(slot[r]).code.steps)
<1>1. Stacked(slot[r]) /\ slot[r].st = "run" /\ ~Ended(Top(slot[r])) /\ Awaits(slot[r]).op \in ops /\ scenario \in Scenarios
  BY DEF IInv, Globals, At, Current
<1>2. slot[r].frames # <<>>
  BY <1>1 DEF Stacked
<1>3. Top(slot[r]).val \in Val /\ slot[r].scope \in SUBSET Areas /\ Top(slot[r]).code \in Codes /\ Top(slot[r]).pc \in Nat \ {0}
  BY <1>1, <1>2, TopTyped
<1>4. Len(Top(slot[r]).code.steps) \in Nat
  BY <1>3, CodesTyped, LenProperties
<1>5. Top(slot[r]).pc \in 1 .. Len(Top(slot[r]).code.steps)
  BY <1>1, <1>3, <1>4 DEF Ended
<1> QED BY <1>1, <1>2, <1>3, <1>5

\* One handler moves to a sound state and nothing else is disturbed.
LEMMA BecomeInv ==
  ASSUME IInv, NEW r \in Slots, NEW s, Stacked(s), Become(r, s), Globals'
  PROVE  IInv'
<1>1. s \in Handler
  BY DEF Stacked
<1>2. slot' \in [Slots -> Handler]
  BY <1>1 DEF IInv, Become
<1>3. \A q \in Slots : Stacked(slot[q])'
  <2> SUFFICES ASSUME NEW q \in Slots PROVE Stacked(slot'[q])
    OBVIOUS
  <2>1. slot'[q] = IF q = r THEN s ELSE slot[q]
    BY DEF IInv, Become
  <2> QED BY <2>1 DEF IInv
<1> QED BY <1>2, <1>3 DEF IInv

LEMMA QuietGlobals ==
  ASSUME IInv, UNCHANGED <<scenario, cache, online, written, claim, effects, faults, calm>>
  PROVE  Globals'
  BY DEF IInv, Globals

\* A key carries what its dimensions say, and the whole scope where it has one.
LEMMA KeyTyped ==
  ASSUME IInv, NEW r \in Slots, NEW k
  PROVE  KeyOf(r, k) \in KeyDim /\ ("scope" \in Dims[k] => KeyOf(r, k).seen = slot[r].scope)
<1>1. Caller(r) \in Callers /\ Area(r) \in Areas
  BY RequestTyped DEF IInv, Globals
<1>3. slot[r].scope \in SUBSET Areas
  BY DEF IInv, Handler
<1>4. /\ KeyOf(r, k).who \in {Caller(r), RoleOf[Caller(r)], None}
      /\ KeyOf(r, k).area \in {Area(r), None}
  BY DEF KeyOf
<1>5. /\ KeyOf(r, k).seen \in SUBSET Areas
      /\ "scope" \in Dims[k] => KeyOf(r, k).seen = slot[r].scope
  BY <1>3 DEF KeyOf
<1>6. KeyOf(r, k) = [who |-> KeyOf(r, k).who, seen |-> KeyOf(r, k).seen, area |-> KeyOf(r, k).area]
  BY DEF KeyOf
<1> QED BY <1>1, <1>4, <1>5, <1>6 DEF KeyDim

\* What is stored is an entry.
LEMMA StoreSound ==
  ASSUME IInv, NEW r \in Slots, NEW k \in DOMAIN Dims, NEW v \in Val
  PROVE  StoredIn(r, k, v) \subseteq Entry
<1> DEFINE e == [key |-> k, dim |-> KeyOf(r, k), val |-> v]
           c == StoredIn(r, k, v)
<1>1. e \in Entry
  BY KeyTyped DEF Entry
<1>2. c \subseteq cache \cup {e}
  BY DEF StoredIn
<1>3. cache \subseteq Entry
  BY DEF IInv, Globals
<1> QED BY <1>1, <1>2, <1>3

\* What the step at hand stores is declared.
LEMMA PutDeclared ==
  ASSUME IInv, NEW r \in Slots, At(r, Puts)
  PROVE  Current(r).arg \in DOMAIN Dims
<1> DEFINE f == slot[r].frames[1]
           i == f.pc
<1>1. f.code \in Codes /\ i \in 1 .. Len(f.code.steps) /\ Current(r).op \in Puts
  BY AtStep DEF Top, At
<1>2. PICK p \in DOMAIN Prog : f.code = Prog[p]
  BY <1>1 DEF Codes
<1>3. i \in DOMAIN Prog[p].steps
  BY <1>1, <1>2, CodesTyped, LenProperties
<1>4. Current(r) = Prog[p].steps[i]
  BY <1>2 DEF Current, Awaits, Top
<1> QED BY <1>1, <1>3, <1>4, PutsAssumption

-----------------------------------------------------------------------------
(* One lemma per kind of step.                                             *)

\* A handler moves on and the rest of the state stays.
LEMMA QuietStep ==
  ASSUME IInv, NEW r \in Slots, NEW s, Stacked(s), Become(r, s),
         UNCHANGED <<scenario, cache, online, written, claim, effects, faults, calm>>
  PROVE  IInv'
  BY QuietGlobals, BecomeInv

LEMMA BeginInv ==
  ASSUME IInv, NEW r \in Slots, Begin(r)
  PROVE  IInv'
<1> DEFINE f == Frame(scenario.req[r].prog)
           s == Fresh("run", <<f>>, slot[r].runs - 1)
<1>1. scenario.req[r].prog \in DOMAIN Prog /\ slot[r].runs \in Nat /\ slot[r].runs > 0
  BY RequestTyped DEF IInv, Globals, Begin, Handler
<1>2. f.code \in Codes /\ f.code \in Code /\ f.pc = 1 /\ f \in Activation
  BY <1>1, CodesTyped, BlankTyped DEF Frame, Codes, Activation
<1> HIDE DEF f
<1>3. <<f>> \in Seq(Activation) /\ Len(<<f>>) = 1 /\ <<f>>[1] = f /\ <<f>> # <<>>
  BY <1>2
<1>4. s = [st |-> "run", frames |-> <<f>>, scope |-> {}, oper |-> None,
           kind |-> None, val |-> Blank, runs |-> slot[r].runs - 1]
  BY DEF Fresh
<1> HIDE DEF s
<1>5. s.runs \in Nat
  BY <1>1, <1>4
<1>6. s \in Handler
  BY <1>3, <1>4, <1>5, BlankTyped DEF Handler
<1>7. Stacked(s)
  BY <1>2, <1>3, <1>4, <1>6 DEF Stacked
<1> QED BY <1>7, QuietStep DEF Begin, s, f

LEMMA DenySound ==
  ASSUME NEW s, Stacked(s)
  PROVE  Stacked(Deny(s))
  BY AnswerSound, BlankTyped DEF Deny

LEMMA AdmitInv ==
  ASSUME IInv, NEW r \in Slots, Admit(r) \/ requireRole(r) \/ namespaceVisible(r)
  PROVE  IInv'
<1> DEFINE ops == {"Session", "Check", "Found", "Role", "Gate"}
<1>1. At(r, ops)
  BY DEF Admit, requireRole, namespaceVisible, At
<1>2. Stacked(Onward(slot[r])) /\ Stacked(Deny(slot[r]))
  BY <1>1, AtStep, OnwardSound, DenySound
<1> QED BY <1>2, QuietStep DEF Admit, requireRole, namespaceVisible

LEMMA ScopeOfNobodyInv ==
  ASSUME IInv, NEW r \in Slots, ScopeOfNobody(r)
  PROVE  IInv'
<1>1. At(r, {"Scope"})
  BY DEF ScopeOfNobody
<1>2. Stacked([Onward(slot[r]) EXCEPT !.scope = {}])
  <2> DEFINE A == {}
             s == slot[r]
  <2>1. A \in SUBSET Areas /\ None \in {None, "open", "completed", "failed"}
    OBVIOUS
  <2>2. Stacked(s) /\ s.frames # <<>> /\ s.st = "run" /\ ~Ended(Top(s))
    BY <1>1, AtStep
  <2> HIDE DEF A, s
  <2>3. Stacked([Onward(s) EXCEPT !.scope = A])
    BY <2>1, <2>2, OnwardFree
  <2> QED BY <2>3 DEF A, s
<1> QED BY <1>2, QuietStep DEF ScopeOfNobody

LEMMA ProjectInv ==
  ASSUME IInv, NEW r \in Slots, Project(r)
  PROVE  IInv'
<1> DEFINE s == slot[r]
           v == Top(s).val
           w == IF Current(r).op = "Filter" THEN [v EXCEPT !.shows = @ \cap slot[r].scope]
                ELSE [v EXCEPT !.told = @ /\ Caller(r) \in Everything]
<1>1. At(r, {"Filter", "Hush"})
  BY DEF Project
<1>2. v \in Val
  BY <1>1, AtStep
<1>3. w \in Val
  BY <1>2 DEF Val
<1> HIDE DEF w
<1>5. Stacked(Advance(s, w))
  BY <1>1, <1>3, AtStep, AdvanceSound
<1> QED BY <1>5, QuietStep DEF Project, w

-----------------------------------------------------------------------------
(* Cache steps.                                                            *)

\* A hit is an entry's value.
LEMMA cacheGetInv ==
  ASSUME IInv, NEW r \in Slots, cacheGet(r)
  PROVE  IInv'
<1>1. At(r, {"Hit"})
  BY DEF cacheGet
<1>2. Stacked(Onward(slot[r]))
  BY <1>1, AtStep, OnwardSound
<1>3. \A e \in cache : Stacked(Leave(r, slot[r], e.val))
  <2> SUFFICES ASSUME NEW e \in cache PROVE Stacked(Leave(r, slot[r], e.val))
    OBVIOUS
  <2>1. e.val \in Val
    BY DEF IInv, Globals, Entry
  <2> QED BY <1>1, <2>1, AtStep, LeaveSound
<1>4. \/ Become(r, Onward(slot[r]))
      \/ \E e \in cache : Become(r, Leave(r, slot[r], e.val))
  BY DEF cacheGet, Entries
<1> QED BY <1>2, <1>3, <1>4, QuietStep DEF cacheGet

\* Replacing the cache by a sound one.
LEMMA CacheGlobals ==
  ASSUME IInv, cache' \subseteq Entry,
         scenario' = scenario, online' = online, written' = written, claim' = claim,
         effects' = effects, faults' \in Nat, calm' \in BOOLEAN
  PROVE  Globals'
  BY DEF IInv, Globals

LEMMA SmallerCache ==
  ASSUME IInv, cache' \subseteq cache
  PROVE  cache' \subseteq Entry
  BY DEF IInv, Globals

LEMMA GlobalsTyped ==
  ASSUME IInv
  PROVE  faults \in Nat /\ effects \in Nat /\ calm \in BOOLEAN /\ online \in BOOLEAN /\ written \in BOOLEAN
         /\ scenario \in Scenarios
  BY DEF IInv, Globals

LEMMA cacheSetInv ==
  ASSUME IInv, NEW r \in Slots, cacheSet(r)
  PROVE  IInv'
<1>1. At(r, {"Put", "PutWhole", "PutIfSome"}) /\ At(r, Puts) /\ Current(r).op # "Nothing"
  BY DEF cacheSet, At, Puts
<1>2. Stacked(Onward(slot[r])) /\ Top(slot[r]).val \in Val
  BY <1>1, AtStep, OnwardSound
<1>3. cache' \subseteq Entry
  <2>1. CASE cache' = StoredIn(r, Current(r).arg, Top(slot[r]).val)
    BY <1>1, <1>2, <2>1, PutDeclared, StoreSound
  <2>2. CASE UNCHANGED cache
    BY <2>2, SmallerCache
  <2> QED BY <2>1, <2>2 DEF cacheSet
<1>4. Globals'
  BY <1>3, CacheGlobals, GlobalsTyped DEF cacheSet
<1> QED BY <1>2, <1>4, BecomeInv DEF cacheSet

LEMMA AnswerNothingInv ==
  ASSUME IInv, NEW r \in Slots, AnswerNothing(r)
  PROVE  IInv'
<1>1. At(r, {"Nothing"}) /\ At(r, Puts)
  BY DEF AnswerNothing, At, Puts
<1>2. Stacked(Onward(slot[r])) /\ Stacked(Leave(r, slot[r], Blank))
  BY <1>1, AtStep, OnwardSound, LeaveSound, BlankTyped
<1>3. cache' \subseteq Entry
  <2>1. CASE cache' = StoredIn(r, Current(r).arg, Blank)
    BY <1>1, <2>1, PutDeclared, StoreSound, BlankTyped
  <2>2. CASE UNCHANGED cache
    BY <2>2, SmallerCache
  <2> QED BY <2>1, <2>2 DEF AnswerNothing
<1>4. Globals'
  BY <1>3, CacheGlobals, GlobalsTyped DEF AnswerNothing
<1> QED BY <1>2, <1>4, BecomeInv DEF AnswerNothing

LEMMA DeleteInv ==
  ASSUME IInv, NEW r \in Slots, cacheDel(r) \/ deletePattern(r)
  PROVE  IInv'
<1>1. At(r, {"Del", "Purge"})
  BY DEF cacheDel, deletePattern, At
<1>2. Stacked(Onward(slot[r]))
  BY <1>1, AtStep, OnwardSound
<1>3. cache' \subseteq cache /\ faults' \in Nat /\ calm' \in BOOLEAN
  <2>1. CASE cacheDel(r)
    <3>1. cache' \subseteq cache
      BY <2>1 DEF cacheDel
    <3>2. faults' \in Nat
      BY <2>1, GlobalsTyped DEF cacheDel
    <3>3. calm' \in BOOLEAN
      BY <2>1, Zenon DEF cacheDel
    <3> QED BY <3>1, <3>2, <3>3
  <2>2. CASE deletePattern(r)
    <3>1. cache' \subseteq cache
      BY <2>2 DEF deletePattern
    <3>2. faults' \in Nat
      BY <2>2, GlobalsTyped DEF deletePattern, Spend
    <3>3. calm' \in BOOLEAN
      BY <2>2, GlobalsTyped, Zenon DEF deletePattern
    <3> QED BY <3>1, <3>2, <3>3
  <2> QED BY <2>1, <2>2
<1>4. Globals'
  BY <1>3, SmallerCache, CacheGlobals DEF cacheDel, deletePattern
<1> QED BY <1>2, <1>4, BecomeInv DEF cacheDel, deletePattern

-----------------------------------------------------------------------------
(* Reads and throws.                                                       *)

\* A call pushes the frame of the program that is read.
LEMMA PushSound ==
  ASSUME NEW s, Stacked(s), s.frames # <<>>, s.st = "run", ~Ended(Top(s)), Awaits(s).op \in Reads,
         NEW p \in DOMAIN Prog
  PROVE  Stacked([s EXCEPT !.frames = <<Frame(p)>> \o @])
<1> DEFINE f == Frame(p)
           fs == <<f>> \o s.frames
           t == [s EXCEPT !.frames = fs]
<1>1. f.code \in Codes /\ f.code \in Code /\ f.pc = 1 /\ f \in Activation
  BY CodesTyped, BlankTyped DEF Frame, Codes, Activation
<1>2. s.frames \in Seq(Activation) /\ Len(s.frames) \in Nat \ {0} /\ s \in Handler
  BY FramesTyped DEF Stacked, Handler
<1> HIDE DEF f
<1>3. <<f>> \in Seq(Activation) /\ Len(<<f>>) = 1 /\ <<f>>[1] = f
  BY <1>1
<1>4. /\ fs \in Seq(Activation) /\ Len(fs) = Len(s.frames) + 1
      /\ fs[1] = f
      /\ \A i \in 2 .. Len(fs) : fs[i] = s.frames[i - 1]
  <2>1. fs \in Seq(Activation) /\ Len(fs) = Len(<<f>>) + Len(s.frames)
    BY <1>2, <1>3, ConcatProperties
  <2>2. \A i \in 1 .. Len(<<f>>) + Len(s.frames) :
          fs[i] = IF i <= Len(<<f>>) THEN <<f>>[i] ELSE s.frames[i - Len(<<f>>)]
    BY <1>2, <1>3, ConcatProperties
  <2> HIDE DEF fs
  <2> QED BY <1>2, <1>3, <2>1, <2>2
<1>5. t \in Handler /\ t.frames = fs /\ t.st = "run" /\ t.scope = s.scope
  <2> HIDE DEF fs
  <2> QED BY <1>2, <1>4 DEF Handler
<1> HIDE DEF fs, t
<1>6. \A i \in 1 .. Len(fs) : fs[i].code \in Codes
  <2> SUFFICES ASSUME NEW i \in 1 .. Len(fs) PROVE fs[i].code \in Codes
    OBVIOUS
  <2>1. CASE i = 1
    BY <1>1, <1>4, <2>1
  <2>2. CASE i # 1
    <3>1. i \in 2 .. Len(fs) /\ i - 1 \in 1 .. Len(s.frames)
      BY <1>2, <1>4, <2>2
    <3> QED BY <1>4, <3>1 DEF Stacked
  <2> QED BY <2>1, <2>2
<1>7. \A i \in 2 .. Len(fs) : AwaitsRead(fs[i])
  <2> SUFFICES ASSUME NEW i \in 2 .. Len(fs) PROVE AwaitsRead(s.frames[i - 1])
    BY <1>4
  <2>1. CASE i = 2
    <3>1. Len(s.frames[1].code.steps) \in Nat /\ s.frames[1].pc \in Nat
      <4>1. Top(s).code \in Codes /\ Top(s).pc \in Nat
        BY TopTyped
      <4> QED BY <4>1, CodesTyped, LenProperties DEF Top
    <3> QED BY <2>1, <3>1 DEF AwaitsRead, Ended, Top, Awaits
  <2>2. CASE i # 2
    <3>1. i - 1 \in 2 .. Len(s.frames)
      BY <1>2, <1>4, <2>2
    <3> QED BY <3>1 DEF Stacked
  <2> QED BY <2>1, <2>2
<1>8. fs # <<>>
  BY <1>2, <1>4, EmptySeq
<1>9. Stacked(t)
  BY <1>1, <1>4, <1>5, <1>6, <1>7, <1>8 DEF Stacked
<1> QED BY <1>9 DEF t, fs, f

LEMMA CallInv ==
  ASSUME IInv, NEW r \in Slots, Call(r)
  PROVE  IInv'
<1>1. At(r, Reads) /\ Current(r).arg \in DOMAIN Prog
  BY DEF Call
<1> DEFINE s == [slot[r] EXCEPT !.frames = <<Frame(Current(r).arg)>> \o @]
<1>2. Stacked(s)
  BY <1>1, AtStep, PushSound
<1> HIDE DEF s
<1>3. Become(r, s)
  BY DEF Call, s
<1> QED BY <1>2, <1>3, QuietStep DEF Call

LEMMA ReturnInv ==
  ASSUME IInv, NEW r \in Slots, Return(r)
  PROVE  IInv'
<1>1. Stacked(slot[r]) /\ slot[r].st = "run" /\ slot[r].frames # <<>>
  BY DEF IInv, Return, Stacked
<1>2. Top(slot[r]).val \in Val
  BY <1>1, TopTyped
<1>3. Stacked(Leave(r, slot[r], Top(slot[r]).val))
  BY <1>1, <1>2, LeaveSound, GlobalsTyped
<1> QED BY <1>3, QuietStep DEF Return

\* What an upstream answers is a value, and a cut list costs a failure.
LEMMA UpstreamTyped ==
  ASSUME IInv, NEW r \in Slots, NEW e, NEW v \in Upstream(r, e)
  PROVE  v \in Val /\ (v.lost => faults > 0)
<1> DEFINE S == CASE e \in ObjectReads -> {Area(r)} [] e \in PlainReads -> {} [] OTHER -> Areas
           o == e \in scenario.touched /\ ~written
           whole == [lost |-> FALSE, told |-> FALSE, old |-> o, shows |-> S]
<1>1. S \in SUBSET Areas
  BY RequestTyped, GlobalsTyped
<1>2. o \in BOOLEAN
  BY Zenon
<1> HIDE DEF S, o
<1>4. whole \in Val /\ ~whole.lost
  BY <1>1, <1>2 DEF Val
<1> HIDE DEF whole
<1>5. v \in {whole} \cup
        (IF e \in Paged /\ faults > 0
         THEN {[whole EXCEPT !.lost = TRUE, !.told = TRUE, !.shows = @ \ {a}] : a \in Areas} ELSE {})
  BY DEF Upstream, whole, S, o
<1>6. CASE v = whole
  BY <1>4, <1>6
<1>7. CASE v # whole
  <2>1. faults > 0 /\ \E a \in Areas : v = [whole EXCEPT !.lost = TRUE, !.told = TRUE, !.shows = @ \ {a}]
    BY <1>5, <1>7
  <2>2. v \in Val
    BY <1>4, <2>1 DEF Val
  <2> QED BY <2>1, <2>2
<1> QED BY <1>6, <1>7

\* Only a handler and the failures left change.
LEMMA FaultStep ==
  ASSUME IInv, NEW r \in Slots, NEW s, Stacked(s), Become(r, s), faults' \in Nat,
         UNCHANGED <<scenario, cache, online, written, claim, effects, calm>>
  PROVE  IInv'
<1>1. Globals'
  BY DEF IInv, Globals
<1> QED BY <1>1, BecomeInv

LEMMA FetchInv ==
  ASSUME IInv, NEW r \in Slots, Fetch(r)
  PROVE  IInv'
<1>1. At(r, Reads)
  BY DEF Fetch
<1>2. PICK v \in Upstream(r, Current(r).arg) :
        Become(r, Deliver(r, slot[r], v)) /\ faults' = IF v.lost THEN faults - 1 ELSE faults
  BY DEF Fetch
<1>3. v \in Val /\ (v.lost => faults > 0)
  BY UpstreamTyped
<1>4. faults' \in Nat
  BY <1>2, <1>3, GlobalsTyped
<1>5. Stacked(Deliver(r, slot[r], v))
  BY <1>1, <1>3, AtStep, DeliverSound
<1> QED BY <1>2, <1>4, <1>5, FaultStep DEF Fetch

LEMMA FailInv ==
  ASSUME IInv, NEW r \in Slots, FetchFails(r) \/ VerdictFails(r)
  PROVE  IInv'
<1>1. At(r, Reads)
  BY DEF FetchFails, VerdictFails, At, Reads, Propagating, Recorded
<1>2. Stacked(Thrown(slot[r])) /\ Stacked(Raise([slot[r] EXCEPT !.oper = "failed"]))
  BY <1>1, AtStep, ThrownSound, RaiseSound
<1>3. faults' \in Nat
  BY GlobalsTyped DEF FetchFails, VerdictFails, Spend
<1> QED BY <1>2, <1>3, FaultStep DEF FetchFails, VerdictFails

\* Only a handler and the claim change.
LEMMA ClaimStep ==
  ASSUME IInv, NEW r \in Slots, NEW s, Stacked(s), Become(r, s),
         claim' \in [st: {"absent", "pending", "done"}, body: STRING \cup {None}],
         UNCHANGED <<scenario, cache, online, written, effects, faults, calm>>
  PROVE  IInv'
<1>1. Globals'
  BY DEF IInv, Globals
<1> QED BY <1>1, BecomeInv

LEMMA SettledTyped ==
  ASSUME IInv, NEW r \in Slots
  PROVE  /\ Settled(r) \in [st: {"absent", "pending", "done"}, body: STRING \cup {None}]
         /\ claim \in [st: {"absent", "pending", "done"}, body: STRING \cup {None}]
<1>1. scenario.req[r].body \in STRING
  BY RequestTyped, GlobalsTyped
<1>2. claim \in [st: {"absent", "pending", "done"}, body: STRING \cup {None}]
  BY DEF IInv, Globals
<1> QED BY <1>1, <1>2 DEF Settled

LEMMA CatchInv ==
  ASSUME IInv, NEW r \in Slots, Catch(r)
  PROVE  IInv'
<1> DEFINE s == slot[r]
           fail == Top(s).code.fail
           outer == [s EXCEPT !.frames = Tail(@)]
           u == [s EXCEPT !.st = "run"]
           b == [Blank EXCEPT !.lost = TRUE, !.told = (fail = "told")]
           z == CASE fail \in {"empty", "told"} -> Leave(r, u, b)
                  [] fail = "throw" /\ Len(s.frames) > 1 -> Thrown(outer)
                  [] OTHER -> Answer(s, "error", Blank)
<1>1. Stacked(s) /\ s.st = "raise" /\ s.frames # <<>> /\ s \in Handler
  BY DEF IInv, Catch, Stacked
<1>2. Stacked(Leave(r, u, b))
  <2>1. Stacked(u) /\ u.frames # <<>> /\ u.st = "run"
    BY <1>1 DEF Stacked, Handler
  <2>2. b \in Val
    BY BlankTyped DEF Val
  <2> HIDE DEF u, b
  <2> QED BY <2>1, <2>2, LeaveSound, GlobalsTyped
<1>3. Stacked(Answer(s, "error", Blank))
  BY <1>1, AnswerSound, BlankTyped
<1>4. ASSUME Len(s.frames) > 1 PROVE Stacked(Thrown(outer))
  <2>1. Len(s.frames) # 1
    <3> DEFINE n == Len(s.frames)
    <3>1. n > 1
      BY <1>4
    <3>2. n \in Nat
      BY <1>1, FramesTyped
    <3> HIDE DEF n
    <3>3. n # 1
      BY <3>1, <3>2
    <3> QED BY <3>3 DEF n
  <2>2. Stacked(outer) /\ outer.frames # <<>> /\ ~Ended(Top(outer)) /\ Awaits(outer).op \in Reads
    BY <1>1, <2>1, PopStacked
  <2> HIDE DEF outer
  <2> QED BY <2>2, ThrownSound
<1> HIDE DEF u, b
<1>5. Stacked(z)
  BY <1>2, <1>3, <1>4
<1>6. Become(r, z)
  BY DEF Catch, u, b
<1>7. claim' \in [st: {"absent", "pending", "done"}, body: STRING \cup {None}]
  BY SettledTyped DEF Catch
<1> HIDE DEF z
<1> QED BY <1>5, <1>6, <1>7, ClaimStep DEF Catch

-----------------------------------------------------------------------------
(* Mutations.                                                              *)
LEMMA ChangeInv ==
  ASSUME IInv, NEW r \in Slots, Change(r)
  PROVE  IInv'
<1>1. At(r, {"Write"})
  BY DEF Change
<1>2. Stacked(Onward(slot[r])) /\ Stacked(Raise(slot[r]))
  <2>1. None \in {None, "open", "completed", "failed"}
    OBVIOUS
  <2>2. /\ Stacked(slot[r]) /\ slot[r].frames # <<>> /\ slot[r].st = "run"
        /\ ~Ended(Top(slot[r]))
    BY <1>1, AtStep
  <2>3. Stacked(Raise(slot[r]))
    BY <2>1, <2>2, RaiseSound
  <2>4. Stacked(Onward(slot[r]))
    BY <2>2, OnwardSound
  <2> QED BY <2>3, <2>4
<1>3. faults' \in Nat
  BY GlobalsTyped DEF Change, Spend
<1>4. effects' \in Nat
  BY GlobalsTyped DEF Change
<1>5. written' \in BOOLEAN
  BY GlobalsTyped, Zenon DEF Change
<1>6. calm' \in BOOLEAN
  BY GlobalsTyped, Zenon DEF Change
<1>7. Globals'
  BY <1>3, <1>4, <1>5, <1>6 DEF IInv, Globals, Change
<1>8. Become(r, Onward(slot[r])) \/ Become(r, Raise(slot[r]))
  BY DEF Change
<1> QED BY <1>2, <1>7, <1>8, BecomeInv

LEMMA claimIdempotencyKeyInv ==
  ASSUME IInv, NEW r \in Slots, claimIdempotencyKey(r)
  PROVE  IInv'
<1>1. At(r, {"Claim"})
  BY DEF claimIdempotencyKey
<1>2. Stacked(Onward(slot[r])) /\ Stacked(Deny(slot[r])) /\ Stacked(Answer(slot[r], "dup", Blank))
  BY <1>1, AtStep, OnwardSound, DenySound, AnswerSound, BlankTyped
<1>3. scenario.req[r].body \in STRING
  BY RequestTyped, GlobalsTyped
<1>4. claim' \in [st: {"absent", "pending", "done"}, body: STRING \cup {None}]
  BY <1>3, SettledTyped DEF claimIdempotencyKey
<1>5. \/ Become(r, Onward(slot[r])) \/ Become(r, Deny(slot[r]))
      \/ Become(r, Answer(slot[r], "dup", Blank))
  BY DEF claimIdempotencyKey
<1>6. UNCHANGED <<scenario, cache, online, written, effects, faults, calm>>
  BY DEF claimIdempotencyKey
<1> QED BY <1>2, <1>4, <1>5, <1>6, ClaimStep

LEMMA fulfillIdempotencyKeyInv ==
  ASSUME IInv, NEW r \in Slots, fulfillIdempotencyKey(r)
  PROVE  IInv'
<1>1. At(r, {"Fulfill"})
  BY DEF fulfillIdempotencyKey
<1>2. Stacked(Onward(slot[r]))
  BY <1>1, AtStep, OnwardSound
<1> QED BY <1>2, SettledTyped, ClaimStep DEF fulfillIdempotencyKey

LEMMA LifecycleInv ==
  ASSUME IInv, NEW r \in Slots, Lifecycle(r)
  PROVE  IInv'
<1> DEFINE o == IF Current(r).op = "Open" THEN "open" ELSE "completed"
           s == [Onward(slot[r]) EXCEPT !.oper = o]
<1>1. At(r, {"Open", "Done"})
  BY DEF Lifecycle
<1>2. o \in {None, "open", "completed", "failed"}
  OBVIOUS
<1>3. Become(r, s)
  BY DEF Lifecycle
<1> HIDE DEF o
<1>4. Stacked(s)
  <2>1. {} \in SUBSET Areas
    OBVIOUS
  <2> DEFINE t == slot[r]
  <2>2. Stacked(t) /\ t.frames # <<>> /\ t.st = "run" /\ ~Ended(Top(t))
    BY <1>1, AtStep
  <2> HIDE DEF t
  <2>3. Stacked([Onward(t) EXCEPT !.oper = o])
    BY <1>2, <2>1, <2>2, OnwardFree
  <2> QED BY <2>3 DEF t
<1> HIDE DEF s
<1> QED BY <1>3, <1>4, QuietStep DEF Lifecycle

-----------------------------------------------------------------------------
(* The environment.                                                        *)
LEMMA EnvironmentInv ==
  ASSUME IInv, Expire \/ CommandFails \/ Connect
  PROVE  IInv'
<1>1. faults' \in Nat
  BY GlobalsTyped DEF Expire, CommandFails, Connect, Spend
<1>2. online' \in BOOLEAN
  BY GlobalsTyped DEF Expire, CommandFails, Connect
<1>3. cache' \subseteq cache
  BY DEF Expire, CommandFails, Connect
<1>4. UNCHANGED <<scenario, written, claim, effects, slot, calm>>
  BY DEF Expire, CommandFails, Connect
<1> QED BY <1>1, <1>2, <1>3, <1>4 DEF IInv, Globals

LEMMA CrashInv ==
  ASSUME IInv, Crash
  PROVE  IInv'
<1>1. faults' \in Nat
  BY GlobalsTyped DEF Crash, Spend
<1>2. Globals'
  BY <1>1 DEF IInv, Globals, Crash
<1>3. \A r \in Slots : Stacked(slot'[r])
  <2> SUFFICES ASSUME NEW r \in Slots PROVE Stacked(slot'[r])
    OBVIOUS
  <2>1. Stacked(slot[r]) /\ Stacked(Answer(slot[r], "lost", Blank))
    BY AnswerSound, BlankTyped DEF IInv
  <2>2. slot'[r] = Answer(slot[r], "lost", Blank) \/ slot'[r] = slot[r]
    BY DEF Crash
  <2> QED BY <2>1, <2>2
<1>4. slot' \in [Slots -> Handler]
  <2>1. \A r \in Slots : slot'[r] \in Handler
    BY <1>3 DEF Stacked
  <2>2. slot' = [r \in Slots |-> IF Working(r) THEN Answer(slot[r], "lost", Blank) ELSE slot[r]]
    BY DEF Crash
  <2> QED BY <2>1, <2>2
<1> QED BY <1>2, <1>3, <1>4 DEF IInv

-----------------------------------------------------------------------------
LEMMA InitInv == Init => IInv
<1> SUFFICES ASSUME Init PROVE IInv
  OBVIOUS
<1>1. <<>> \in Seq(Activation) /\ Len(<<>>) = 0
  BY EmptySeq
<1>2. ASSUME NEW r \in Slots PROVE Stacked(slot[r])
  <2> DEFINE s == Fresh("idle", <<>>, scenario.req[r].runs)
  <2>1. scenario.req[r].runs \in Nat
    BY RequestTyped DEF Init
  <2>2. s \in Handler /\ s.st = "idle" /\ s.frames = <<>>
    <3>1. s.st = "idle" /\ s.frames = <<>>
      BY DEF Fresh
    <3>2. s \in Handler
      BY <1>1, <2>1, FreshTyped
    <3> QED BY <3>1, <3>2
  <2> HIDE DEF s
  <2>3. Stacked(s)
    BY <1>1, <2>2 DEF Stacked
  <2>4. slot[r] = s
    BY DEF Init, s
  <2> QED BY <2>3, <2>4
<1>3. slot \in [Slots -> Handler]
  <2>1. \A r \in Slots : slot[r] \in Handler
    BY <1>2 DEF Stacked
  <2>2. slot = [r \in Slots |-> Fresh("idle", <<>>, scenario.req[r].runs)]
    BY DEF Init
  <2> QED BY <2>1, <2>2
<1>4. Globals
  <2>1. scenario.faults \in Nat
    BY ScenarioAssumption DEF Init
  <2>2. NoClaim \in [st: {"absent", "pending", "done"}, body: STRING \cup {None}]
    BY DEF NoClaim
  <2> QED BY <2>1, <2>2 DEF Init, Globals
<1> QED BY <1>2, <1>3, <1>4 DEF IInv

LEMMA NextInv == IInv /\ [Next]_vars => IInv'
<1> SUFFICES ASSUME IInv, [Next]_vars PROVE IInv'
  OBVIOUS
<1>1. CASE UNCHANGED vars
  BY <1>1 DEF vars, IInv, Globals
<1>2. ASSUME NEW r \in Slots, Step(r) PROVE IInv'
  BY <1>2, BeginInv, AdmitInv, ScopeOfNobodyInv, ProjectInv, cacheGetInv, cacheSetInv, AnswerNothingInv,
     DeleteInv, CallInv, ReturnInv, FetchInv, FailInv, CatchInv, ChangeInv, claimIdempotencyKeyInv,
     fulfillIdempotencyKeyInv, LifecycleInv DEF Step
<1>3. CASE Expire \/ CommandFails \/ Connect
  BY <1>3, EnvironmentInv
<1>4. CASE Crash
  BY <1>4, CrashInv
<1> QED BY <1>1, <1>2, <1>3, <1>4 DEF Next

\* Whatever the programs, the registry of keys and the requests are, every
\* variable keeps its type and a handler that runs has a program to run.
THEOREM RequestTyping == Spec => []TypeOK
<1>1. IInv => TypeOK
  BY DEF IInv, Globals, Stacked, TypeOK, Working
<1> QED BY <1>1, InitInv, NextInv, PTL DEF Spec

-----------------------------------------------------------------------------
(* Missing data.  A frame's value is as good as the steps behind it: if    *)
(* all of them are frank it admits what it misses, if all are whole it     *)
(* misses nothing.  A frame that waits for a program has that program on   *)
(* top of it, so what is returned to it is what LossFlow says of the       *)
(* program it names.                                                       *)

\* v answers a read of a.
Given(a, v) ==
  /\ FrankRead(a) /\ v.lost => v.told
  /\ WholeRead(a) => ~v.lost

\* v is what program text c returns.
Yields(c, v) == \A p \in DOMAIN Prog : c = Prog[p] => Given(p, v)

\* v is what the steps of c before the n-th leave.
Leaves(c, n, v) ==
  /\ FrankBefore(c, n) /\ v.lost => v.told
  /\ WholeBefore(c, n) => ~v.lost

Linked(f, g) ==
  /\ g.code.steps[g.pc].arg \in DOMAIN Prog
  /\ f.code = Prog[g.code.steps[g.pc].arg]

Flowing(p, s) ==
  /\ \A i \in 1 .. Len(s.frames) : Leaves(s.frames[i].code, s.frames[i].pc, s.frames[i].val)
  /\ \A i \in 2 .. Len(s.frames) : Linked(s.frames[i - 1], s.frames[i])
  /\ s.frames # <<>> => s.frames[Len(s.frames)].code = Prog[p]
  /\ s.kind = "ok" => Given(p, s.val)

EntriesFlow ==
  \A e \in cache :
    /\ e.key \in Marked /\ e.val.lost => e.val.told
    /\ e.key \in Guarded => ~e.val.lost

FlowPart == (\A r \in Slots : Flowing(Program(r), slot[r])) /\ EntriesFlow

FlowInv == IInv /\ FlowPart

LEMMA BlankFlows ==
  /\ \A a : Given(a, Blank)
  /\ \A c : Yields(c, Blank)
  /\ \A c, n : Leaves(c, n, Blank)
  BY DEF Given, Yields, Leaves, Blank

\* What is before the next step is what is before this one, and this one.
LEMMA BeforeNext ==
  ASSUME NEW c \in Codes, NEW n \in 1 .. Len(c.steps)
  PROVE  /\ FrankBefore(c, n + 1) <=> FrankBefore(c, n) /\ FrankStep(c.steps[n])
         /\ WholeBefore(c, n + 1) <=> WholeBefore(c, n) /\ WholeStep(c.steps[n])
<1>1. DOMAIN c.steps = 1 .. Len(c.steps) /\ Len(c.steps) \in Nat
  BY CodesTyped, LenProperties
<1>2. \A i \in DOMAIN c.steps : i < n + 1 <=> i < n \/ i = n
  BY <1>1
<1>3. n \in DOMAIN c.steps
  BY <1>1
<1>4. FrankBefore(c, n + 1) <=> FrankBefore(c, n) /\ FrankStep(c.steps[n])
  BY <1>1, <1>2, <1>3 DEF FrankBefore
<1>5. WholeBefore(c, n + 1) <=> WholeBefore(c, n) /\ WholeStep(c.steps[n])
  BY <1>1, <1>2, <1>3 DEF WholeBefore
<1> QED BY <1>4, <1>5

\* All steps of a program are before its end.
LEMMA BeforeEnd ==
  ASSUME NEW c \in Codes, NEW n \in Nat, n > Len(c.steps)
  PROVE  /\ FrankBefore(c, Len(c.steps) + 1) => FrankBefore(c, n)
         /\ WholeBefore(c, Len(c.steps) + 1) => WholeBefore(c, n)
<1>1. DOMAIN c.steps = 1 .. Len(c.steps) /\ Len(c.steps) \in Nat
  BY CodesTyped, LenProperties
<1>2. \A i \in DOMAIN c.steps : i < Len(c.steps) + 1
  BY <1>1
<1> QED BY <1>2 DEF FrankBefore, WholeBefore

\* One step of a program whose steps are all frank, or all whole.
LEMMA ProgramStep ==
  ASSUME NEW p \in DOMAIN Prog, NEW n \in 1 .. Len(Prog[p].steps)
  PROVE  /\ p \in Frank => FrankStep(Prog[p].steps[n]) /\ Prog[p].fail # "empty"
         /\ p \in Whole => WholeStep(Prog[p].steps[n]) /\ Prog[p].fail \in {"throw", "error"}
<1>1. DOMAIN Prog[p].steps = 1 .. Len(Prog[p].steps) /\ Len(Prog[p].steps) \in Nat
  BY CodesTyped, LenProperties DEF Codes
<1>2. n \in DOMAIN Prog[p].steps /\ n < Len(Prog[p].steps) + 1
  BY <1>1
<1> QED BY <1>2, FrankAssumption, WholeAssumption DEF FrankProgram, WholeProgram, FrankBefore, WholeBefore

\* Only the frames and the answer matter.
LEMMA SameFlow ==
  ASSUME NEW p, NEW s, Flowing(p, s), NEW t, t.frames = s.frames, t.kind = s.kind, t.val = s.val
  PROVE  Flowing(p, t)
  BY DEF Flowing

LEMMA AdvanceFlow ==
  ASSUME NEW p, NEW s, Stacked(s), s.frames # <<>>, Flowing(p, s), NEW v \in Val,
         Leaves(Top(s).code, Top(s).pc + 1, v)
  PROVE  Flowing(p, Advance(s, v))
<1> DEFINE t == Advance(s, v)
           n == Len(s.frames)
<1>1. /\ Len(t.frames) = n /\ n \in Nat \ {0}
      /\ t.frames[1].code = s.frames[1].code /\ t.frames[1].pc = s.frames[1].pc + 1 /\ t.frames[1].val = v
      /\ \A i \in 2 .. n : t.frames[i] = s.frames[i]
      /\ t.kind = s.kind /\ t.val = s.val
  BY AdvanceShape
<1>2. /\ \A i \in 1 .. n : Leaves(s.frames[i].code, s.frames[i].pc, s.frames[i].val)
      /\ \A i \in 2 .. n : Linked(s.frames[i - 1], s.frames[i])
      /\ s.frames[n].code = Prog[p]
      /\ s.kind = "ok" => Given(p, s.val)
  BY DEF Flowing
<1> HIDE DEF t, n
<1>3. ASSUME NEW i \in 1 .. n
      PROVE  Leaves(t.frames[i].code, t.frames[i].pc, t.frames[i].val) /\ t.frames[i].code = s.frames[i].code
  <2>1. CASE i = 1
    BY <1>1, <2>1 DEF Top
  <2>2. CASE i # 1
    <3>1. i \in 2 .. n
      BY <1>1, <2>2
    <3> QED BY <1>1, <1>2, <3>1
  <2> QED BY <2>1, <2>2
<1>4. ASSUME NEW i \in 2 .. n PROVE Linked(t.frames[i - 1], t.frames[i])
  <2>1. i - 1 \in 1 .. n
    BY <1>1
  <2>2. Linked(s.frames[i - 1], s.frames[i]) /\ t.frames[i] = s.frames[i] /\ t.frames[i - 1].code = s.frames[i - 1].code
    BY <1>1, <1>2, <1>3, <2>1
  <2> QED BY <2>2 DEF Linked
<1>5. t.frames[n].code = Prog[p]
  <2>1. n \in 1 .. n
    BY <1>1
  <2> QED BY <1>2, <1>3, <2>1
<1>6. Flowing(p, t)
  BY <1>1, <1>2, <1>3, <1>4, <1>5 DEF Flowing
<1> QED BY <1>6 DEF t

\* The step at hand leaves the value as it is.
LEMMA OnwardFlow ==
  ASSUME NEW p, NEW s, Stacked(s), s.frames # <<>>, ~Ended(Top(s)), Flowing(p, s)
  PROVE  Flowing(p, Onward(s))
<1>1. Top(s).val \in Val /\ Top(s).code \in Codes /\ Top(s).pc \in Nat \ {0}
  BY TopTyped
<1>2. Len(Top(s).code.steps) \in Nat
  BY <1>1, CodesTyped, LenProperties
<1>3. Top(s).pc \in 1 .. Len(Top(s).code.steps)
  BY <1>1, <1>2 DEF Ended
<1>4. 1 \in 1 .. Len(s.frames)
  BY FramesTyped DEF Stacked
<1>5. Leaves(Top(s).code, Top(s).pc, Top(s).val)
  BY <1>4 DEF Flowing, Top
<1>6. Leaves(Top(s).code, Top(s).pc + 1, Top(s).val)
  BY <1>1, <1>3, <1>5, BeforeNext DEF Leaves
<1> QED BY <1>1, <1>6, AdvanceFlow DEF Onward

LEMMA AnswerFlow ==
  ASSUME NEW p, NEW s, Stacked(s), NEW k, NEW v, k = "ok" => Given(p, v)
  PROVE  Flowing(p, Answer(s, k, v))
<1>1. Len(<<>>) = 0
  BY EmptySeq
<1>2. Answer(s, k, v).frames = <<>> /\ Answer(s, k, v).kind = k /\ Answer(s, k, v).val = v
  BY DEF Answer, Stacked, Handler
<1> QED BY <1>1, <1>2 DEF Flowing

LEMMA DeliverFlow ==
  ASSUME NEW p, NEW s, Stacked(s), s.frames # <<>>, s.st = "run", ~Ended(Top(s)), Awaits(s).op \in Reads,
         Flowing(p, s), NEW r \in Slots, NEW v \in Val, Given(Awaits(s).arg, v)
  PROVE  Flowing(p, Deliver(r, s, v))
<1> DEFINE op == Awaits(s).op
           c == Top(s).code
           n == Top(s).pc
           w == Top(s).val
<1>0. Flowing(p, Onward(s))
  BY OnwardFlow
<1>1. w \in Val /\ c \in Codes /\ n \in Nat \ {0} /\ 1 \in 1 .. Len(s.frames) /\ s \in Handler
  BY TopTyped, FramesTyped DEF Stacked
<1>2. Len(c.steps) \in Nat
  BY <1>1, CodesTyped, LenProperties
<1>3. n \in 1 .. Len(c.steps) /\ Awaits(s) = c.steps[n]
  BY <1>1, <1>2 DEF Ended, Awaits
<1>4. Leaves(c, n, w)
  BY <1>1 DEF Flowing, Top
<1>5. /\ FrankBefore(c, n + 1) => FrankBefore(c, n) /\ FrankStep(Awaits(s))
      /\ WholeBefore(c, n + 1) => WholeBefore(c, n) /\ WholeStep(Awaits(s))
  BY <1>1, <1>3, BeforeNext
<1>6. CASE op = "Scope"
  <2>1. Deliver(r, s, v) = [Onward(s) EXCEPT !.scope = Resolved(r, v)]
    BY <1>6 DEF Deliver
  <2>2. Onward(s) \in Handler
    BY <1>6, OnwardSound DEF Stacked
  <2>3. LET t == Deliver(r, s, v) IN
        t.frames = Onward(s).frames /\ t.kind = Onward(s).kind /\ t.val = Onward(s).val
    BY <2>1, <2>2 DEF Handler
  <2> QED BY <1>0, <2>3, SameFlow
<1>7. CASE op = "Must" /\ v.told
  <2>1. Deliver(r, s, v) = Raise(s)
    BY <1>7 DEF Deliver
  <2>2. Raise(s).frames = s.frames /\ Raise(s).kind = s.kind /\ Raise(s).val = s.val
    BY <1>1 DEF Raise, Handler
  <2> QED BY <2>1, <2>2, SameFlow
<1>8. CASE op = "Fire"
  BY <1>0, <1>8 DEF Deliver
<1>9. CASE op # "Scope" /\ ~(op = "Must" /\ v.told) /\ op # "Fire"
  <2> DEFINE m == Merge(w, v, op)
  <2>1. m \in Val /\ m.lost = (w.lost \/ v.lost) /\ m.told = (w.told \/ (v.told /\ op \notin {"Bare", "Drop", "Each"}))
    BY <1>1, MergeTyped, MergeParts
  <2>2. /\ w.lost \in BOOLEAN /\ w.told \in BOOLEAN /\ v.lost \in BOOLEAN /\ v.told \in BOOLEAN
    BY <1>1 DEF Val
  <2> HIDE DEF m
  <2>3. FrankBefore(c, n + 1) /\ m.lost => m.told
    <3> SUFFICES ASSUME FrankBefore(c, n + 1), m.lost PROVE m.told
      OBVIOUS
    <3>1. w.lost => w.told
      BY <1>4, <1>5 DEF Leaves
    <3>2. \/ op \in Recorded \cup {"Need", "Must", "Try"} /\ FrankRead(Awaits(s).arg)
          \/ op = "Bare" /\ WholeRead(Awaits(s).arg)
      BY <1>5, <1>9 DEF FrankStep
    <3>3. CASE op = "Bare"
      BY <2>1, <2>2, <3>1, <3>2, <3>3 DEF Given, Recorded
    <3>4. CASE op # "Bare"
      BY <2>1, <2>2, <3>1, <3>2, <3>4 DEF Given, Recorded
    <3> QED BY <3>3, <3>4
  <2>4. WholeBefore(c, n + 1) => ~m.lost
    <3> SUFFICES ASSUME WholeBefore(c, n + 1) PROVE ~m.lost
      OBVIOUS
    <3>1. ~w.lost
      BY <1>4, <1>5 DEF Leaves
    <3>2. \/ WholeRead(Awaits(s).arg)
          \/ op = "Must" /\ FrankRead(Awaits(s).arg)
      BY <1>5, <1>9 DEF WholeStep
    <3>3. ~v.lost
      BY <1>9, <2>2, <3>2 DEF Given
    <3> QED BY <2>1, <3>1, <3>3
  <2>5. Leaves(c, n + 1, m)
    BY <2>3, <2>4 DEF Leaves
  <2>6. Flowing(p, Advance(s, m))
    BY <2>1, <2>5, AdvanceFlow
  <2> QED BY <1>9, <2>6 DEF Deliver, m
<1> QED BY <1>6, <1>7, <1>8, <1>9

\* Below a frame is the one that waits for its program.
LEMMA PopFlow ==
  ASSUME NEW p, NEW s, Stacked(s), s.frames # <<>>, Len(s.frames) # 1, Flowing(p, s)
  PROVE  LET t == [s EXCEPT !.frames = Tail(@)] IN
         /\ Flowing(p, t)
         /\ Awaits(t).arg \in DOMAIN Prog /\ Top(s).code = Prog[Awaits(t).arg]
<1> DEFINE t == [s EXCEPT !.frames = Tail(@)]
           n == Len(s.frames)
           m == Len(t.frames)
<1>1. m \in Nat \ {0} /\ n = m + 1 /\ t.kind = s.kind /\ t.val = s.val
  BY PopShape
<1>2. \A i \in 1 .. m : t.frames[i] = s.frames[i + 1]
  BY PopShape
<1>3. /\ \A i \in 1 .. n : Leaves(s.frames[i].code, s.frames[i].pc, s.frames[i].val)
      /\ \A i \in 2 .. n : Linked(s.frames[i - 1], s.frames[i])
      /\ s.frames[n].code = Prog[p]
      /\ s.kind = "ok" => Given(p, s.val)
  BY DEF Flowing
<1> HIDE DEF n, m, t
<1>4. ASSUME NEW i \in 1 .. m PROVE Leaves(t.frames[i].code, t.frames[i].pc, t.frames[i].val)
  <2>1. i + 1 \in 1 .. n
    BY <1>1
  <2> QED BY <1>2, <1>3, <2>1
<1>5. ASSUME NEW i \in 2 .. m PROVE Linked(t.frames[i - 1], t.frames[i])
  <2>1. i + 1 \in 2 .. n /\ i \in 1 .. m /\ i - 1 \in 1 .. m /\ (i - 1) + 1 = i /\ (i + 1) - 1 = i
    BY <1>1
  <2>2. t.frames[i] = s.frames[i + 1] /\ t.frames[i - 1] = s.frames[i]
    BY <1>2, <2>1
  <2>3. Linked(s.frames[(i + 1) - 1], s.frames[i + 1])
    BY <1>3, <2>1
  <2> QED BY <2>1, <2>2, <2>3
<1>6. t.frames[m].code = Prog[p]
  <2>1. m \in 1 .. m /\ m + 1 = n
    BY <1>1
  <2> QED BY <1>2, <1>3, <2>1
<1>7. Flowing(p, t)
  BY <1>1, <1>4, <1>5, <1>6, <1>3 DEF Flowing, m
<1>8. Linked(s.frames[1], t.frames[1])
  <2>1. 2 \in 2 .. n /\ 1 \in 1 .. m /\ 2 - 1 = 1 /\ 1 + 1 = 2
    BY <1>1
  <2>2. Linked(s.frames[2 - 1], s.frames[2])
    BY <1>3, <2>1
  <2>3. t.frames[1] = s.frames[1 + 1]
    BY <1>2, <2>1
  <2> QED BY <2>1, <2>2, <2>3
<1>9. Awaits(t) = t.frames[1].code.steps[t.frames[1].pc] /\ Top(s) = s.frames[1]
  BY DEF Awaits, Top
<1> QED BY <1>7, <1>8, <1>9 DEF Linked, t

LEMMA LeaveFlow ==
  ASSUME NEW p \in DOMAIN Prog, NEW s, Stacked(s), s.frames # <<>>, s.st = "run", Flowing(p, s),
         NEW r \in Slots, NEW v \in Val, Yields(Top(s).code, v)
  PROVE  Flowing(p, Leave(r, s, v))
<1>1. CASE Len(s.frames) = 1
  <2>1. Top(s).code = Prog[p]
    BY <1>1 DEF Flowing, Top
  <2>2. Given(p, v)
    BY <2>1 DEF Yields
  <2> QED BY <1>1, <2>2, AnswerFlow DEF Leave
<1>2. CASE Len(s.frames) # 1
  <2> DEFINE t == [s EXCEPT !.frames = Tail(@)]
  <2>1. Stacked(t) /\ t.frames # <<>> /\ t.st = "run" /\ ~Ended(Top(t)) /\ Awaits(t).op \in Reads
    BY <1>2, PopStacked
  <2>2. Flowing(p, t) /\ Awaits(t).arg \in DOMAIN Prog /\ Top(s).code = Prog[Awaits(t).arg]
    BY <1>2, PopFlow
  <2> HIDE DEF t
  <2>3. Given(Awaits(t).arg, v)
    BY <2>2 DEF Yields
  <2>4. Flowing(p, Deliver(r, t, v))
    BY <2>1, <2>2, <2>3, DeliverFlow
  <2> QED BY <1>2, <2>4 DEF Leave, t
<1> QED BY <1>1, <1>2

LEMMA ThrownFlow ==
  ASSUME NEW p, NEW s, Stacked(s), s.frames # <<>>, ~Ended(Top(s)), Awaits(s).op \in Reads, Flowing(p, s)
  PROVE  Flowing(p, Thrown(s))
<1> DEFINE op == Awaits(s).op
           c == Top(s).code
           n == Top(s).pc
           w == Top(s).val
           t == [s EXCEPT !.st = "run"]
<1>0. w \in Val /\ s \in Handler /\ c \in Codes /\ n \in Nat \ {0} /\ 1 \in 1 .. Len(s.frames)
  BY TopTyped, FramesTyped DEF Stacked
<1>1. Len(c.steps) \in Nat
  BY <1>0, CodesTyped, LenProperties
<1>2. n \in 1 .. Len(c.steps) /\ Awaits(s) = c.steps[n]
  BY <1>0, <1>1 DEF Ended, Awaits
<1>3. CASE op \in Surviving
  <2> DEFINE v == [w EXCEPT !.lost = TRUE, !.told = @ \/ op = "Try" \/ (op = "Spare" /\ w.lost)]
  <2>1. v \in Val /\ v.lost = TRUE /\ (op = "Try" => v.told)
    BY <1>0 DEF Val
  <2>2. Stacked(t) /\ t.frames = s.frames /\ t.kind = s.kind /\ t.val = s.val
    BY <1>0 DEF Stacked, Handler
  <2>3. Top(t) = Top(s)
    BY <2>2 DEF Top
  <2> HIDE DEF v, t
  <2>4. FrankBefore(c, n + 1) => op = "Try"
    <3>1. FrankBefore(c, n + 1) => FrankStep(Awaits(s))
      BY <1>0, <1>2, BeforeNext
    <3> QED BY <1>3, <3>1 DEF FrankStep, Surviving, Recorded
  <2>5. ~WholeBefore(c, n + 1)
    <3>1. WholeBefore(c, n + 1) => WholeStep(Awaits(s))
      BY <1>0, <1>2, BeforeNext
    <3> QED BY <1>3, <3>1 DEF WholeStep, Surviving, Recorded
  <2>6. Leaves(c, n + 1, v)
    BY <2>1, <2>4, <2>5 DEF Leaves
  <2>7. Flowing(p, t)
    BY <2>2, SameFlow
  <2>8. Flowing(p, Advance(t, v))
    BY <2>1, <2>2, <2>3, <2>6, <2>7, AdvanceFlow
  <2> QED BY <1>3, <2>8 DEF Thrown, Survive, GiveUp, v, t
<1>4. CASE op \notin Surviving
  <2> DEFINE o == IF op \in Recorded THEN "failed" ELSE s.oper
             z == Raise([s EXCEPT !.oper = o])
  <2>1. z.frames = s.frames /\ z.kind = s.kind /\ z.val = s.val
    <3> HIDE DEF o
    <3> QED BY <1>0 DEF Raise, Handler
  <2>2. Thrown(s) = z
    BY <1>4 DEF Thrown, Survive, GiveUp
  <2> HIDE DEF z
  <2> QED BY <2>1, <2>2, SameFlow
<1> QED BY <1>3, <1>4

\* A call starts the program it names.
LEMMA PushFlow ==
  ASSUME NEW p, NEW s, Stacked(s), s.frames # <<>>, Flowing(p, s), Awaits(s).arg \in DOMAIN Prog
  PROVE  Flowing(p, [s EXCEPT !.frames = <<Frame(Awaits(s).arg)>> \o @])
<1> DEFINE f == Frame(Awaits(s).arg)
           t == [s EXCEPT !.frames = <<f>> \o @]
           n == Len(s.frames)
           m == Len(t.frames)
<1>1. f.code = Prog[Awaits(s).arg] /\ f.pc = 1 /\ f.val = Blank
  BY DEF Frame
<1>2. /\ n \in Nat \ {0} /\ m = n + 1
      /\ t.frames[1] = f /\ t.kind = s.kind /\ t.val = s.val
  BY PushShape
<1>3. \A i \in 2 .. m : t.frames[i] = s.frames[i - 1]
  BY PushShape
<1>4. /\ \A i \in 1 .. n : Leaves(s.frames[i].code, s.frames[i].pc, s.frames[i].val)
      /\ \A i \in 2 .. n : Linked(s.frames[i - 1], s.frames[i])
      /\ s.frames[n].code = Prog[p]
      /\ s.kind = "ok" => Given(p, s.val)
  BY DEF Flowing
<1> HIDE DEF n, m, t, f
<1>5. ASSUME NEW i \in 1 .. m PROVE Leaves(t.frames[i].code, t.frames[i].pc, t.frames[i].val)
  <2>1. CASE i = 1
    BY <1>1, <1>2, <2>1, BlankFlows
  <2>2. CASE i # 1
    <3>1. i \in 2 .. m /\ i - 1 \in 1 .. n
      BY <1>2, <2>2
    <3> QED BY <1>3, <1>4, <3>1
  <2> QED BY <2>1, <2>2
<1>6. ASSUME NEW i \in 2 .. m PROVE Linked(t.frames[i - 1], t.frames[i])
  <2>1. CASE i = 2
    <3>1. 2 \in 2 .. m /\ 2 - 1 = 1
      BY <1>2
    <3>2. t.frames[2] = s.frames[1]
      BY <1>3, <3>1
    <3>3. Linked(f, s.frames[1])
      BY <1>1 DEF Linked, Awaits, Top
    <3> QED BY <1>2, <2>1, <3>1, <3>2, <3>3
  <2>2. CASE i # 2
    <3>1. i - 1 \in 2 .. m /\ i - 1 \in 2 .. n
      BY <1>2, <2>2
    <3>2. t.frames[i] = s.frames[i - 1] /\ t.frames[i - 1] = s.frames[(i - 1) - 1]
      BY <1>3, <3>1
    <3>3. Linked(s.frames[(i - 1) - 1], s.frames[i - 1])
      BY <1>4, <3>1
    <3> QED BY <3>2, <3>3
  <2> QED BY <2>1, <2>2
<1>7. t.frames[m].code = Prog[p]
  <2>1. m \in 2 .. m /\ m - 1 = n
    BY <1>2
  <2>2. t.frames[m] = s.frames[n]
    BY <1>3, <2>1
  <2> QED BY <1>4, <2>2
<1>8. Flowing(p, t)
  BY <1>2, <1>5, <1>6, <1>7, <1>4 DEF Flowing, m
<1> QED BY <1>8 DEF t, f

-----------------------------------------------------------------------------
\* What a step starts from.
LEMMA AtFlow ==
  ASSUME FlowInv, NEW r \in Slots, slot[r].st # "idle"
  PROVE  /\ Stacked(slot[r]) /\ slot[r].frames # <<>> /\ slot[r] \in Handler
         /\ Flowing(Program(r), slot[r]) /\ Program(r) \in DOMAIN Prog
         /\ Top(slot[r]).code \in Codes /\ Top(slot[r]).val \in Val /\ Top(slot[r]).pc \in Nat \ {0}
         /\ Leaves(Top(slot[r]).code, Top(slot[r]).pc, Top(slot[r]).val)
         /\ Len(Top(slot[r]).code.steps) \in Nat
<1>1. Stacked(slot[r]) /\ Flowing(Program(r), slot[r]) /\ scenario \in Scenarios
  BY DEF FlowInv, FlowPart, IInv, Globals
<1>2. slot[r].frames # <<>> /\ slot[r] \in Handler
  BY <1>1 DEF Stacked
<1>3. Program(r) \in DOMAIN Prog
  BY <1>1, RequestTyped DEF Program
<1>4. Top(slot[r]).code \in Codes /\ Top(slot[r]).val \in Val /\ Top(slot[r]).pc \in Nat \ {0}
  BY <1>1, <1>2, TopTyped
<1>5. 1 \in 1 .. Len(slot[r].frames)
  BY <1>2, FramesTyped
<1>6. Leaves(Top(slot[r]).code, Top(slot[r]).pc, Top(slot[r]).val)
  BY <1>1, <1>5 DEF Flowing, Top
<1>7. Len(Top(slot[r]).code.steps) \in Nat
  BY <1>4, CodesTyped, LenProperties
<1> QED BY <1>1, <1>2, <1>3, <1>4, <1>6, <1>7

LEMMA AtOps ==
  ASSUME FlowInv, NEW r \in Slots, NEW ops, At(r, ops)
  PROVE  /\ slot[r].st = "run" /\ slot[r].st # "idle" /\ ~Ended(Top(slot[r])) /\ Awaits(slot[r]).op \in ops
         /\ Current(r) = Awaits(slot[r]) /\ Awaits(slot[r]) = Top(slot[r]).code.steps[Top(slot[r]).pc]
         /\ Top(slot[r]).pc \in 1 .. Len(Top(slot[r]).code.steps)
         /\ Flowing(Program(r), Onward(slot[r]))
<1>1. slot[r].st = "run" /\ slot[r].st # "idle" /\ ~Ended(Top(slot[r])) /\ Awaits(slot[r]).op \in ops
  BY DEF At, Current
<1>2. Current(r) = Awaits(slot[r]) /\ Awaits(slot[r]) = Top(slot[r]).code.steps[Top(slot[r]).pc]
  BY DEF Current, Awaits
<1>3. Top(slot[r]).pc \in 1 .. Len(Top(slot[r]).code.steps)
  BY <1>1, AtFlow DEF Ended
<1>4. Flowing(Program(r), Onward(slot[r]))
  BY <1>1, AtFlow, OnwardFlow
<1> QED BY <1>1, <1>2, <1>3, <1>4

LEMMA BecomeFlow ==
  ASSUME FlowInv, NEW r \in Slots, NEW s, Flowing(Program(r), s), Become(r, s),
         scenario' = scenario, EntriesFlow'
  PROVE  FlowPart'
<1>1. \A q \in Slots : Flowing(Program(q), slot[q])'
  <2> SUFFICES ASSUME NEW q \in Slots PROVE Flowing(Program(q), slot'[q])
    BY DEF Program
  <2>1. slot'[q] = IF q = r THEN s ELSE slot[q]
    BY DEF FlowInv, IInv, Become
  <2> QED BY <2>1 DEF FlowInv, FlowPart
<1> QED BY <1>1 DEF FlowPart

LEMMA FewerEntries ==
  ASSUME FlowInv, cache' \subseteq cache
  PROVE  EntriesFlow'
  BY DEF FlowInv, FlowPart, EntriesFlow

LEMMA StoreFlow ==
  ASSUME FlowInv, NEW r \in Slots, NEW k, NEW v, cache' = StoredIn(r, k, v),
         k \in Marked /\ v.lost => v.told, k \in Guarded => ~v.lost
  PROVE  EntriesFlow'
<1> DEFINE e == [key |-> k, dim |-> KeyOf(r, k), val |-> v]
<1>1. cache' \subseteq cache \cup {e}
  BY DEF StoredIn
<1>2. e.key = k /\ e.val = v
  OBVIOUS
<1> HIDE DEF e
<1> QED BY <1>1, <1>2 DEF FlowInv, FlowPart, EntriesFlow

\* The scope and the operation's state carry no data.
LEMMA OnwardFreeFlow ==
  ASSUME NEW p, NEW s, Stacked(s), s.frames # <<>>, s.st = "run", ~Ended(Top(s)),
         Flowing(p, s), NEW x
  PROVE  /\ Flowing(p, [Onward(s) EXCEPT !.scope = x])
         /\ Flowing(p, [Onward(s) EXCEPT !.oper = x])
<1> DEFINE t == Onward(s)
<1>1. Flowing(p, t)
  BY OnwardFlow
<1>2. t \in Handler
  BY OnwardSound DEF Stacked
<1> HIDE DEF t
<1> DEFINE a == [t EXCEPT !.scope = x]
           b == [t EXCEPT !.oper = x]
<1>3. a.frames = t.frames /\ a.kind = t.kind /\ a.val = t.val
  BY <1>2 DEF Handler
<1>4. b.frames = t.frames /\ b.kind = t.kind /\ b.val = t.val
  BY <1>2 DEF Handler
<1> HIDE DEF a, b
<1>5. Flowing(p, a) /\ Flowing(p, b)
  BY <1>1, <1>3, <1>4, SameFlow
<1> QED BY <1>5 DEF a, b, t

LEMMA RaiseFlow ==
  ASSUME NEW p, NEW s, Stacked(s), Flowing(p, s), NEW x
  PROVE  Flowing(p, Raise(s)) /\ Flowing(p, Raise([s EXCEPT !.oper = x]))
<1> DEFINE a == Raise(s)
           b == Raise([s EXCEPT !.oper = x])
<1>1. a.frames = s.frames /\ a.kind = s.kind /\ a.val = s.val
  BY DEF Stacked, Handler, Raise
<1>2. b.frames = s.frames /\ b.kind = s.kind /\ b.val = s.val
  BY DEF Stacked, Handler, Raise
<1> HIDE DEF a, b
<1>3. Flowing(p, a) /\ Flowing(p, b)
  BY <1>1, <1>2, SameFlow
<1> QED BY <1>3 DEF a, b

LEMMA BeginFlow ==
  ASSUME FlowInv, NEW r \in Slots, Begin(r)
  PROVE  FlowPart'
<1> DEFINE f == Frame(Program(r))
           s == Fresh("run", <<f>>, slot[r].runs - 1)
<1>1. f.code = Prog[Program(r)] /\ f.val = Blank
  BY DEF Frame
<1> HIDE DEF f
<1>2. s.frames = <<f>> /\ s.kind = None
  BY DEF Fresh
<1>3. Len(<<f>>) = 1 /\ <<f>>[1] = f
  OBVIOUS
<1> HIDE DEF s
<1>4. Flowing(Program(r), s)
  BY <1>1, <1>2, <1>3, BlankFlows DEF Flowing, None
<1>5. Become(r, s) /\ scenario' = scenario /\ cache' \subseteq cache
  BY DEF Begin, s, f, Program
<1> QED BY <1>4, <1>5, FewerEntries, BecomeFlow

LEMMA AdmitFlow ==
  ASSUME FlowInv, NEW r \in Slots,
         Admit(r) \/ requireRole(r) \/ namespaceVisible(r) \/ claimIdempotencyKey(r) \/ fulfillIdempotencyKey(r)
         \/ cacheDel(r) \/ deletePattern(r)
  PROVE  FlowPart'
<1> DEFINE ops == {"Session", "Check", "Found", "Role", "Gate", "Claim", "Fulfill", "Del", "Purge"}
<1>1. At(r, ops)
  BY DEF Admit, requireRole, namespaceVisible, claimIdempotencyKey, fulfillIdempotencyKey, cacheDel, deletePattern, At
<1>2. Stacked(slot[r]) /\ Flowing(Program(r), Onward(slot[r]))
  BY <1>1, AtOps, AtFlow
<1>3. Flowing(Program(r), Deny(slot[r])) /\ Flowing(Program(r), Answer(slot[r], "dup", Blank))
  BY <1>2, AnswerFlow DEF Deny
<1>4. scenario' = scenario /\ cache' \subseteq cache
  BY DEF Admit, requireRole, namespaceVisible, claimIdempotencyKey, fulfillIdempotencyKey, cacheDel, deletePattern
<1>5. \/ Become(r, Onward(slot[r])) \/ Become(r, Deny(slot[r]))
      \/ Become(r, Answer(slot[r], "dup", Blank))
  BY DEF Admit, requireRole, namespaceVisible, claimIdempotencyKey, fulfillIdempotencyKey, cacheDel, deletePattern
<1> QED BY <1>2, <1>3, <1>4, <1>5, FewerEntries, BecomeFlow

LEMMA AsideFlow ==
  ASSUME FlowInv, NEW r \in Slots, ScopeOfNobody(r) \/ Lifecycle(r)
  PROVE  FlowPart'
<1>1. At(r, {"Scope", "Open", "Done"})
  BY DEF ScopeOfNobody, Lifecycle, At
<1>2. /\ Stacked(slot[r]) /\ slot[r].frames # <<>> /\ slot[r].st = "run" /\ ~Ended(Top(slot[r]))
      /\ Flowing(Program(r), slot[r])
  BY <1>1, AtOps, AtFlow
<1>3. \A x : /\ Flowing(Program(r), [Onward(slot[r]) EXCEPT !.scope = x])
             /\ Flowing(Program(r), [Onward(slot[r]) EXCEPT !.oper = x])
  BY <1>2, OnwardFreeFlow
<1>4. \E x : Become(r, [Onward(slot[r]) EXCEPT !.scope = x]) \/ Become(r, [Onward(slot[r]) EXCEPT !.oper = x])
  BY DEF ScopeOfNobody, Lifecycle
<1>5. scenario' = scenario /\ cache' \subseteq cache
  BY DEF ScopeOfNobody, Lifecycle
<1> QED BY <1>3, <1>4, <1>5, FewerEntries, BecomeFlow

LEMMA ProjectFlow ==
  ASSUME FlowInv, NEW r \in Slots, Project(r)
  PROVE  FlowPart'
<1> DEFINE s == slot[r]
           v == Top(s).val
           c == Top(s).code
           n == Top(s).pc
           w == IF Current(r).op = "Filter" THEN [v EXCEPT !.shows = @ \cap slot[r].scope]
                ELSE [v EXCEPT !.told = @ /\ Caller(r) \in Everything]
<1>1. At(r, {"Filter", "Hush"})
  BY DEF Project
<1>2. /\ Stacked(s) /\ s.frames # <<>> /\ Flowing(Program(r), s) /\ v \in Val /\ c \in Codes
      /\ n \in 1 .. Len(c.steps) /\ Leaves(c, n, v)
      /\ Awaits(s).op \in {"Filter", "Hush"} /\ Current(r) = Awaits(s) /\ Awaits(s) = c.steps[n]
  BY <1>1, AtOps, AtFlow
<1>3. w \in Val /\ w.lost = v.lost /\ (Current(r).op = "Filter" => w.told = v.told)
  BY <1>2 DEF Val
<1> HIDE DEF w
<1>4. FrankBefore(c, n + 1) => FrankBefore(c, n) /\ Current(r).op # "Hush"
  BY <1>2, BeforeNext DEF FrankStep
<1>5. WholeBefore(c, n + 1) => WholeBefore(c, n)
  BY <1>2, BeforeNext
<1>6. Leaves(c, n + 1, w)
  BY <1>2, <1>3, <1>4, <1>5 DEF Leaves
<1>7. Flowing(Program(r), Advance(s, w))
  BY <1>2, <1>3, <1>6, AdvanceFlow
<1>8. Become(r, Advance(s, w)) /\ scenario' = scenario /\ cache' \subseteq cache
  BY DEF Project, w
<1> QED BY <1>7, <1>8, FewerEntries, BecomeFlow

\* A hit returns an entry, which is as good as its namespace says.
LEMMA cacheGetFlow ==
  ASSUME FlowInv, NEW r \in Slots, cacheGet(r)
  PROVE  FlowPart'
<1> DEFINE s == slot[r]
           c == Top(s).code
           n == Top(s).pc
<1>1. At(r, {"Hit"})
  BY DEF cacheGet
<1>2. /\ Stacked(s) /\ s.frames # <<>> /\ s.st = "run" /\ Flowing(Program(r), s) /\ Program(r) \in DOMAIN Prog
      /\ c \in Codes /\ n \in 1 .. Len(c.steps) /\ Flowing(Program(r), Onward(s))
      /\ Awaits(s).op = "Hit" /\ Current(r) = Awaits(s) /\ Awaits(s) = c.steps[n]
  BY <1>1, AtOps, AtFlow
<1>3. ASSUME NEW e \in cache, e.key = Current(r).arg PROVE Flowing(Program(r), Leave(r, s, e.val))
  <2>1. e.val \in Val
    BY DEF FlowInv, IInv, Globals, Entry
  <2>2. /\ e.key \in Marked /\ e.val.lost => e.val.told
        /\ e.key \in Guarded => ~e.val.lost
    BY DEF FlowInv, FlowPart, EntriesFlow
  <2>3. ASSUME NEW p \in DOMAIN Prog, c = Prog[p] PROVE Given(p, e.val)
    <3>1. p \in Frank => e.key \in Marked
      BY <1>2, <1>3, <2>3, ProgramStep DEF FrankStep
    <3>2. p \in Whole => e.key \in Guarded
      BY <1>2, <1>3, <2>3, ProgramStep DEF WholeStep
    <3> QED BY <2>2, <3>1, <3>2 DEF Given, FrankRead, WholeRead
  <2>4. Yields(c, e.val)
    BY <2>3 DEF Yields
  <2> QED BY <1>2, <2>1, <2>4, LeaveFlow
<1>4. \/ Become(r, Onward(s))
      \/ \E e \in cache : e.key = Current(r).arg /\ Become(r, Leave(r, s, e.val))
  BY DEF cacheGet, Entries
<1>5. scenario' = scenario /\ cache' \subseteq cache
  BY DEF cacheGet
<1> QED BY <1>2, <1>3, <1>4, <1>5, FewerEntries, BecomeFlow

\* What is stored is what the steps before leave.
LEMMA cacheSetFlow ==
  ASSUME FlowInv, NEW r \in Slots, cacheSet(r)
  PROVE  FlowPart'
<1> DEFINE s == slot[r]
           c == Top(s).code
           n == Top(s).pc
           v == Top(s).val
           k == Current(r).arg
<1>1. At(r, {"Put", "PutWhole", "PutIfSome"})
  BY DEF cacheSet
<1>2. /\ c \in Codes /\ n \in 1 .. Len(c.steps) /\ Flowing(Program(r), Onward(s)) /\ Leaves(c, n, v)
      /\ Awaits(s).op \in {"Put", "PutWhole", "PutIfSome"} /\ Current(r) = Awaits(s) /\ Awaits(s) = c.steps[n]
      /\ v \in Val
  BY <1>1, AtOps, AtFlow
<1>3. PICK p \in DOMAIN Prog : c = Prog[p]
  BY <1>2 DEF Codes
<1>4. n \in DOMAIN Prog[p].steps
  BY <1>2, <1>3, CodesTyped, LenProperties
<1>5. (k \in Marked => StoresMarked(c, n)) /\ (k \in Guarded => StoresWhole(c, n))
  BY <1>2, <1>3, <1>4, StoredAssumption
<1>6. EntriesFlow'
  <2>1. CASE (Current(r).op = "PutWhole" => ~v.told) /\ cache' = StoredIn(r, k, v)
    <3>1. k \in Marked /\ v.lost => v.told
      BY <1>2, <1>5 DEF StoresMarked, Leaves
    <3>2. k \in Guarded => ~v.lost
      BY <1>2, <1>5, <2>1 DEF StoresWhole, Leaves, Val
    <3> HIDE DEF k, v
    <3> QED BY <2>1, <3>1, <3>2, StoreFlow
  <2>2. CASE UNCHANGED cache
    BY <2>2, FewerEntries
  <2> QED BY <2>1, <2>2 DEF cacheSet
<1> QED BY <1>2, <1>6, BecomeFlow DEF cacheSet

LEMMA AnswerNothingFlow ==
  ASSUME FlowInv, NEW r \in Slots, AnswerNothing(r)
  PROVE  FlowPart'
<1>1. At(r, {"Nothing"})
  BY DEF AnswerNothing
<1>2. Flowing(Program(r), Onward(slot[r]))
  BY <1>1, AtOps
<1>3. Flowing(Program(r), Leave(r, slot[r], Blank))
  <2>1. /\ Stacked(slot[r]) /\ slot[r].frames # <<>> /\ slot[r].st = "run"
        /\ Flowing(Program(r), slot[r]) /\ Program(r) \in DOMAIN Prog
    BY <1>1, AtOps, AtFlow
  <2> QED BY <2>1, BlankTyped, BlankFlows, LeaveFlow
<1>4. EntriesFlow'
  <2>1. CASE cache' = StoredIn(r, Current(r).arg, Blank)
    <3>1. ~Blank.lost
      BY DEF Blank
    <3> QED BY <2>1, <3>1, StoreFlow
  <2>2. CASE UNCHANGED cache
    BY <2>2, FewerEntries
  <2> QED BY <2>1, <2>2 DEF AnswerNothing
<1>5. Become(r, Onward(slot[r])) \/ Become(r, Leave(r, slot[r], Blank))
  BY DEF AnswerNothing
<1> QED BY <1>2, <1>3, <1>4, <1>5, BecomeFlow DEF AnswerNothing

LEMMA CallFlow ==
  ASSUME FlowInv, NEW r \in Slots, Call(r)
  PROVE  FlowPart'
<1> DEFINE s == [slot[r] EXCEPT !.frames = <<Frame(Awaits(slot[r]).arg)>> \o @]
<1>1. At(r, Reads) /\ Current(r).arg \in DOMAIN Prog
  BY DEF Call
<1>2. Flowing(Program(r), s)
  BY <1>1, AtOps, AtFlow, PushFlow
<1>3. Become(r, s)
  BY DEF Call, Current
<1> HIDE DEF s
<1>4. scenario' = scenario /\ cache' \subseteq cache
  BY DEF Call
<1> QED BY <1>2, <1>3, <1>4, FewerEntries, BecomeFlow

\* The end of a program has all its steps behind it.
LEMMA ReturnFlow ==
  ASSUME FlowInv, NEW r \in Slots, Return(r)
  PROVE  FlowPart'
<1> DEFINE s == slot[r]
           c == Top(s).code
           n == Top(s).pc
           v == Top(s).val
<1>1. s.st = "run" /\ s.st # "idle" /\ n > Len(c.steps)
  BY DEF Return, Ended
<1>2. /\ Stacked(s) /\ s.frames # <<>> /\ Flowing(Program(r), s) /\ Program(r) \in DOMAIN Prog
      /\ c \in Codes /\ v \in Val /\ n \in Nat /\ Leaves(c, n, v)
  BY <1>1, AtFlow
<1>3. ASSUME NEW p \in DOMAIN Prog, c = Prog[p] PROVE Given(p, v)
  <2>1. p \in Frank => FrankBefore(c, n)
    BY <1>1, <1>2, <1>3, FrankAssumption, BeforeEnd DEF FrankProgram
  <2>2. p \in Whole => WholeBefore(c, n)
    BY <1>1, <1>2, <1>3, WholeAssumption, BeforeEnd DEF WholeProgram
  <2> QED BY <1>2, <2>1, <2>2 DEF Given, Leaves, FrankRead, WholeRead
<1>4. Yields(c, v)
  BY <1>3 DEF Yields
<1>5. Flowing(Program(r), Leave(r, s, v))
  BY <1>1, <1>2, <1>4, LeaveFlow
<1>6. Become(r, Leave(r, s, v)) /\ scenario' = scenario /\ cache' \subseteq cache
  BY DEF Return
<1> QED BY <1>5, <1>6, FewerEntries, BecomeFlow

\* A list that is cut is marked, and only a paged list is cut.
LEMMA UpstreamFlow ==
  ASSUME FlowInv, NEW r \in Slots, NEW e, e \notin DOMAIN Prog, NEW v \in Upstream(r, e)
  PROVE  v \in Val /\ Given(e, v)
<1>1. v \in Val
  BY UpstreamTyped DEF FlowInv
<1> DEFINE S == CASE e \in ObjectReads -> {Area(r)} [] e \in PlainReads -> {} [] OTHER -> Areas
           o == e \in scenario.touched /\ ~written
           whole == [lost |-> FALSE, told |-> FALSE, old |-> o, shows |-> S]
<1>2. v \in {whole} \cup
        (IF e \in Paged /\ faults > 0
         THEN {[whole EXCEPT !.lost = TRUE, !.told = TRUE, !.shows = @ \ {a}] : a \in Areas} ELSE {})
  BY DEF Upstream
<1> HIDE DEF S, o
<1>3. ~v.lost \/ (v.told /\ e \in Paged)
  <2>1. ~whole.lost /\ whole.told = FALSE /\ whole = [lost |-> FALSE, told |-> FALSE, old |-> o, shows |-> S]
    OBVIOUS
  <2>2. ASSUME NEW a, v = [whole EXCEPT !.lost = TRUE, !.told = TRUE, !.shows = @ \ {a}] PROVE v.told = TRUE
    BY <2>2
  <2> HIDE DEF whole
  <2>3. CASE v = whole
    BY <2>1, <2>3
  <2>4. CASE v # whole
    BY <1>2, <2>2, <2>4
  <2> QED BY <2>3, <2>4
<1> QED BY <1>1, <1>3 DEF Given, WholeRead

LEMMA FetchFlow ==
  ASSUME FlowInv, NEW r \in Slots, Fetch(r)
  PROVE  FlowPart'
<1>1. At(r, Reads) /\ Current(r).arg \notin DOMAIN Prog
  BY DEF Fetch
<1>2. PICK v \in Upstream(r, Current(r).arg) : Become(r, Deliver(r, slot[r], v))
  BY DEF Fetch
<1>3. v \in Val /\ Given(Current(r).arg, v)
  BY <1>1, UpstreamFlow
<1>4. Flowing(Program(r), Deliver(r, slot[r], v))
  BY <1>1, <1>3, AtOps, AtFlow, DeliverFlow
<1>5. scenario' = scenario /\ cache' \subseteq cache
  BY DEF Fetch
<1> QED BY <1>2, <1>4, <1>5, FewerEntries, BecomeFlow

LEMMA FailFlow ==
  ASSUME FlowInv, NEW r \in Slots, FetchFails(r) \/ VerdictFails(r) \/ Change(r)
  PROVE  FlowPart'
<1>1. At(r, Reads \cup {"Write"}) /\ (FetchFails(r) => At(r, Reads))
  BY DEF FetchFails, VerdictFails, Change, At, Reads, Propagating, Recorded
<1>2. Stacked(slot[r]) /\ Flowing(Program(r), slot[r]) /\ Flowing(Program(r), Onward(slot[r]))
  BY <1>1, AtOps, AtFlow
<1>3. Flowing(Program(r), Raise(slot[r])) /\ Flowing(Program(r), Raise([slot[r] EXCEPT !.oper = "failed"]))
  BY <1>2, RaiseFlow
<1>4. FetchFails(r) => Flowing(Program(r), Thrown(slot[r]))
  BY <1>1, AtOps, AtFlow, ThrownFlow
<1>5. scenario' = scenario /\ cache' \subseteq cache
  BY DEF FetchFails, VerdictFails, Change
<1>6. \/ FetchFails(r) /\ Become(r, Thrown(slot[r]))
      \/ Become(r, Raise([slot[r] EXCEPT !.oper = "failed"]))
      \/ Become(r, Onward(slot[r])) \/ Become(r, Raise(slot[r]))
  BY DEF FetchFails, VerdictFails, Change
<1> QED BY <1>2, <1>3, <1>4, <1>5, <1>6, FewerEntries, BecomeFlow

\* A default is returned by programs that are not whole, and by a frank one only
\* with its mark.
LEMMA CatchFlow ==
  ASSUME FlowInv, NEW r \in Slots, Catch(r)
  PROVE  FlowPart'
<1> DEFINE s == slot[r]
           c == Top(s).code
           fail == c.fail
           outer == [s EXCEPT !.frames = Tail(@)]
           u == [s EXCEPT !.st = "run"]
           b == [Blank EXCEPT !.lost = TRUE, !.told = (fail = "told")]
           z == CASE fail \in {"empty", "told"} -> Leave(r, u, b)
                  [] fail = "throw" /\ Len(s.frames) > 1 -> Thrown(outer)
                  [] OTHER -> Answer(s, "error", Blank)
<1>1. s.st = "raise" /\ s.st # "idle"
  BY DEF Catch
<1>2. /\ Stacked(s) /\ s.frames # <<>> /\ s \in Handler /\ Flowing(Program(r), s)
      /\ Program(r) \in DOMAIN Prog /\ c \in Codes
  BY <1>1, AtFlow
<1>3. ASSUME fail \in {"empty", "told"} PROVE Flowing(Program(r), Leave(r, u, b))
  <2>1. Stacked(u) /\ u.frames = s.frames /\ u.st = "run" /\ u.kind = s.kind /\ u.val = s.val
    BY <1>2 DEF Stacked, Handler
  <2>2. b \in Val /\ b.lost /\ (fail = "told" => b.told)
    BY BlankTyped DEF Val, Blank
  <2> HIDE DEF u, b
  <2>3. Flowing(Program(r), u) /\ Top(u) = Top(s)
    BY <1>2, <2>1, SameFlow DEF Top
  <2>4. ASSUME NEW p \in DOMAIN Prog, c = Prog[p] PROVE Given(p, b)
    <3>1. p \in Frank => fail # "empty"
      BY <2>4, FrankAssumption DEF FrankProgram
    <3>2. p \in Whole => fail \in {"throw", "error"}
      BY <2>4, WholeAssumption DEF WholeProgram
    <3> QED BY <1>3, <2>2, <3>1, <3>2 DEF Given, FrankRead, WholeRead
  <2>5. Yields(c, b)
    BY <2>4 DEF Yields
  <2> QED BY <1>2, <2>1, <2>2, <2>3, <2>5, LeaveFlow
<1>4. Flowing(Program(r), Answer(s, "error", Blank))
  BY <1>2, AnswerFlow
<1>5. ASSUME Len(s.frames) > 1 PROVE Flowing(Program(r), Thrown(outer))
  <2>1. Len(s.frames) # 1
    <3> DEFINE n == Len(s.frames)
    <3>1. n > 1
      BY <1>5
    <3>2. n \in Nat
      BY <1>2, FramesTyped
    <3> HIDE DEF n
    <3>3. n # 1
      BY <3>1, <3>2
    <3> QED BY <3>3 DEF n
  <2>2. Stacked(outer) /\ outer.frames # <<>> /\ ~Ended(Top(outer)) /\ Awaits(outer).op \in Reads
    BY <1>2, <2>1, PopStacked
  <2>3. Flowing(Program(r), outer)
    BY <1>2, <2>1, PopFlow
  <2> HIDE DEF outer
  <2> QED BY <2>2, <2>3, ThrownFlow
<1> HIDE DEF u, b
<1>6. Flowing(Program(r), z)
  BY <1>3, <1>4, <1>5
<1>7. Become(r, z)
  BY DEF Catch, u, b
<1> HIDE DEF z
<1>8. scenario' = scenario /\ cache' \subseteq cache
  BY DEF Catch
<1> QED BY <1>6, <1>7, <1>8, FewerEntries, BecomeFlow

LEMMA EnvironmentFlow ==
  ASSUME FlowInv, Expire \/ CommandFails \/ Connect \/ UNCHANGED vars
  PROVE  FlowPart'
<1>1. scenario' = scenario /\ slot' = slot /\ cache' \subseteq cache
  BY DEF Expire, CommandFails, Connect, vars
<1>2. EntriesFlow'
  BY <1>1, FewerEntries
<1> QED BY <1>1, <1>2 DEF FlowInv, FlowPart, Program

LEMMA CrashFlow ==
  ASSUME FlowInv, Crash
  PROVE  FlowPart'
<1>1. scenario' = scenario /\ cache' \subseteq cache
  BY DEF Crash
<1>2. \A r \in Slots : Flowing(Program(r), slot[r])'
  <2> SUFFICES ASSUME NEW r \in Slots PROVE Flowing(Program(r), slot'[r])
    BY <1>1 DEF Program
  <2>1. Flowing(Program(r), slot[r]) /\ Flowing(Program(r), Answer(slot[r], "lost", Blank))
    BY AnswerFlow DEF FlowInv, FlowPart, IInv
  <2>2. slot'[r] = Answer(slot[r], "lost", Blank) \/ slot'[r] = slot[r]
    BY DEF Crash
  <2> QED BY <2>1, <2>2
<1> QED BY <1>1, <1>2, FewerEntries DEF FlowPart

LEMMA FlowInit == Init => FlowInv
<1> SUFFICES ASSUME Init PROVE FlowInv
  OBVIOUS
<1>1. IInv
  BY InitInv
<1>2. ASSUME NEW r \in Slots PROVE Flowing(Program(r), slot[r])
  <2>1. slot[r].frames = <<>> /\ slot[r].kind = None
    BY DEF Init, Fresh
  <2>2. Len(<<>>) = 0
    BY EmptySeq
  <2> QED BY <2>1, <2>2 DEF Flowing, None
<1>3. EntriesFlow
  BY DEF Init, EntriesFlow
<1> QED BY <1>1, <1>2, <1>3 DEF FlowInv, FlowPart

LEMMA FlowNext == FlowInv /\ [Next]_vars => FlowInv'
<1> SUFFICES ASSUME FlowInv, [Next]_vars PROVE FlowInv'
  OBVIOUS
<1>1. IInv'
  BY NextInv DEF FlowInv
<1>2. ASSUME NEW r \in Slots, Step(r) PROVE FlowPart'
  BY <1>2, BeginFlow, AdmitFlow, AsideFlow, ProjectFlow, cacheGetFlow, cacheSetFlow, AnswerNothingFlow,
     CallFlow, ReturnFlow, FetchFlow, FailFlow, CatchFlow DEF Step
<1>3. Expire \/ CommandFails \/ Connect \/ UNCHANGED vars => FlowPart'
  BY EnvironmentFlow
<1>4. Crash => FlowPart'
  BY CrashFlow
<1>5. FlowPart'
  BY <1>2, <1>3, <1>4 DEF Next
<1> QED BY <1>1, <1>5 DEF FlowInv

\* Whatever the programs, the requests and the failures are: a route whose every
\* step keeps or sets the mark of incompleteness, through all the reads and the
\* cached entries it is built from, leaves nothing out of an answer without
\* saying so.
THEOREM LossesDisclosed == Spec => []LossDisclosed
<1>1. FlowInv => LossDisclosed
  <2> SUFFICES ASSUME FlowInv, NEW r \in Slots, Answered(r), Program(r) \in Honest, slot[r].val.lost
               PROVE  slot[r].val.told
    BY DEF LossDisclosed
  <2>1. Given(Program(r), slot[r].val)
    BY DEF FlowInv, FlowPart, Flowing, Answered
  <2>2. FrankRead(Program(r))
    BY FrankAssumption DEF FrankRead
  <2> QED BY <2>1, <2>2 DEF Given
<1> QED BY <1>1, FlowInit, FlowNext, PTL DEF Spec

\* A namespace that is only written after reads that throw rather than shorten, or
\* through the check of the mark, never holds an answer with data missing.
THEOREM GuardedEntriesWhole == Spec => []WholeEntries
<1>1. FlowInv => WholeEntries
  BY DEF FlowInv, FlowPart, EntriesFlow, WholeEntries
<1> QED BY <1>1, FlowInit, FlowNext, PTL DEF Spec

-----------------------------------------------------------------------------
(* Open operations.  While a request's operation is open, the route itself *)
(* is between its Open and its Done: what lies ahead is covered.  What it  *)
(* waits for cannot answer in its place, and a throw is on its way to a    *)
(* step that records or survives it.                                       *)
Bottom(s) == s.frames[Len(s.frames)]

Span(s) ==
  /\ CoveredFrom(Bottom(s).code, Bottom(s).pc)
  /\ \A i \in 1 .. Len(s.frames) - 1 : Defers(s.frames[i].code)

Closing(s) ==
  s.oper = "open" =>
    IF s.st = "idle" THEN s.kind = "lost"
    ELSE /\ Span(s)
         /\ s.st = "raise" =>
              Len(s.frames) # 1 /\ Bottom(s).code.steps[Bottom(s).pc].op # "Fire"

ClosedPart == \A r \in Slots : Closing(slot[r])

ClosedInv == FlowInv /\ ClosedPart

\* The next step of a covered stretch that is not its end.
LEMMA CoverStep ==
  ASSUME NEW c \in Codes, NEW n \in Nat \ {0}, CoveredFrom(c, n)
  PROVE  /\ n \in 1 .. Len(c.steps)
         /\ c.steps[n].op # "Done" => Covers(c.steps[n]) /\ CoveredFrom(c, n + 1)
<1>1. DOMAIN c.steps = 1 .. Len(c.steps) /\ Len(c.steps) \in Nat
  BY CodesTyped, LenProperties
<1>2. PICK k \in DOMAIN c.steps :
        n <= k /\ c.steps[k].op = "Done" /\ \A i \in DOMAIN c.steps : n <= i /\ i < k => Covers(c.steps[i])
  BY DEF CoveredFrom
<1>3. k \in Nat /\ n \in 1 .. Len(c.steps)
  BY <1>1, <1>2
<1>4. ASSUME c.steps[n].op # "Done" PROVE Covers(c.steps[n]) /\ CoveredFrom(c, n + 1)
  <2>1. k # n
    BY <1>2, <1>4
  <2>2. n < k /\ n + 1 <= k /\ n \in DOMAIN c.steps /\ n <= n
    BY <1>1, <1>2, <1>3, <2>1
  <2>3. Covers(c.steps[n])
    BY <1>2, <2>2
  <2>4. \A i \in DOMAIN c.steps : n + 1 <= i => n <= i
    BY <1>1
  <2>5. CoveredFrom(c, n + 1)
    BY <1>2, <2>2, <2>4 DEF CoveredFrom
  <2> QED BY <2>3, <2>5
<1> QED BY <1>3, <1>4

\* The frames of an open operation: the route's, or a program's that defers to it.
LEMMA SpanTop ==
  ASSUME NEW s, Stacked(s), s.frames # <<>>, Span(s)
  PROVE  /\ Len(s.frames) = 1 =>
              /\ Top(s).pc \in 1 .. Len(Top(s).code.steps)
              /\ Awaits(s).op # "Done" => Covers(Awaits(s)) /\ CoveredFrom(Top(s).code, Top(s).pc + 1)
         /\ Len(s.frames) # 1 =>
              /\ Defers(Top(s).code)
              /\ Top(s).pc \in 1 .. Len(Top(s).code.steps) =>
                   /\ Awaits(s).op \notin Denying
                   /\ Awaits(s).op \in Reads => Awaits(s).arg \notin Deciding
<1>1. Len(s.frames) \in Nat \ {0}
  BY FramesTyped DEF Stacked
<1>2. Top(s).code \in Codes /\ Top(s).pc \in Nat \ {0}
  BY TopTyped
<1>3. ASSUME Len(s.frames) = 1
      PROVE  /\ Top(s).pc \in 1 .. Len(Top(s).code.steps)
             /\ Awaits(s).op # "Done" => Covers(Awaits(s)) /\ CoveredFrom(Top(s).code, Top(s).pc + 1)
  <2>1. CoveredFrom(Top(s).code, Top(s).pc)
    BY <1>3 DEF Span, Bottom, Top
  <2> QED BY <1>2, <2>1, CoverStep DEF Awaits
<1>4. ASSUME Len(s.frames) # 1
      PROVE  /\ Defers(Top(s).code)
             /\ Top(s).pc \in 1 .. Len(Top(s).code.steps) =>
                  /\ Awaits(s).op \notin Denying
                  /\ Awaits(s).op \in Reads => Awaits(s).arg \notin Deciding
  <2>1. 1 \in 1 .. Len(s.frames) - 1
    <3> DEFINE n == Len(s.frames)
    <3>1. n \in Nat \ {0} /\ n # 1
      BY <1>1, <1>4
    <3> HIDE DEF n
    <3>2. 1 \in 1 .. n - 1
      BY <3>1
    <3> QED BY <3>2 DEF n
  <2>2. Defers(Top(s).code)
    BY <2>1 DEF Span, Top
  <2>3. DOMAIN Top(s).code.steps = 1 .. Len(Top(s).code.steps)
    BY <1>2, CodesTyped, LenProperties
  <2> QED BY <2>2, <2>3 DEF Defers, Awaits
<1> QED BY <1>3, <1>4

\* What the route fires runs to its end: above it there is no step but purges.
LEMMA FiredIsHarmless ==
  ASSUME NEW p, NEW s, Stacked(s), s.frames # <<>>, Len(s.frames) # 1, Flowing(p, s), Span(s),
         ~Ended(Top(s)), Awaits(s).op \notin {"Del", "Purge"}
  PROVE  Bottom(s).code.steps[Bottom(s).pc].op # "Fire"
<1> DEFINE n == Len(s.frames)
           a == Bottom(s).code.steps[Bottom(s).pc]
<1> SUFFICES ASSUME a.op = "Fire" PROVE FALSE
  OBVIOUS
<1>1. n \in Nat \ {0} /\ n # 1
  BY FramesTyped DEF Stacked
<1>2. /\ \A i \in 1 .. n : s.frames[i] \in Activation /\ s.frames[i].code \in Codes
      /\ \A i \in 2 .. n : AwaitsRead(s.frames[i]) /\ Linked(s.frames[i - 1], s.frames[i])
  BY FramesTyped DEF Stacked, Flowing
<1>3. Bottom(s) = s.frames[n]
  BY DEF Bottom
<1> HIDE DEF n
<1>4. n \in 1 .. n /\ n \in 2 .. n /\ n - 1 \in 1 .. n
  BY <1>1
<1>5. Bottom(s).code \in Codes /\ Bottom(s).pc \in Nat \ {0} /\ Linked(s.frames[n - 1], Bottom(s))
  BY <1>2, <1>3, <1>4 DEF Activation
<1>6. Covers(a)
  BY <1>5, CoverStep DEF Span
<1>7. Harmless(Prog[a.arg]) /\ s.frames[n - 1].code = Prog[a.arg]
  BY <1>5, <1>6 DEF Covers, Linked, Recorded, Surviving
<1> DEFINE f == s.frames[n - 1]
<1>8. f.code \in Codes /\ f.pc \in Nat \ {0} /\ Harmless(f.code)
  BY <1>2, <1>4, <1>7 DEF Activation
<1>9. DOMAIN f.code.steps = 1 .. Len(f.code.steps) /\ Len(f.code.steps) \in Nat
  BY <1>8, CodesTyped, LenProperties
<1>10. f.pc <= Len(f.code.steps) => f.code.steps[f.pc].op \in {"Del", "Purge"}
  BY <1>8, <1>9 DEF Harmless
<1>11. CASE n = 2
  <2>1. f = Top(s)
    BY <1>11 DEF Top
  <2>2. f.pc <= Len(f.code.steps)
    BY <1>8, <1>9, <2>1 DEF Ended
  <2> QED BY <1>10, <2>1, <2>2 DEF Awaits
<1>12. CASE n # 2
  <2>1. n - 1 \in 2 .. n
    BY <1>1, <1>12
  <2>2. AwaitsRead(f)
    BY <1>2, <2>1
  <2> QED BY <1>10, <2>2 DEF AwaitsRead, Reads, Propagating, Recorded, Surviving
<1> QED BY <1>11, <1>12

\* Moving on inside the stretch.
LEMMA AdvanceSpan ==
  ASSUME NEW s, Stacked(s), s.frames # <<>>, Span(s), NEW v \in Val,
         Len(s.frames) = 1 => Awaits(s).op # "Done"
  PROVE  Span(Advance(s, v)) /\ Advance(s, v).st = s.st /\ Advance(s, v).frames # <<>>
<1> DEFINE t == Advance(s, v)
           n == Len(s.frames)
<1>1. /\ Len(t.frames) = n /\ n \in Nat \ {0} /\ t.frames # <<>> /\ t.st = s.st
      /\ t.frames[1].code = s.frames[1].code /\ t.frames[1].pc = s.frames[1].pc + 1
      /\ \A i \in 2 .. n : t.frames[i] = s.frames[i]
  BY AdvanceShape
<1>2. CASE n = 1
  <2>1. CoveredFrom(s.frames[1].code, s.frames[1].pc + 1)
    BY <1>2, SpanTop DEF Top
  <2>2. Bottom(t) = t.frames[1] /\ 1 .. Len(t.frames) - 1 = {}
    BY <1>1, <1>2 DEF Bottom
  <2> HIDE DEF t
  <2>3. CoveredFrom(Bottom(t).code, Bottom(t).pc)
    BY <1>1, <2>1, <2>2
  <2>4. Span(t)
    BY <2>2, <2>3 DEF Span
  <2> QED BY <1>1, <2>4 DEF t
<1>3. CASE n # 1
  <2>f. /\ CoveredFrom(s.frames[n].code, s.frames[n].pc)
        /\ \A i \in 1 .. n - 1 : Defers(s.frames[i].code)
    BY DEF Span, Bottom
  <2> HIDE DEF t, n
  <2>1. n \in 2 .. n
    BY <1>1, <1>3
  <2>2. t.frames[n] = s.frames[n]
    BY <1>1, <2>1
  <2>3. ASSUME NEW i \in 1 .. n - 1 PROVE t.frames[i].code = s.frames[i].code
    <3>1. CASE i = 1
      BY <1>1, <3>1
    <3>2. CASE i # 1
      <4>1. i \in 2 .. n
        BY <1>1, <3>2
      <4> QED BY <1>1, <4>1
    <3> QED BY <3>1, <3>2
  <2>4. Span(t)
    BY <1>1, <2>f, <2>2, <2>3 DEF Span, Bottom
  <2> QED BY <1>1, <2>4 DEF t
<1> QED BY <1>2, <1>3

\* Only the frames matter to the stretch.
LEMMA SameSpan ==
  ASSUME NEW s, Span(s), NEW t, t.frames = s.frames
  PROVE  Span(t) /\ Bottom(t) = Bottom(s)
  BY DEF Span, Bottom

LEMMA RunCloses ==
  ASSUME NEW s, s.st = "run", s.oper = "open" => Span(s)
  PROVE  Closing(s)
  BY DEF Closing

LEMMA OnwardCloses ==
  ASSUME NEW s, Stacked(s), s.frames # <<>>, s.st = "run", Closing(s), NEW v \in Val,
         Len(s.frames) = 1 => Awaits(s).op # "Done"
  PROVE  Closing(Advance(s, v)) /\ Closing(Onward(s))
<1>1. Top(s).val \in Val
  BY TopTyped
<1>2. ASSUME NEW w \in Val PROVE Closing(Advance(s, w))
  <2>1. Advance(s, w).st = "run" /\ Advance(s, w).oper = s.oper
    BY AdvanceShape
  <2>2. s.oper = "open" => Span(Advance(s, w))
    BY AdvanceSpan DEF Closing
  <2> QED BY <2>1, <2>2, RunCloses
<1> QED BY <1>1, <1>2 DEF Onward

LEMMA NotOpenCloses ==
  ASSUME NEW s, s.oper # "open"
  PROVE  Closing(s)
  BY DEF Closing

LEMMA ReadsAreNotDone == \A op \in Reads : op \notin {"Done", "Del", "Purge"}
  BY DEF Reads, Propagating, Recorded, Surviving

LEMMA RaiseCloses ==
  ASSUME NEW p, NEW s, Stacked(s), s.frames # <<>>, ~Ended(Top(s)), Flowing(p, s),
         Awaits(s).op \notin {"Del", "Purge"},
         s.oper = "open" => Span(s) /\ Len(s.frames) # 1
  PROVE  Closing(Raise(s))
<1> DEFINE t == Raise(s)
<1>1. t.frames = s.frames /\ t.oper = s.oper /\ t.st = "raise"
  BY DEF Raise, Stacked, Handler
<1> HIDE DEF t
<1>2. CASE s.oper # "open"
  BY <1>1, <1>2, NotOpenCloses DEF t
<1>3. CASE s.oper = "open"
  <2>1. Span(t) /\ Bottom(t) = Bottom(s) /\ Len(t.frames) # 1
    BY <1>1, <1>3, SameSpan
  <2>2. Bottom(s).code.steps[Bottom(s).pc].op # "Fire"
    BY <1>3, FiredIsHarmless
  <2>3. Closing(t)
    BY <1>1, <2>1, <2>2 DEF Closing
  <2> QED BY <2>3 DEF t
<1> QED BY <1>2, <1>3

LEMMA DeliverCloses ==
  ASSUME NEW p, NEW s, Stacked(s), s.frames # <<>>, s.st = "run", ~Ended(Top(s)), Awaits(s).op \in Reads,
         Flowing(p, s), Closing(s), NEW r \in Slots, NEW v \in Val
  PROVE  Closing(Deliver(r, s, v))
<1> DEFINE op == Awaits(s).op
<1>0. op \notin {"Done", "Del", "Purge"} /\ (s.oper = "open" => Span(s))
  BY ReadsAreNotDone DEF Closing
<1>1. Closing(Onward(s)) /\ Onward(s) \in Handler /\ Onward(s).st = "run"
  BY <1>0, BlankTyped, OnwardCloses, OnwardSound DEF Stacked
<1>2. CASE op = "Scope"
  <2> DEFINE t == Onward(s)
             z == [t EXCEPT !.scope = Resolved(r, v)]
  <2>1. z.frames = t.frames /\ z.st = t.st /\ z.oper = t.oper
    BY <1>1 DEF Handler
  <2>2. z = Deliver(r, s, v)
    BY <1>2 DEF Deliver
  <2> HIDE DEF t, z
  <2>3. Closing(t) /\ t.st = "run"
    BY <1>1 DEF t
  <2>4. Closing(z)
    BY <2>1, <2>3, SameSpan, RunCloses DEF Closing
  <2> QED BY <2>2, <2>4
<1>3. CASE op = "Must" /\ v.told
  <2>1. s.oper = "open" => Len(s.frames) # 1
    BY <1>0, <1>3, SpanTop DEF Covers, Recorded, Surviving
  <2>2. Closing(Raise(s))
    BY <1>0, <2>1, RaiseCloses
  <2> QED BY <1>3, <2>2 DEF Deliver
<1>4. CASE op = "Fire"
  BY <1>1, <1>4 DEF Deliver
<1>5. CASE op # "Scope" /\ ~(op = "Must" /\ v.told) /\ op # "Fire"
  <2>1. Merge(Top(s).val, v, op) \in Val
    BY TopTyped, MergeTyped
  <2>2. Closing(Advance(s, Merge(Top(s).val, v, op)))
    BY <1>0, <2>1, OnwardCloses
  <2> QED BY <1>5, <2>2 DEF Deliver
<1> QED BY <1>2, <1>3, <1>4, <1>5

LEMMA PopSpan ==
  ASSUME NEW s, Stacked(s), s.frames # <<>>, Len(s.frames) # 1, Span(s)
  PROVE  LET t == [s EXCEPT !.frames = Tail(@)] IN Span(t) /\ Bottom(t) = Bottom(s)
<1> DEFINE t == [s EXCEPT !.frames = Tail(@)]
           n == Len(s.frames)
           m == Len(t.frames)
<1>1. m \in Nat \ {0} /\ n = m + 1 /\ \A i \in 1 .. m : t.frames[i] = s.frames[i + 1]
  BY PopShape
<1>2. /\ CoveredFrom(s.frames[n].code, s.frames[n].pc)
      /\ \A i \in 1 .. n - 1 : Defers(s.frames[i].code)
  BY DEF Span, Bottom
<1>3. Bottom(s) = s.frames[n] /\ Bottom(t) = t.frames[m]
  BY DEF Bottom
<1> HIDE DEF n, t
<1>4. t.frames[m] = s.frames[n]
  <2>1. m \in 1 .. m /\ m + 1 = n
    BY <1>1
  <2> QED BY <1>1, <2>1
<1>5. ASSUME NEW i \in 1 .. m - 1 PROVE Defers(t.frames[i].code)
  <2>1. i \in 1 .. m /\ i + 1 \in 1 .. n - 1
    BY <1>1
  <2> QED BY <1>1, <1>2, <2>1
<1>6. Span(t)
  BY <1>2, <1>3, <1>4, <1>5 DEF Span
<1> QED BY <1>3, <1>4, <1>6 DEF t

LEMMA LeaveCloses ==
  ASSUME NEW p, NEW s, Stacked(s), s.frames # <<>>, s.st = "run", Flowing(p, s), Closing(s),
         s.oper = "open" => Len(s.frames) # 1, NEW r \in Slots, NEW v \in Val
  PROVE  Closing(Leave(r, s, v))
<1>1. CASE Len(s.frames) = 1
  <2>1. Answer(s, "ok", v).oper = s.oper
    BY DEF Answer, Stacked, Handler
  <2>2. Closing(Answer(s, "ok", v))
    BY <1>1, <2>1, NotOpenCloses
  <2> QED BY <1>1, <2>2 DEF Leave
<1>2. CASE Len(s.frames) # 1
  <2> DEFINE t == [s EXCEPT !.frames = Tail(@)]
  <2>1. Stacked(t) /\ t.frames # <<>> /\ t.st = "run" /\ ~Ended(Top(t)) /\ Awaits(t).op \in Reads
    BY <1>2, PopStacked
  <2>2. Flowing(p, t)
    BY <1>2, PopFlow
  <2>3. t.oper = s.oper
    BY <1>2, PopShape
  <2>4. s.oper = "open" => Span(t)
    BY <1>2, PopSpan DEF Closing
  <2> HIDE DEF t
  <2>5. Closing(t)
    BY <2>1, <2>3, <2>4, RunCloses
  <2>6. Closing(Deliver(r, t, v))
    BY <2>1, <2>2, <2>5, DeliverCloses
  <2> QED BY <1>2, <2>6 DEF Leave, t
<1> QED BY <1>1, <1>2

LEMMA ThrownCloses ==
  ASSUME NEW p, NEW s, Stacked(s), s.frames # <<>>, ~Ended(Top(s)), Awaits(s).op \in Reads, Flowing(p, s),
         s.oper = "open" => Span(s) /\ (Len(s.frames) = 1 => Awaits(s).op # "Fire")
  PROVE  Closing(Thrown(s))
<1> DEFINE op == Awaits(s).op
           w == Top(s).val
           t == [s EXCEPT !.st = "run"]
<1>0. w \in Val /\ s \in Handler /\ op \notin {"Done", "Del", "Purge"}
  BY TopTyped, ReadsAreNotDone
<1>1. CASE op \in Surviving
  <2> DEFINE v == [w EXCEPT !.lost = TRUE, !.told = @ \/ op = "Try" \/ (op = "Spare" /\ w.lost)]
  <2>1. v \in Val
    BY <1>0 DEF Val
  <2>2. Stacked(t) /\ t.frames = s.frames /\ t.st = "run" /\ t.oper = s.oper
    BY <1>0 DEF Stacked, Handler
  <2>3. Awaits(t) = Awaits(s)
    BY <2>2 DEF Top, Awaits
  <2> HIDE DEF v, t
  <2>4. Closing(t)
    BY <2>2, SameSpan, RunCloses
  <2>5. Closing(Advance(t, v))
    BY <1>0, <2>1, <2>2, <2>3, <2>4, OnwardCloses
  <2> QED BY <1>1, <2>5 DEF Thrown, Survive, GiveUp, v, t
<1>2. CASE op \in Recorded /\ op \notin Surviving
  <2> DEFINE z == Raise([s EXCEPT !.oper = "failed"])
  <2>1. Thrown(s) = z
    BY <1>2 DEF Thrown, Survive, GiveUp
  <2>2. z.oper # "open"
    BY <1>0 DEF Raise, Handler
  <2> QED BY <2>1, <2>2, NotOpenCloses
<1>3. CASE op \notin Recorded /\ op \notin Surviving
  <2>1. Thrown(s) = Raise(s)
    <3>1. [s EXCEPT !.oper = s.oper] = s
      BY <1>0 DEF Handler
    <3> QED BY <1>3, <3>1 DEF Thrown, Survive, GiveUp
  <2>2. s.oper = "open" => Len(s.frames) # 1
    BY <1>0, <1>3, SpanTop DEF Covers, Reads, Propagating
  <2>3. Closing(Raise(s))
    BY <1>0, <2>2, RaiseCloses
  <2> QED BY <2>1, <2>3
<1> QED BY <1>1, <1>2, <1>3

\* A program called inside the stretch defers to the route.
LEMMA PushCloses ==
  ASSUME NEW p, NEW s, Stacked(s), s.frames # <<>>, s.st = "run", ~Ended(Top(s)), Awaits(s).op \in Reads,
         Closing(s), Awaits(s).arg \in DOMAIN Prog
  PROVE  Closing([s EXCEPT !.frames = <<Frame(Awaits(s).arg)>> \o @])
<1> DEFINE f == Frame(Awaits(s).arg)
           t == [s EXCEPT !.frames = <<f>> \o @]
           n == Len(s.frames)
           m == Len(t.frames)
<1>1. /\ n \in Nat \ {0} /\ m = n + 1
      /\ t.frames[1] = f /\ t.st = s.st /\ t.oper = s.oper
      /\ \A i \in 2 .. m : t.frames[i] = s.frames[i - 1]
  BY PushShape
<1>2. f.code = Prog[Awaits(s).arg]
  BY DEF Frame
<1>3. ASSUME s.oper = "open" PROVE Span(t)
  <2>0. Span(s) /\ Awaits(s).op # "Done"
    BY <1>3, ReadsAreNotDone DEF Closing
  <2>1. Awaits(s).arg \notin Deciding
    <3>1. CASE Len(s.frames) = 1
      <4>1. Covers(Awaits(s))
        BY <2>0, <3>1, SpanTop
      <4>2. Awaits(s).op \notin {"Open", "Filter", "Hush", "Put", "PutWhole", "PutIfSome", "Del", "Purge", "Fulfill"}
        BY DEF Reads, Propagating, Recorded, Surviving
      <4> QED BY <4>1, <4>2 DEF Covers
    <3>2. CASE Len(s.frames) # 1
      <4>1. Top(s).pc \in 1 .. Len(Top(s).code.steps)
        <5>1. Top(s).code \in Codes /\ Top(s).pc \in Nat \ {0}
          BY TopTyped
        <5>2. Len(Top(s).code.steps) \in Nat
          BY <5>1, CodesTyped, LenProperties
        <5> QED BY <5>1, <5>2 DEF Ended
      <4> QED BY <2>0, <3>2, <4>1, SpanTop
    <3> QED BY <3>1, <3>2
  <2>2. Defers(f.code)
    BY <1>2, <2>1, CoverAssumption
  <2>3. /\ CoveredFrom(s.frames[n].code, s.frames[n].pc)
        /\ \A i \in 1 .. n - 1 : Defers(s.frames[i].code)
    BY <2>0 DEF Span, Bottom
  <2>4. Bottom(t) = t.frames[m]
    BY DEF Bottom
  <2> HIDE DEF n, t, f
  <2>5. t.frames[m] = s.frames[n]
    <3>1. m \in 2 .. m /\ m - 1 = n
      BY <1>1
    <3> QED BY <1>1, <3>1
  <2>6. ASSUME NEW i \in 1 .. m - 1 PROVE Defers(t.frames[i].code)
    <3>1. CASE i = 1
      BY <1>1, <2>2, <3>1
    <3>2. CASE i # 1
      <4>1. i \in 2 .. m /\ i - 1 \in 1 .. n - 1
        BY <1>1, <3>2
      <4> QED BY <1>1, <2>3, <4>1
    <3> QED BY <3>1, <3>2
  <2> QED BY <2>3, <2>4, <2>5, <2>6 DEF Span
<1> HIDE DEF t
<1>4. Closing(t)
  BY <1>1, <1>3, RunCloses
<1> QED BY <1>4 DEF t, f

-----------------------------------------------------------------------------
LEMMA BecomeCloses ==
  ASSUME ClosedInv, NEW r \in Slots, NEW s, Closing(s), Become(r, s)
  PROVE  ClosedPart'
<1> SUFFICES ASSUME NEW q \in Slots PROVE Closing(slot'[q])
  BY DEF ClosedPart
<1>1. slot'[q] = IF q = r THEN s ELSE slot[q]
  BY DEF ClosedInv, FlowInv, IInv, Become
<1> QED BY <1>1 DEF ClosedInv, ClosedPart

\* What a step starts from.
LEMMA AtOpen ==
  ASSUME ClosedInv, NEW r \in Slots, NEW ops, At(r, ops)
  PROVE  /\ Stacked(slot[r]) /\ slot[r].frames # <<>> /\ slot[r] \in Handler /\ slot[r].st = "run"
         /\ Flowing(Program(r), slot[r]) /\ Closing(slot[r]) /\ ~Ended(Top(slot[r]))
         /\ Awaits(slot[r]).op \in ops /\ Current(r) = Awaits(slot[r])
         /\ Top(slot[r]).pc \in 1 .. Len(Top(slot[r]).code.steps) /\ Top(slot[r]).val \in Val
         /\ slot[r].oper = "open" => Span(slot[r])
<1>1. FlowInv /\ Closing(slot[r])
  BY DEF ClosedInv, ClosedPart
<1>2. slot[r].oper = "open" => Span(slot[r])
  BY <1>1, AtOps DEF Closing
<1> QED BY <1>1, <1>2, AtOps, AtFlow

\* A step that may deny the request is not taken while the operation is open.
LEMMA DeniedIsNotOpen ==
  ASSUME ClosedInv, NEW r \in Slots, At(r, Denying)
  PROVE  slot[r].oper # "open"
<1>1. slot[r].oper = "open" => FALSE
  <2> SUFFICES ASSUME slot[r].oper = "open" PROVE FALSE
    OBVIOUS
  <2>1. Stacked(slot[r]) /\ slot[r].frames # <<>> /\ Span(slot[r]) /\ Awaits(slot[r]).op \in Denying
        /\ Top(slot[r]).pc \in 1 .. Len(Top(slot[r]).code.steps)
    BY AtOpen
  <2>2. CASE Len(slot[r].frames) = 1
    <3>1. Awaits(slot[r]).op # "Done"
      BY <2>1 DEF Denying
    <3>2. Covers(Awaits(slot[r]))
      BY <2>1, <2>2, <3>1, SpanTop
    <3> QED BY <2>1, <3>2 DEF Denying, Covers, Recorded, Surviving
  <2>3. CASE Len(slot[r].frames) # 1
    BY <2>1, <2>3, SpanTop
  <2> QED BY <2>2, <2>3
<1> QED BY <1>1

LEMMA AdmitCloses ==
  ASSUME ClosedInv, NEW r \in Slots,
         Admit(r) \/ requireRole(r) \/ namespaceVisible(r) \/ claimIdempotencyKey(r)
  PROVE  ClosedPart'
<1>1. At(r, Denying)
  BY DEF Admit, requireRole, namespaceVisible, claimIdempotencyKey, At, Denying
<1>2. slot[r].oper # "open" /\ slot[r] \in Handler /\ Stacked(slot[r]) /\ slot[r].frames # <<>> /\ Top(slot[r]).val \in Val
  BY <1>1, DeniedIsNotOpen, AtOpen
<1>3. Onward(slot[r]).oper = slot[r].oper
  BY <1>2, AdvanceShape DEF Onward
<1>4. \A k, v : Answer(slot[r], k, v).oper = slot[r].oper
  BY <1>2 DEF Answer, Handler
<1>5. /\ Closing(Onward(slot[r])) /\ Closing(Deny(slot[r]))
      /\ Closing(Answer(slot[r], "dup", Blank))
  BY <1>2, <1>3, <1>4, NotOpenCloses DEF Deny
<1>6. \/ Become(r, Onward(slot[r])) \/ Become(r, Deny(slot[r]))
      \/ Become(r, Answer(slot[r], "dup", Blank))
  BY DEF Admit, requireRole, namespaceVisible, claimIdempotencyKey
<1> QED BY <1>5, <1>6, BecomeCloses

LEMMA BeginCloses ==
  ASSUME ClosedInv, NEW r \in Slots, Begin(r)
  PROVE  ClosedPart'
<1> DEFINE s == Fresh("run", <<Frame(scenario.req[r].prog)>>, slot[r].runs - 1)
<1>1. s.oper # "open"
  BY DEF Fresh, None
<1>2. Become(r, s)
  BY DEF Begin
<1> HIDE DEF s
<1> QED BY <1>1, <1>2, NotOpenCloses, BecomeCloses

LEMMA OnCloses ==
  ASSUME ClosedInv, NEW r \in Slots,
         Project(r) \/ cacheSet(r) \/ cacheDel(r) \/ deletePattern(r) \/ fulfillIdempotencyKey(r)
  PROVE  ClosedPart'
<1> DEFINE ops == {"Filter", "Hush", "Put", "PutWhole", "PutIfSome", "Del", "Purge", "Fulfill"}
<1>1. At(r, ops)
  BY DEF Project, cacheSet, cacheDel, deletePattern, fulfillIdempotencyKey, At
<1>2. /\ Stacked(slot[r]) /\ slot[r].frames # <<>> /\ slot[r].st = "run" /\ Closing(slot[r])
      /\ Awaits(slot[r]).op # "Done" /\ Top(slot[r]).val \in Val
  BY <1>1, AtOpen
<1>3. \A v \in Val : Closing(Advance(slot[r], v)) /\ Closing(Onward(slot[r]))
  BY <1>2, OnwardCloses
<1>4. Become(r, Onward(slot[r])) \/ \E v \in Val : Become(r, Advance(slot[r], v))
  <2>1. CASE Project(r)
    <3> DEFINE v == Top(slot[r]).val
               w == IF Current(r).op = "Filter" THEN [v EXCEPT !.shows = @ \cap slot[r].scope]
                    ELSE [v EXCEPT !.told = @ /\ Caller(r) \in Everything]
    <3>1. w \in Val
      BY <1>2 DEF Val
    <3> HIDE DEF w
    <3>2. Become(r, Advance(slot[r], w))
      BY <2>1 DEF Project, w
    <3> QED BY <3>1, <3>2
  <2>2. CASE ~Project(r)
    BY <2>2 DEF cacheSet, cacheDel, deletePattern, fulfillIdempotencyKey
  <2> QED BY <2>1, <2>2
<1> QED BY <1>2, <1>3, <1>4, BlankTyped, BecomeCloses

LEMMA ScopeOfNobodyCloses ==
  ASSUME ClosedInv, NEW r \in Slots, ScopeOfNobody(r)
  PROVE  ClosedPart'
<1> DEFINE t == Onward(slot[r])
           z == [t EXCEPT !.scope = {}]
<1>1. At(r, {"Scope"})
  BY DEF ScopeOfNobody
<1>2. /\ Stacked(slot[r]) /\ slot[r].frames # <<>> /\ slot[r].st = "run" /\ Closing(slot[r])
      /\ Awaits(slot[r]).op = "Scope" /\ ~Ended(Top(slot[r]))
  BY <1>1, AtOpen
<1>3. Closing(t)
  BY <1>2, BlankTyped, OnwardCloses
<1>4. t \in Handler /\ t.st = "run"
  BY <1>2, OnwardSound DEF Stacked
<1>5. Become(r, z)
  BY DEF ScopeOfNobody
<1> HIDE DEF t
<1>6. z.frames = t.frames /\ z.st = "run" /\ z.oper = t.oper
  BY <1>4 DEF Handler
<1> HIDE DEF z
<1>7. Closing(z)
  BY <1>3, <1>4, <1>6, SameSpan, RunCloses DEF Closing
<1> QED BY <1>5, <1>7, BecomeCloses

\* A program that opens an operation is the route's own.
LEMMA OpenerIsRoute ==
  ASSUME NEW p, NEW s, Stacked(s), s.frames # <<>>, Flowing(p, s), Opens(Top(s).code)
  PROVE  Len(s.frames) = 1
<1> SUFFICES ASSUME Len(s.frames) # 1 PROVE FALSE
  OBVIOUS
<1> DEFINE n == Len(s.frames)
<1>1. n \in Nat \ {0} /\ n # 1
  BY FramesTyped DEF Stacked
<1>2. /\ \A i \in 1 .. n : s.frames[i].code \in Codes /\ s.frames[i] \in Activation
      /\ \A i \in 2 .. n : AwaitsRead(s.frames[i]) /\ Linked(s.frames[i - 1], s.frames[i])
  BY FramesTyped DEF Stacked, Flowing
<1> HIDE DEF n
<1>3. 2 \in 2 .. n /\ 2 \in 1 .. n /\ 2 - 1 = 1
  BY <1>1
<1> DEFINE g == s.frames[2]
<1>4. AwaitsRead(g) /\ Linked(s.frames[1], g) /\ g.code \in Codes /\ g.pc \in Nat \ {0}
  BY <1>2, <1>3 DEF Activation
<1>5. PICK q \in DOMAIN Prog : g.code = Prog[q]
  BY <1>4 DEF Codes
<1>6. g.pc \in DOMAIN Prog[q].steps
  <2>1. DOMAIN g.code.steps = 1 .. Len(g.code.steps) /\ Len(g.code.steps) \in Nat
    BY <1>4, CodesTyped, LenProperties
  <2> QED BY <1>4, <1>5, <2>1 DEF AwaitsRead
<1>7. ~Opens(Prog[Prog[q].steps[g.pc].arg])
  BY <1>4, <1>5, <1>6, CoverAssumption DEF AwaitsRead, Linked
<1> QED BY <1>4, <1>5, <1>7 DEF Linked, Top

LEMMA LifecycleCloses ==
  ASSUME ClosedInv, NEW r \in Slots, Lifecycle(r)
  PROVE  ClosedPart'
<1> DEFINE s == slot[r]
           t == Onward(s)
           o == IF Current(r).op = "Open" THEN "open" ELSE "completed"
           z == [t EXCEPT !.oper = o]
<1>1. At(r, {"Open", "Done"})
  BY DEF Lifecycle
<1>2. /\ Stacked(s) /\ s.frames # <<>> /\ s.st = "run" /\ Flowing(Program(r), s)
      /\ Awaits(s).op \in {"Open", "Done"} /\ ~Ended(Top(s)) /\ Top(s).val \in Val /\ Current(r) = Awaits(s)
      /\ Top(s).pc \in 1 .. Len(Top(s).code.steps)
  BY <1>1, AtOpen
<1>3. t \in Handler /\ t.st = "run"
  BY <1>2, OnwardSound DEF Stacked
<1>4. Become(r, z)
  BY DEF Lifecycle
<1>5. ASSUME Current(r).op = "Open" PROVE Span(t)
  <2>1. Top(s).code \in Codes
    BY <1>2, TopTyped
  <2>2. PICK q \in DOMAIN Prog : Top(s).code = Prog[q]
    BY <2>1 DEF Codes
  <2>3. DOMAIN Prog[q].steps = 1 .. Len(Prog[q].steps)
    BY <2>1, <2>2, CodesTyped, LenProperties
  <2>4. Top(s).pc \in DOMAIN Prog[q].steps /\ Prog[q].steps[Top(s).pc].op = "Open"
    BY <1>2, <1>5, <2>2, <2>3 DEF Awaits
  <2>5. CoveredFrom(Top(s).code, Top(s).pc + 1) /\ Opens(Top(s).code)
    BY <2>2, <2>4, CoverAssumption DEF Opens
  <2>6. Len(s.frames) = 1
    BY <1>2, <2>5, OpenerIsRoute
  <2>7. /\ Len(t.frames) = 1 /\ t.frames[1].code = Top(s).code /\ t.frames[1].pc = Top(s).pc + 1
    BY <1>2, <2>6, AdvanceShape DEF Onward, Top
  <2> HIDE DEF t
  <2>8. Bottom(t) = t.frames[1] /\ 1 .. Len(t.frames) - 1 = {}
    BY <2>7 DEF Bottom
  <2> QED BY <2>5, <2>7, <2>8 DEF Span
<1> HIDE DEF t
<1>6. z.frames = t.frames /\ z.st = "run" /\ z.oper = o
  BY <1>3 DEF Handler
<1>7. Closing(z)
  <2> HIDE DEF z
  <2>1. CASE Current(r).op = "Open"
    BY <1>5, <1>6, <2>1, SameSpan, RunCloses
  <2>2. CASE Current(r).op # "Open"
    BY <1>6, <2>2, NotOpenCloses
  <2> QED BY <2>1, <2>2
<1> HIDE DEF z
<1> QED BY <1>4, <1>7, BecomeCloses

\* A hit, an empty scope and the last step return, which a route whose operation
\* is open does not.
LEMMA ReturnCloses ==
  ASSUME ClosedInv, NEW r \in Slots, cacheGet(r) \/ AnswerNothing(r) \/ Return(r)
  PROVE  ClosedPart'
<1> DEFINE s == slot[r]
<1>1. s.st = "run" /\ s.st # "idle" /\ (cacheGet(r) \/ AnswerNothing(r) => At(r, {"Hit", "Nothing"}))
  BY DEF cacheGet, AnswerNothing, Return, At
<1>2. /\ Stacked(s) /\ s.frames # <<>> /\ Flowing(Program(r), s) /\ Top(s).val \in Val
      /\ Top(s).code \in Codes /\ Top(s).pc \in Nat \ {0} /\ Len(Top(s).code.steps) \in Nat
  BY <1>1, AtFlow DEF ClosedInv
<1>3. Closing(s) /\ (s.oper = "open" => Span(s))
  BY <1>1 DEF ClosedInv, ClosedPart, Closing
<1>4. ASSUME s.oper = "open", Len(s.frames) = 1 PROVE FALSE
  <2>1. /\ Top(s).pc \in 1 .. Len(Top(s).code.steps)
        /\ Awaits(s).op # "Done" => Covers(Awaits(s))
    BY <1>2, <1>3, <1>4, SpanTop
  <2>2. CASE Return(r)
    <3>1. Top(s).pc > Len(Top(s).code.steps)
      BY <2>2 DEF Return, Ended
    <3> QED BY <1>2, <2>1, <3>1
  <2>3. CASE At(r, {"Hit", "Nothing"})
    <3>1. Awaits(s).op \in {"Hit", "Nothing"}
      BY <2>3, AtOpen
    <3> QED BY <2>1, <3>1 DEF Covers, Recorded, Surviving
  <2> QED BY <1>1, <2>2, <2>3
<1>5. \A v \in Val : Closing(Leave(r, s, v))
  BY <1>1, <1>2, <1>3, <1>4, LeaveCloses
<1>6. cacheGet(r) \/ AnswerNothing(r) => Closing(Onward(s))
  BY <1>1, <1>2, <1>3, AtOpen, BlankTyped, OnwardCloses
<1>7. \A e \in cache : e.val \in Val
  BY DEF ClosedInv, FlowInv, IInv, Globals, Entry
<1>8. \/ (cacheGet(r) \/ AnswerNothing(r)) /\ Become(r, Onward(s))
      \/ \E e \in cache : Become(r, Leave(r, s, e.val))
      \/ Become(r, Leave(r, s, Blank))
      \/ Become(r, Leave(r, s, Top(s).val))
  BY DEF cacheGet, Entries, AnswerNothing, Return
<1> QED BY <1>2, <1>5, <1>6, <1>7, <1>8, BlankTyped, BecomeCloses

LEMMA CallCloses ==
  ASSUME ClosedInv, NEW r \in Slots, Call(r)
  PROVE  ClosedPart'
<1> DEFINE s == [slot[r] EXCEPT !.frames = <<Frame(Awaits(slot[r]).arg)>> \o @]
<1>1. At(r, Reads) /\ Current(r).arg \in DOMAIN Prog
  BY DEF Call
<1>2. Closing(s)
  BY <1>1, AtOpen, PushCloses
<1>3. Become(r, s)
  BY DEF Call, Current
<1> HIDE DEF s
<1> QED BY <1>2, <1>3, BecomeCloses

LEMMA FetchCloses ==
  ASSUME ClosedInv, NEW r \in Slots, Fetch(r)
  PROVE  ClosedPart'
<1>1. At(r, Reads)
  BY DEF Fetch
<1>2. PICK v \in Upstream(r, Current(r).arg) : Become(r, Deliver(r, slot[r], v))
  BY DEF Fetch
<1>3. v \in Val
  BY UpstreamTyped DEF ClosedInv, FlowInv
<1>4. Closing(Deliver(r, slot[r], v))
  BY <1>1, <1>3, AtOpen, DeliverCloses
<1> QED BY <1>2, <1>4, BecomeCloses

LEMMA FailCloses ==
  ASSUME ClosedInv, NEW r \in Slots, FetchFails(r) \/ VerdictFails(r)
  PROVE  ClosedPart'
<1> DEFINE s == slot[r]
<1>1. At(r, Reads)
  BY DEF FetchFails, VerdictFails, At, Reads, Propagating, Recorded
<1>2. /\ Stacked(s) /\ s.frames # <<>> /\ s \in Handler /\ ~Ended(Top(s)) /\ Awaits(s).op \in Reads
      /\ Flowing(Program(r), s) /\ Current(r) = Awaits(s) /\ (s.oper = "open" => Span(s))
  BY <1>1, AtOpen
<1>3. ASSUME FetchFails(r) PROVE Closing(Thrown(s))
  <2>1. Awaits(s).arg \notin DOMAIN Prog
    BY <1>2, <1>3 DEF FetchFails
  <2>2. s.oper = "open" /\ Len(s.frames) = 1 => Awaits(s).op # "Fire"
    BY <1>2, <2>1, SpanTop DEF Covers, Recorded, Surviving
  <2> QED BY <1>2, <2>2, ThrownCloses
<1>4. Closing(Raise([s EXCEPT !.oper = "failed"]))
  <2>1. Raise([s EXCEPT !.oper = "failed"]).oper # "open"
    BY <1>2 DEF Raise, Handler
  <2> QED BY <2>1, NotOpenCloses
<1>5. (FetchFails(r) /\ Become(r, Thrown(s))) \/ Become(r, Raise([s EXCEPT !.oper = "failed"]))
  BY DEF FetchFails, VerdictFails
<1> QED BY <1>3, <1>4, <1>5, BecomeCloses

LEMMA ChangeCloses ==
  ASSUME ClosedInv, NEW r \in Slots, Change(r)
  PROVE  ClosedPart'
<1> DEFINE s == slot[r]
<1>1. At(r, {"Write"})
  BY DEF Change
<1>2. /\ Stacked(s) /\ s.frames # <<>> /\ ~Ended(Top(s)) /\ Awaits(s).op = "Write" /\ s.st = "run"
      /\ Flowing(Program(r), s) /\ Closing(s) /\ (s.oper = "open" => Span(s))
  BY <1>1, AtOpen
<1>3. s.oper = "open" => Len(s.frames) # 1
  BY <1>2, SpanTop DEF Covers, Recorded, Surviving
<1>4. Closing(Raise(s))
  BY <1>2, <1>3, RaiseCloses
<1>5. Closing(Onward(s))
  BY <1>2, BlankTyped, OnwardCloses
<1>6. Become(r, Onward(s)) \/ Become(r, Raise(s))
  BY DEF Change
<1> QED BY <1>4, <1>5, <1>6, BecomeCloses

LEMMA CatchCloses ==
  ASSUME ClosedInv, NEW r \in Slots, Catch(r)
  PROVE  ClosedPart'
<1> DEFINE s == slot[r]
           fail == Top(s).code.fail
           outer == [s EXCEPT !.frames = Tail(@)]
           u == [s EXCEPT !.st = "run"]
           b == [Blank EXCEPT !.lost = TRUE, !.told = (fail = "told")]
           z == CASE fail \in {"empty", "told"} -> Leave(r, u, b)
                  [] fail = "throw" /\ Len(s.frames) > 1 -> Thrown(outer)
                  [] OTHER -> Answer(s, "error", Blank)
<1>1. s.st = "raise" /\ s.st # "idle"
  BY DEF Catch
<1>2. Stacked(s) /\ s.frames # <<>> /\ s \in Handler /\ Flowing(Program(r), s) /\ Top(s).code \in Codes
  BY <1>1, AtFlow DEF ClosedInv
<1>3. s.oper = "open" =>
        Span(s) /\ Len(s.frames) # 1 /\ Bottom(s).code.steps[Bottom(s).pc].op # "Fire"
  BY <1>1 DEF ClosedInv, ClosedPart, Closing
<1>0. Len(s.frames) \in Nat \ {0}
  BY <1>2, FramesTyped
<1>4. Closing(Leave(r, u, b))
  <2>1. Stacked(u) /\ u.frames = s.frames /\ u.st = "run" /\ u.kind = s.kind /\ u.val = s.val /\ u.oper = s.oper
    BY <1>2 DEF Stacked, Handler
  <2>2. b \in Val
    BY BlankTyped DEF Val
  <2> HIDE DEF u, b
  <2>3. Flowing(Program(r), u) /\ Closing(u)
    BY <1>2, <1>3, <2>1, SameFlow, SameSpan, RunCloses
  <2> QED BY <1>2, <1>3, <2>1, <2>2, <2>3, LeaveCloses
<1>5. ASSUME Len(s.frames) > 1 PROVE Closing(Thrown(outer))
  <2>1. Len(s.frames) # 1
    <3> DEFINE n == Len(s.frames)
    <3>1. n > 1 /\ n \in Nat
      BY <1>0, <1>5
    <3> HIDE DEF n
    <3>2. n # 1
      BY <3>1
    <3> QED BY <3>2 DEF n
  <2>2. Stacked(outer) /\ outer.frames # <<>> /\ ~Ended(Top(outer)) /\ Awaits(outer).op \in Reads
    BY <1>2, <2>1, PopStacked
  <2>3. Flowing(Program(r), outer)
    BY <1>2, <2>1, PopFlow
  <2>4. outer.oper = s.oper
    BY <1>2, <2>1, PopShape
  <2>5. s.oper = "open" => Span(outer) /\ Bottom(outer) = Bottom(s)
    BY <1>2, <1>3, <2>1, PopSpan
  <2> HIDE DEF outer
  <2>6. s.oper = "open" => (Len(outer.frames) = 1 => Awaits(outer).op # "Fire")
    BY <1>3, <2>5 DEF Bottom, Awaits, Top
  <2> QED BY <2>2, <2>3, <2>4, <2>5, <2>6, ThrownCloses
<1>6. ASSUME ~(fail \in {"empty", "told"}), ~(fail = "throw" /\ Len(s.frames) > 1)
      PROVE  Closing(Answer(s, "error", Blank))
  <2>1. Answer(s, "error", Blank).oper = s.oper
    BY <1>2 DEF Answer, Handler
  <2>2. s.oper = "open" => FALSE
    <3> SUFFICES ASSUME s.oper = "open" PROVE FALSE
      OBVIOUS
    <3>1. Defers(Top(s).code) /\ Len(s.frames) # 1
      BY <1>2, <1>3, SpanTop
    <3>2. fail # "error"
      BY <3>1 DEF Defers
    <3>3. fail \in Fates
      BY <1>2, CodesTyped DEF Code
    <3>4. Len(s.frames) > 1
      <4> DEFINE n == Len(s.frames)
      <4>1. n \in Nat \ {0} /\ n # 1
        BY <1>0, <3>1
      <4> HIDE DEF n
      <4>2. n > 1
        BY <4>1
      <4> QED BY <4>2 DEF n
    <3> QED BY <1>6, <3>2, <3>3, <3>4 DEF Fates
  <2> QED BY <2>1, <2>2, NotOpenCloses
<1>7. Become(r, z)
  BY DEF Catch
<1> HIDE DEF u, b, outer
<1>8. Closing(z)
  BY <1>4, <1>5, <1>6
<1> HIDE DEF z
<1> QED BY <1>7, <1>8, BecomeCloses

LEMMA CrashCloses ==
  ASSUME ClosedInv, Crash
  PROVE  ClosedPart'
<1> SUFFICES ASSUME NEW r \in Slots PROVE Closing(slot'[r])
  BY DEF ClosedPart
<1> DEFINE t == Answer(slot[r], "lost", Blank)
<1>1. slot[r] \in Handler /\ Closing(slot[r])
  BY DEF ClosedInv, ClosedPart, FlowInv, IInv
<1>2. t.st = "idle" /\ t.kind = "lost"
  BY <1>1 DEF Answer, Handler
<1>3. Closing(t)
  <2> HIDE DEF t
  <2> QED BY <1>2 DEF Closing
<1>4. slot'[r] = t \/ slot'[r] = slot[r]
  BY DEF Crash
<1> QED BY <1>1, <1>3, <1>4

LEMMA ClosedInit == Init => ClosedInv
<1> SUFFICES ASSUME Init PROVE ClosedInv
  OBVIOUS
<1>1. FlowInv
  BY FlowInit
<1>2. ASSUME NEW r \in Slots PROVE Closing(slot[r])
  <2>1. slot[r].oper # "open"
    BY DEF Init, Fresh, None
  <2> QED BY <2>1, NotOpenCloses
<1> QED BY <1>1, <1>2 DEF ClosedInv, ClosedPart

LEMMA ClosedNext == ClosedInv /\ [Next]_vars => ClosedInv'
<1> SUFFICES ASSUME ClosedInv, [Next]_vars PROVE ClosedInv'
  OBVIOUS
<1>1. FlowInv'
  BY FlowNext DEF ClosedInv
<1>2. ASSUME NEW r \in Slots, Step(r) PROVE ClosedPart'
  BY <1>2, BeginCloses, AdmitCloses, OnCloses, ScopeOfNobodyCloses, LifecycleCloses, ReturnCloses, CallCloses,
     FetchCloses, FailCloses, ChangeCloses, CatchCloses DEF Step
<1>3. Expire \/ CommandFails \/ Connect \/ UNCHANGED vars => ClosedPart'
  BY DEF Expire, CommandFails, Connect, vars, ClosedInv, ClosedPart
<1>4. Crash => ClosedPart'
  BY CrashCloses
<1>5. ClosedPart'
  BY <1>2, <1>3, <1>4 DEF Next
<1> QED BY <1>1, <1>5 DEF ClosedInv

\* Whatever the programs are, as long as a route awaits between beginOperation and
\* completeOperation only what it records or survives, every operation it opens
\* gets its terminal event unless the process dies: no throw, no refusal and no
\* cached answer on the way leaves it open.
THEOREM OperationsClosed == Spec => []ClosedUnlessCrashed
<1>1. ClosedInv => ClosedUnlessCrashed
  BY DEF ClosedInv, ClosedPart, Closing, ClosedUnlessCrashed, Working
<1> QED BY <1>1, ClosedInit, ClosedNext, PTL DEF Spec

-----------------------------------------------------------------------------
(* How a handler walks through its programs.  Depth 1 is the handler's own *)
(* program; a step moves the topmost frame, enters a program above it, or  *)
(* leaves it for the frame below.                                          *)
Height(s) == Len(s.frames)
Frm(s, d) == s.frames[Height(s) + 1 - d]
Now(f) == f.code.steps[f.pc]
Up(s) == Frm(s, Height(s))
Under(s, t, m) == \A d \in 1 .. m : Frm(t, d) = Frm(s, d)

\* The step the frame at depth m waits for or makes is done.
Past(s, t, m) ==
  /\ t.st = "run" /\ m \in 1 .. Height(s) /\ Height(t) = m /\ Under(s, t, m - 1)
  /\ Frm(s, m).pc \in 1 .. Len(Frm(s, m).code.steps)
  /\ Frm(t, m).code = Frm(s, m).code /\ Frm(t, m).pc = Frm(s, m).pc + 1

\* The frame at depth m takes v for the answer to its read, or goes on without one.
Takes(r, s, t, m, v) ==
  LET op == Now(Frm(s, m)).op IN
  /\ t.scope = IF op = "Scope" THEN Resolved(r, v) ELSE s.scope
  /\ Frm(t, m).val = IF op \in {"Scope", "Fire"} THEN Frm(s, m).val ELSE Merge(Frm(s, m).val, v, op)
Loses(s, t, m) ==
  /\ Now(Frm(s, m)).op \in Surviving
  /\ t.scope = s.scope
  /\ Frm(t, m).val.lost /\ Frm(t, m).val.shows = Frm(s, m).val.shows /\ Frm(t, m).val.old = Frm(s, m).val.old

\* The topmost frame of s answers v.
Returns(r, s, v) ==
  LET f == Up(s) IN
  \/ s.st = "run" /\ Ended(f) /\ v = f.val
  \/ /\ s.st = "run" /\ f.pc \in 1 .. Len(f.code.steps) /\ Now(f).op = "Hit"
     /\ \E e \in cache : e.key = Now(f).arg /\ e.dim = KeyOf(r, e.key) /\ v = e.val
  \/ s.st = "run" /\ f.pc \in 1 .. Len(f.code.steps) /\ Now(f).op = "Nothing" /\ s.scope = {} /\ v = Blank
  \/ s.st = "raise" /\ f.code.fail \in {"empty", "told"} /\ v.lost /\ v.shows = {} /\ ~v.old

Gone(r, s, t) ==
  /\ t.st = "idle" /\ t.frames = <<>> /\ t.scope = s.scope
  /\ t.kind \in {"ok", "dup", "denied", "error"}
  /\ t.kind = "ok" => Height(s) = 1 /\ Returns(r, s, t.val)
  /\ t.kind = "dup" => scenario.req[r].keyed /\ claim.st = "done"

Sunk(s, t) ==
  /\ t.st = "raise" /\ t.scope = s.scope
  /\ Height(t) \in 1 .. Height(s) /\ Under(s, t, Height(t))

Deeper(s, t) ==
  /\ s.st = "run" /\ t.st = "run" /\ t.scope = s.scope
  /\ Height(t) = Height(s) + 1 /\ Under(s, t, Height(s))
  /\ Up(s).pc \in 1 .. Len(Up(s).code.steps) /\ Calls(Now(Up(s))) /\ Up(t) = Frame(Now(Up(s)).arg)

Stepped(r, s, t) ==
  LET m == Height(s)
      x == Now(Up(s))
      a == Up(s).val
      b == Up(t).val IN
  /\ s.st = "run" /\ Past(s, t, m)
  /\ \/ /\ x.op \notin Reads \cup {"Filter", "Hush"} /\ b = a /\ t.scope = s.scope
        /\ x.op = "Gate" => Area(r) \in s.scope
     \/ x.op = "Filter" /\ b.lost = a.lost /\ b.old = a.old /\ b.shows = a.shows \cap s.scope /\ t.scope = s.scope
     \/ x.op = "Hush" /\ b.lost = a.lost /\ b.old = a.old /\ b.shows = a.shows /\ t.scope = s.scope
     \/ x.op = "Scope" /\ b = a /\ t.scope = {}
     \/ x.op \in Reads /\ x.arg \notin DOMAIN Prog /\ \E v \in Upstream(r, x.arg) : Takes(r, s, t, m, v)
     \/ x.op \in Reads /\ x.arg \notin DOMAIN Prog /\ Loses(s, t, m)

Resumed(r, s, t) ==
  LET m == Height(s) - 1 IN
  /\ Past(s, t, m)
  /\ \/ \E v \in Val : Returns(r, s, v) /\ Takes(r, s, t, m, v)
     \/ s.st = "raise" /\ Loses(s, t, m)

Walk(r, s, t) ==
  /\ t.runs = s.runs
  /\ \/ Gone(r, s, t)
     \/ t.kind = s.kind /\ (Sunk(s, t) \/ Deeper(s, t) \/ Stepped(r, s, t) \/ Resumed(r, s, t))

\* Frames counted from the bottom.
LEMMA FrmTyped ==
  ASSUME NEW s, Stacked(s), s.frames # <<>>
  PROVE  /\ Height(s) \in Nat \ {0} /\ Up(s) = Top(s) /\ Up(s) = s.frames[1]
         /\ \A d \in 1 .. Height(s) :
              /\ Frm(s, d) \in Activation /\ Frm(s, d).code \in Codes
              /\ Frm(s, d).pc \in Nat \ {0} /\ Frm(s, d).val \in Val
         /\ \A d \in 1 .. Height(s) - 1 :
              Frm(s, d).pc \in 1 .. Len(Frm(s, d).code.steps) /\ Now(Frm(s, d)).op \in Reads
<1> DEFINE n == Len(s.frames)
<1>1. n \in Nat \ {0} /\ \A i \in 1 .. n : s.frames[i] \in Activation
  BY FramesTyped DEF Stacked
<1>2. \A i \in 1 .. n : s.frames[i].code \in Codes
  BY DEF Stacked
<1>3. \A i \in 2 .. n : AwaitsRead(s.frames[i])
  BY DEF Stacked
<1> HIDE DEF n
<1>4. /\ n + 1 - n = 1
      /\ \A d \in 1 .. n : n + 1 - d \in 1 .. n
      /\ \A d \in 1 .. n - 1 : n + 1 - d \in 2 .. n
  BY <1>1
<1>5. Height(s) = n /\ \A d : Frm(s, d) = s.frames[n + 1 - d]
  BY DEF Height, Frm, n
<1>6. Up(s) = Top(s) /\ Up(s) = s.frames[1]
  BY <1>4, <1>5 DEF Up, Top
<1>7. \A f \in Activation : f.pc \in Nat \ {0} /\ f.val \in Val
  BY DEF Activation
<1>8. ASSUME NEW d \in 1 .. n - 1
      PROVE  Frm(s, d).pc \in 1 .. Len(Frm(s, d).code.steps) /\ Now(Frm(s, d)).op \in Reads
  <2> DEFINE f == Frm(s, d)
  <2>1. d \in 1 .. n
    BY <1>1
  <2>2. AwaitsRead(f) /\ f \in Activation /\ f.code \in Codes
    BY <1>1, <1>2, <1>3, <1>4, <1>5, <2>1
  <2> HIDE DEF f
  <2>3. f.pc \in Nat \ {0} /\ Len(f.code.steps) \in Nat
    BY <1>7, <2>2, CodesTyped, LenProperties
  <2> QED BY <2>2, <2>3 DEF AwaitsRead, Now, f
<1> QED BY <1>1, <1>2, <1>4, <1>5, <1>6, <1>7, <1>8

\* Advance moves the topmost frame.
LEMMA AdvanceWalk ==
  ASSUME NEW s, Stacked(s), s.frames # <<>>, NEW v \in Val
  PROVE  LET t == Advance(s, v) IN
         /\ Height(t) = Height(s) /\ t.frames # <<>>
         /\ Under(s, t, Height(s) - 1)
         /\ Up(t).code = Up(s).code /\ Up(t).pc = Up(s).pc + 1 /\ Up(t).val = v
         /\ t.st = s.st /\ t.scope = s.scope /\ t.oper = s.oper /\ t.kind = s.kind /\ t.runs = s.runs
<1> DEFINE t == Advance(s, v)
           n == Len(s.frames)
<1>1. /\ t.frames # <<>> /\ Len(t.frames) = n /\ n \in Nat \ {0}
      /\ t.frames[1].code = s.frames[1].code /\ t.frames[1].pc = s.frames[1].pc + 1 /\ t.frames[1].val = v
      /\ \A i \in 2 .. n : t.frames[i] = s.frames[i]
      /\ t.st = s.st /\ t.scope = s.scope /\ t.oper = s.oper /\ t.kind = s.kind
  BY AdvanceShape
<1>2. t.runs = s.runs
  <2>1. s \in Handler
    BY DEF Stacked
  <2> QED BY <2>1 DEF Advance, Handler
<1> HIDE DEF t, n
<1>3. n + 1 - n = 1 /\ \A d \in 1 .. n - 1 : n + 1 - d \in 2 .. n
  BY <1>1
<1>4. Height(s) = n /\ Height(t) = n /\ \A d : Frm(s, d) = s.frames[n + 1 - d] /\ Frm(t, d) = t.frames[n + 1 - d]
  BY <1>1 DEF Height, Frm, n
<1>5. Up(t) = t.frames[1] /\ Up(s) = s.frames[1]
  BY <1>3, <1>4 DEF Up
<1>6. Under(s, t, n - 1)
  BY <1>1, <1>3, <1>4 DEF Under
<1> QED BY <1>1, <1>2, <1>4, <1>5, <1>6 DEF t

LEMMA PopWalk ==
  ASSUME NEW s, Stacked(s), s.frames # <<>>, Height(s) # 1
  PROVE  LET t == [s EXCEPT !.frames = Tail(@)] IN
         /\ Height(t) = Height(s) - 1 /\ Height(t) \in 1 .. Height(s) /\ Under(s, t, Height(t))
         /\ t.st = s.st /\ t.scope = s.scope /\ t.oper = s.oper /\ t.kind = s.kind /\ t.runs = s.runs
<1> DEFINE t == [s EXCEPT !.frames = Tail(@)]
           m == Len(t.frames)
<1>1. /\ m \in Nat \ {0} /\ Len(s.frames) = m + 1
      /\ \A i \in 1 .. m : t.frames[i] = s.frames[i + 1]
  BY PopShape DEF Height
<1>2. t.st = s.st /\ t.scope = s.scope /\ t.oper = s.oper /\ t.kind = s.kind /\ t.runs = s.runs
  BY DEF Stacked, Handler
<1>3. Height(t) = m /\ Height(s) = m + 1
  BY <1>1 DEF Height
<1> HIDE DEF t, m
<1>4. \A d \in 1 .. m : m + 1 - d \in 1 .. m /\ (m + 1 - d) + 1 = (m + 1) + 1 - d
  BY <1>1
<1>5. Under(s, t, m)
  BY <1>1, <1>3, <1>4 DEF Under, Frm
<1>6. m = (m + 1) - 1 /\ m \in 1 .. (m + 1)
  BY <1>1
<1> QED BY <1>2, <1>3, <1>5, <1>6 DEF t

LEMMA PushWalk ==
  ASSUME NEW s, Stacked(s), s.frames # <<>>, NEW p \in DOMAIN Prog
  PROVE  LET t == [s EXCEPT !.frames = <<Frame(p)>> \o @] IN
         /\ Height(t) = Height(s) + 1 /\ Under(s, t, Height(s)) /\ Up(t) = Frame(p)
         /\ t.st = s.st /\ t.scope = s.scope /\ t.oper = s.oper /\ t.kind = s.kind /\ t.runs = s.runs
<1> DEFINE t == [s EXCEPT !.frames = <<Frame(p)>> \o @]
           n == Len(s.frames)
<1>1. /\ n \in Nat \ {0} /\ Len(t.frames) = n + 1
      /\ t.frames[1] = Frame(p)
      /\ \A i \in 2 .. (n + 1) : t.frames[i] = s.frames[i - 1]
  BY PushShape
<1>2. t.st = s.st /\ t.scope = s.scope /\ t.oper = s.oper /\ t.kind = s.kind /\ t.runs = s.runs
  BY DEF Stacked, Handler
<1>3. Height(t) = n + 1 /\ Height(s) = n
  BY <1>1 DEF Height
<1> HIDE DEF t, n
<1>4. /\ \A d \in 1 .. n : (n + 1) + 1 - d \in 2 .. (n + 1) /\ ((n + 1) + 1 - d) - 1 = n + 1 - d
      /\ (n + 1) + 1 - (n + 1) = 1
  BY <1>1
<1>5. Under(s, t, n)
  BY <1>1, <1>3, <1>4 DEF Under, Frm
<1>6. Up(t) = Frame(p)
  BY <1>1, <1>3, <1>4 DEF Up, Frm
<1> QED BY <1>2, <1>3, <1>5, <1>6 DEF t

\* Only the stack and the scope matter.
LEMMA SameWalk ==
  ASSUME NEW s, NEW u, u.frames = s.frames, u.scope = s.scope, NEW t, NEW r, NEW m, NEW v
  PROVE  /\ Height(u) = Height(s) /\ Up(u) = Up(s) /\ \A d : Frm(u, d) = Frm(s, d)
         /\ Past(u, t, m) => Past(s, t, m)
         /\ Takes(r, u, t, m, v) => Takes(r, s, t, m, v)
         /\ Loses(u, t, m) => Loses(s, t, m)
         /\ Sunk(u, t) => Sunk(s, t)
<1>1. Height(u) = Height(s) /\ \A d : Frm(u, d) = Frm(s, d)
  BY DEF Height, Frm
<1>2. Up(u) = Up(s)
  BY <1>1 DEF Up
<1>3. Past(u, t, m) => Past(s, t, m)
  BY <1>1 DEF Past, Under
<1>4. Takes(r, u, t, m, v) => Takes(r, s, t, m, v)
  BY <1>1 DEF Takes
<1>5. Loses(u, t, m) => Loses(s, t, m)
  BY <1>1 DEF Loses
<1>6. Sunk(u, t) => Sunk(s, t)
  BY <1>1 DEF Sunk, Under
<1> QED BY <1>1, <1>2, <1>3, <1>4, <1>5, <1>6

\* The topmost frame stays while the handler raises.
LEMMA RaiseWalk ==
  ASSUME NEW s, Stacked(s), s.frames # <<>>, NEW o
  PROVE  /\ Sunk(s, Raise(s)) /\ Raise(s).kind = s.kind /\ Raise(s).runs = s.runs
         /\ LET b == Raise([s EXCEPT !.oper = o]) IN Sunk(s, b) /\ b.kind = s.kind /\ b.runs = s.runs
<1> DEFINE a == Raise(s)
           b == Raise([s EXCEPT !.oper = o])
<1>1. a.frames = s.frames /\ a.st = "raise" /\ a.scope = s.scope /\ a.kind = s.kind /\ a.runs = s.runs
  BY DEF Stacked, Handler, Raise
<1>2. b.frames = s.frames /\ b.st = "raise" /\ b.scope = s.scope /\ b.kind = s.kind /\ b.runs = s.runs
  BY DEF Stacked, Handler, Raise
<1>3. Height(s) \in Nat \ {0}
  BY FrmTyped
<1> HIDE DEF a, b
<1>4. Height(a) = Height(s) /\ Height(b) = Height(s)
  BY <1>1, <1>2 DEF Height
<1>5. \A d : Frm(a, d) = Frm(s, d) /\ Frm(b, d) = Frm(s, d)
  BY <1>1, <1>2, <1>4 DEF Frm
<1>6. Height(s) \in 1 .. Height(s)
  BY <1>3
<1>7. Sunk(s, a) /\ Sunk(s, b)
  BY <1>1, <1>2, <1>4, <1>5, <1>6 DEF Sunk, Under
<1> QED BY <1>1, <1>2, <1>7 DEF a, b

\* A step of the topmost frame that leaves it with value v.
LEMMA OnWalk ==
  ASSUME NEW s, Stacked(s), s.frames # <<>>, s.st = "run", ~Ended(Top(s)), NEW v \in Val
  PROVE  LET t == Advance(s, v) IN
         /\ Past(s, t, Height(s)) /\ Up(t).val = v /\ Up(t) = Frm(t, Height(s))
         /\ t.scope = s.scope /\ t.kind = s.kind /\ t.runs = s.runs /\ t \in Handler
         /\ Now(Up(s)) = Awaits(s)
<1> DEFINE t == Advance(s, v)
           h == Height(s)
<1>1. /\ Height(t) = h /\ Under(s, t, h - 1)
      /\ Up(t).code = Up(s).code /\ Up(t).pc = Up(s).pc + 1 /\ Up(t).val = v
      /\ t.st = "run" /\ t.scope = s.scope /\ t.kind = s.kind /\ t.runs = s.runs
  BY AdvanceWalk
<1>2. h \in Nat \ {0} /\ Up(s) = Top(s) /\ Up(s).code \in Codes /\ Up(s).pc \in Nat \ {0}
  BY FrmTyped, TopTyped
<1>3. Len(Up(s).code.steps) \in Nat
  BY <1>2, CodesTyped, LenProperties
<1>4. Up(s).pc \in 1 .. Len(Up(s).code.steps)
  BY <1>2, <1>3 DEF Ended
<1>5. t \in Handler
  BY AdvanceSound DEF Stacked
<1> HIDE DEF t, h
<1>6. Up(t) = Frm(t, h) /\ Up(s) = Frm(s, h)
  BY <1>1 DEF Up, h
<1>7. h \in 1 .. h
  BY <1>2
<1>8. Past(s, t, h)
  BY <1>1, <1>4, <1>6, <1>7 DEF Past, h
<1>9. Now(Up(s)) = Awaits(s)
  BY <1>2 DEF Now, Awaits
<1> QED BY <1>1, <1>5, <1>6, <1>8, <1>9 DEF t, h

\* An answer to the topmost frame's read.
LEMMA DeliverWalk ==
  ASSUME NEW s, Stacked(s), s.frames # <<>>, s.st = "run", ~Ended(Top(s)), Awaits(s).op \in Reads,
         NEW r \in Slots, NEW v \in Val
  PROVE  LET t == Deliver(r, s, v) IN
         /\ t.kind = s.kind /\ t.runs = s.runs
         /\ Sunk(s, t) \/ (Past(s, t, Height(s)) /\ Takes(r, s, t, Height(s), v))
<1> DEFINE op == Awaits(s).op
           h == Height(s)
           a == Top(s).val
           o == Onward(s)
<1>0. Up(s) = Frm(s, h) /\ Up(s) = Top(s) /\ a \in Val
  BY FrmTyped, TopTyped DEF Up
<1>1. /\ Past(s, o, h) /\ Frm(o, h).val = a /\ o.scope = s.scope /\ o.kind = s.kind /\ o.runs = s.runs
      /\ o \in Handler /\ Now(Frm(s, h)) = Awaits(s)
  <2>1. /\ Past(s, o, h) /\ Up(o).val = a /\ Up(o) = Frm(o, h)
        /\ o.scope = s.scope /\ o.kind = s.kind /\ o.runs = s.runs /\ o \in Handler /\ Now(Up(s)) = Awaits(s)
    BY <1>0, OnWalk DEF Onward
  <2> QED BY <1>0, <2>1
<1>2. CASE op = "Scope"
  <2> DEFINE t == [o EXCEPT !.scope = Resolved(r, v)]
  <2>1. /\ t.frames = o.frames /\ t.scope = Resolved(r, v) /\ t.kind = o.kind /\ t.runs = o.runs /\ t.st = o.st
    BY <1>1 DEF Handler
  <2>2. Deliver(r, s, v) = t
    BY <1>2 DEF Deliver
  <2> HIDE DEF t, o
  <2>3. Height(t) = Height(o) /\ \A d : Frm(t, d) = Frm(o, d)
    BY <2>1 DEF Height, Frm
  <2>4. Past(s, t, h)
    BY <1>1, <2>1, <2>3 DEF Past, Under
  <2>5. Takes(r, s, t, h, v)
    BY <1>0, <1>1, <1>2, <2>1, <2>3 DEF Takes
  <2> QED BY <1>1, <2>1, <2>2, <2>4, <2>5
<1>3. CASE op = "Must" /\ v.told
  <2>1. Deliver(r, s, v) = Raise(s)
    BY <1>3 DEF Deliver
  <2> QED BY <2>1, RaiseWalk
<1>4. CASE op = "Fire"
  <2>1. Deliver(r, s, v) = o
    BY <1>4 DEF Deliver
  <2> HIDE DEF o
  <2>2. Takes(r, s, o, h, v)
    BY <1>0, <1>1, <1>4 DEF Takes
  <2> QED BY <1>1, <2>1, <2>2
<1>5. CASE op # "Scope" /\ ~(op = "Must" /\ v.told) /\ op # "Fire"
  <2> DEFINE w == Merge(a, v, op)
             t == Advance(s, w)
  <2>1. w \in Val
    BY <1>0, MergeTyped
  <2>2. /\ Past(s, t, h) /\ Up(t).val = w /\ Up(t) = Frm(t, h)
        /\ t.scope = s.scope /\ t.kind = s.kind /\ t.runs = s.runs
    BY <2>1, OnWalk
  <2>3. Deliver(r, s, v) = t
    BY <1>5 DEF Deliver
  <2> HIDE DEF t
  <2>4. Takes(r, s, t, h, v)
    BY <1>0, <1>1, <1>5, <2>2 DEF Takes
  <2> QED BY <2>2, <2>3, <2>4
<1> QED BY <1>2, <1>3, <1>4, <1>5

\* What is seen from a lower part of a stack is seen from the whole.
LEMMA LowerWalk ==
  ASSUME NEW s, NEW o, NEW h \in Nat, NEW m \in 1 .. h, Height(s) = h, Height(o) = m,
         Under(s, o, m), o.scope = s.scope, NEW t, NEW r, NEW v
  PROVE  /\ Sunk(o, t) => Sunk(s, t)
         /\ Past(o, t, m) => Past(s, t, m)
         /\ Takes(r, o, t, m, v) => Takes(r, s, t, m, v)
         /\ Loses(o, t, m) => Loses(s, t, m)
<1>1. Frm(o, m) = Frm(s, m) /\ m \in 1 .. m
  BY DEF Under
<1>2. \A d \in 1 .. m - 1 : d \in 1 .. m
  OBVIOUS
<1>3. Sunk(o, t) => Sunk(s, t)
  <2> SUFFICES ASSUME Sunk(o, t) PROVE Sunk(s, t)
    OBVIOUS
  <2>1. Height(t) \in 1 .. m /\ \A d \in 1 .. Height(t) : Frm(t, d) = Frm(o, d)
    BY DEF Sunk, Under
  <2>2. Height(t) \in 1 .. h /\ \A d \in 1 .. Height(t) : d \in 1 .. m
    BY <2>1
  <2> QED BY <2>1, <2>2 DEF Sunk, Under
<1>4. Past(o, t, m) => Past(s, t, m)
  BY <1>1, <1>2 DEF Past, Under
<1>5. Takes(r, o, t, m, v) => Takes(r, s, t, m, v)
  BY <1>1 DEF Takes
<1>6. Loses(o, t, m) => Loses(s, t, m)
  BY <1>1 DEF Loses
<1> QED BY <1>3, <1>4, <1>5, <1>6

\* The topmost frame answers v: to the caller, or to the frame below.
LEMMA LeaveWalk ==
  ASSUME NEW s, Stacked(s), s.frames # <<>>, s.st = "run", NEW r \in Slots, NEW v \in Val
  PROVE  LET t == Leave(r, s, v) IN
         /\ t.runs = s.runs
         /\ \/ Height(s) = 1 /\ t.st = "idle" /\ t.frames = <<>> /\ t.scope = s.scope /\ t.kind = "ok" /\ t.val = v
            \/ /\ Height(s) # 1 /\ t.kind = s.kind
               /\ Sunk(s, t) \/ (Past(s, t, Height(s) - 1) /\ Takes(r, s, t, Height(s) - 1, v))
<1>1. CASE Height(s) = 1
  <2> DEFINE t == Answer(s, "ok", v)
  <2>1. Leave(r, s, v) = t
    BY <1>1 DEF Leave, Height
  <2>2. t.st = "idle" /\ t.frames = <<>> /\ t.scope = s.scope /\ t.kind = "ok" /\ t.val = v /\ t.runs = s.runs
    BY DEF Answer, Stacked, Handler
  <2> QED BY <1>1, <2>1, <2>2
<1>2. CASE Height(s) # 1
  <2> DEFINE o == [s EXCEPT !.frames = Tail(@)]
             t == Deliver(r, o, v)
             m == Height(s) - 1
  <2>1. Stacked(o) /\ o.frames # <<>> /\ o.st = "run" /\ ~Ended(Top(o)) /\ Awaits(o).op \in Reads
    BY <1>2, PopStacked DEF Height
  <2>2. /\ Height(o) = m /\ Height(o) \in 1 .. Height(s) /\ Under(s, o, m)
        /\ o.scope = s.scope /\ o.kind = s.kind /\ o.runs = s.runs
    BY <1>2, PopWalk
  <2>3. Leave(r, s, v) = t
    BY <1>2 DEF Leave, Height
  <2>0. Height(s) \in Nat
    BY FrmTyped
  <2> HIDE DEF o, m
  <2>4. /\ t.kind = o.kind /\ t.runs = o.runs
        /\ Sunk(o, t) \/ (Past(o, t, m) /\ Takes(r, o, t, m, v))
    BY <2>1, <2>2, DeliverWalk
  <2> HIDE DEF t
  <2>5. Sunk(o, t) => Sunk(s, t)
    BY <2>0, <2>2, LowerWalk
  <2>6. Past(o, t, m) /\ Takes(r, o, t, m, v) => Past(s, t, m) /\ Takes(r, s, t, m, v)
    BY <2>0, <2>2, LowerWalk
  <2> QED BY <1>2, <2>2, <2>3, <2>4, <2>5, <2>6 DEF m
<1> QED BY <1>1, <1>2

\* The topmost frame's read threw.
LEMMA ThrownWalk ==
  ASSUME NEW s, Stacked(s), s.frames # <<>>, ~Ended(Top(s)), Awaits(s).op \in Reads
  PROVE  LET t == Thrown(s) IN
         /\ t.kind = s.kind /\ t.runs = s.runs
         /\ Sunk(s, t) \/ (Past(s, t, Height(s)) /\ Loses(s, t, Height(s)))
<1> DEFINE op == Awaits(s).op
           h == Height(s)
           a == Top(s).val
           u == [s EXCEPT !.st = "run"]
<1>0. a \in Val /\ s \in Handler
  BY TopTyped
<1>1. CASE op \in Surviving
  <2> DEFINE w == [a EXCEPT !.lost = TRUE, !.told = @ \/ op = "Try" \/ (op = "Spare" /\ a.lost)]
             t == Advance(u, w)
  <2>1. w \in Val /\ w.lost /\ w.shows = a.shows /\ w.old = a.old
    BY <1>0 DEF Val
  <2>2. Stacked(u) /\ u.frames = s.frames /\ u.st = "run" /\ u.scope = s.scope /\ u.kind = s.kind /\ u.runs = s.runs
    BY <1>0 DEF Stacked, Handler
  <2>3. Top(u) = Top(s) /\ Awaits(u) = Awaits(s)
    BY <2>2 DEF Top, Awaits
  <2>4. Thrown(s) = t
    BY <1>1, <2>3 DEF Thrown, Survive
  <2> HIDE DEF w, u
  <2>5. /\ Past(u, t, Height(u)) /\ Up(t).val = w /\ Up(t) = Frm(t, Height(u))
        /\ t.scope = u.scope /\ t.kind = u.kind /\ t.runs = u.runs /\ Now(Up(u)) = Awaits(u)
    BY <2>1, <2>2, <2>3, OnWalk
  <2> HIDE DEF t
  <2>6. Height(u) = h /\ Up(u) = Up(s) /\ \A d : Frm(u, d) = Frm(s, d)
    BY <2>2, SameWalk
  <2>7. Up(s) = Frm(s, h) /\ Up(s) = Top(s)
    BY FrmTyped DEF Up
  <2>8. Past(s, t, h)
    BY <2>2, <2>5, <2>6, SameWalk
  <2>9. Loses(s, t, h)
    BY <1>1, <2>1, <2>2, <2>3, <2>5, <2>6, <2>7 DEF Loses
  <2> QED BY <2>2, <2>4, <2>5, <2>8, <2>9
<1>2. CASE op \notin Surviving
  <2> DEFINE o == IF op \in Recorded THEN "failed" ELSE s.oper
  <2>1. Thrown(s) = Raise([s EXCEPT !.oper = o])
    BY <1>2 DEF Thrown, GiveUp
  <2> HIDE DEF o
  <2>2. LET b == Raise([s EXCEPT !.oper = o]) IN Sunk(s, b) /\ b.kind = s.kind /\ b.runs = s.runs
    BY RaiseWalk
  <2> QED BY <2>1, <2>2
<1> QED BY <1>1, <1>2

-----------------------------------------------------------------------------
(* Every step of a handler is a walk.                                      *)

\* What a step starts from.
LEMMA AtWalk ==
  ASSUME IInv, NEW r \in Slots, NEW ops, At(r, ops)
  PROVE  /\ Stacked(slot[r]) /\ slot[r].frames # <<>> /\ slot[r].st = "run" /\ ~Ended(Top(slot[r]))
         /\ Top(slot[r]).val \in Val /\ scenario \in Scenarios
         /\ Current(r) = Awaits(slot[r]) /\ Awaits(slot[r]).op \in ops
         /\ Now(Up(slot[r])) = Awaits(slot[r]) /\ Up(slot[r]) = Top(slot[r])
         /\ Up(slot[r]) = Frm(slot[r], Height(slot[r]))
         /\ Up(slot[r]).pc \in 1 .. Len(Up(slot[r]).code.steps)
<1>1. /\ Stacked(slot[r]) /\ slot[r].frames # <<>> /\ slot[r].st = "run" /\ ~Ended(Top(slot[r]))
      /\ Top(slot[r]).val \in Val /\ scenario \in Scenarios /\ Awaits(slot[r]).op \in ops
      /\ Top(slot[r]).pc \in 1 .. Len(Top(slot[r]).code.steps)
  BY AtStep
<1>2. Up(slot[r]) = Top(slot[r])
  BY <1>1, FrmTyped
<1> QED BY <1>1, <1>2 DEF Current, Awaits, Now, Up

\* What has become of slot r.
LEMMA BecomeWalk ==
  ASSUME IInv, NEW r \in Slots, NEW t, Become(r, t)
  PROVE  slot'[r] = t /\ \A q \in Slots : q # r => slot'[q] = slot[q]
  BY DEF IInv, Become

LEMMA OnwardWalk ==
  ASSUME IInv, NEW r \in Slots, NEW ops, At(r, ops), ops \cap (Reads \cup {"Filter", "Hush"}) = {},
         Awaits(slot[r]).op = "Gate" => Area(r) \in slot[r].scope
  PROVE  LET t == Onward(slot[r]) IN
         /\ Walk(r, slot[r], t)
         /\ \A o : Walk(r, slot[r], [t EXCEPT !.oper = o])
<1> DEFINE s == slot[r]
           t == Onward(s)
           h == Height(s)
<1>1. /\ Stacked(s) /\ s.frames # <<>> /\ s.st = "run" /\ ~Ended(Top(s)) /\ Top(s).val \in Val
      /\ Now(Up(s)) = Awaits(s) /\ Up(s) = Top(s) /\ Awaits(s).op \in ops
  BY AtWalk
<1>2. /\ Past(s, t, h) /\ Up(t).val = Top(s).val
      /\ t.scope = s.scope /\ t.kind = s.kind /\ t.runs = s.runs /\ t \in Handler
  BY <1>1, OnWalk DEF Onward
<1> HIDE DEF s, t, h
<1>3. \A u : Past(s, u, h) /\ Up(u).val = Up(s).val /\ u.scope = s.scope /\ u.kind = s.kind /\ u.runs = s.runs => Walk(r, s, u)
  BY <1>1 DEF Walk, Stepped, h, s
<1>4. Walk(r, s, t)
  BY <1>1, <1>2, <1>3
<1>5. ASSUME NEW o PROVE Walk(r, s, [t EXCEPT !.oper = o])
  <2> DEFINE u == [t EXCEPT !.oper = o]
  <2>1. u.frames = t.frames /\ u.scope = t.scope /\ u.kind = t.kind /\ u.runs = t.runs /\ u.st = t.st
    BY <1>2 DEF Handler
  <2> HIDE DEF u
  <2>2. Height(u) = Height(t) /\ \A d : Frm(u, d) = Frm(t, d)
    BY <2>1 DEF Height, Frm
  <2>3. Up(u) = Up(t) /\ Past(s, u, h)
    BY <1>2, <2>1, <2>2 DEF Up, Past, Under
  <2> QED BY <1>1, <1>2, <1>3, <2>1, <2>3 DEF u
<1> QED BY <1>4, <1>5 DEF s, t

LEMMA AnswerWalk ==
  ASSUME NEW r \in Slots, NEW s, Stacked(s), NEW v, NEW k \in {"dup", "denied", "error"},
         k = "dup" => scenario.req[r].keyed /\ claim.st = "done"
  PROVE  Walk(r, s, Answer(s, k, v))
<1> DEFINE t == Answer(s, k, v)
<1>1. t.st = "idle" /\ t.frames = <<>> /\ t.scope = s.scope /\ t.kind = k /\ t.runs = s.runs
  BY DEF Answer, Stacked, Handler
<1> HIDE DEF t
<1>2. Walk(r, s, t)
  BY <1>1 DEF Walk, Gone
<1> QED BY <1>2 DEF t

\* The topmost frame answers v.
LEMMA ReturnsWalk ==
  ASSUME NEW r \in Slots, NEW s, Stacked(s), s.frames # <<>>, NEW v \in Val, Returns(r, s, v),
         NEW u, Stacked(u), u.frames = s.frames, u.scope = s.scope, u.kind = s.kind, u.runs = s.runs, u.st = "run"
  PROVE  Walk(r, s, Leave(r, u, v))
<1> DEFINE t == Leave(r, u, v)
           h == Height(u)
<1>1. /\ t.runs = u.runs
      /\ \/ h = 1 /\ t.st = "idle" /\ t.frames = <<>> /\ t.scope = u.scope /\ t.kind = "ok" /\ t.val = v
         \/ /\ h # 1 /\ t.kind = u.kind
            /\ Sunk(u, t) \/ (Past(u, t, h - 1) /\ Takes(r, u, t, h - 1, v))
  BY LeaveWalk
<1>2. h = Height(s)
  BY SameWalk
<1> HIDE DEF t, h
<1>3. CASE h = 1 /\ t.st = "idle" /\ t.frames = <<>> /\ t.scope = u.scope /\ t.kind = "ok" /\ t.val = v
  BY <1>1, <1>2, <1>3 DEF Walk, Gone, t
<1>4. CASE t.kind = u.kind /\ Sunk(u, t)
  <2>1. Sunk(s, t)
    BY <1>4, SameWalk
  <2> QED BY <1>1, <1>4, <2>1 DEF Walk, t
<1>5. CASE t.kind = u.kind /\ Past(u, t, h - 1) /\ Takes(r, u, t, h - 1, v)
  <2>1. Past(s, t, h - 1) /\ Takes(r, s, t, h - 1, v)
    BY <1>5, SameWalk
  <2>2. Resumed(r, s, t)
    BY <1>2, <2>1 DEF Resumed
  <2> QED BY <1>1, <1>5, <2>2 DEF Walk, t
<1> QED BY <1>1, <1>3, <1>4, <1>5

LEMMA AdmitWalk ==
  ASSUME IInv, NEW r \in Slots,
         Admit(r) \/ requireRole(r) \/ namespaceVisible(r) \/ claimIdempotencyKey(r) \/ fulfillIdempotencyKey(r)
         \/ cacheSet(r) \/ cacheDel(r) \/ deletePattern(r) \/ Lifecycle(r)
  PROVE  Walk(r, slot[r], slot'[r])
<1> DEFINE ops == {"Session", "Check", "Found", "Role", "Gate", "Claim", "Fulfill", "Put", "PutWhole", "PutIfSome",
                   "Del", "Purge", "Open", "Done"}
           s == slot[r]
<1>1. At(r, ops) /\ (namespaceVisible(r) <=> Awaits(s).op = "Gate")
  BY DEF Admit, requireRole, namespaceVisible, claimIdempotencyKey, fulfillIdempotencyKey, cacheSet, cacheDel,
         deletePattern, Lifecycle, At, Current
<1>2. ops \cap (Reads \cup {"Filter", "Hush"}) = {}
  BY DEF Reads, Propagating, Recorded, Surviving
<1> HIDE DEF ops
<1>3. Stacked(s)
  BY <1>1, AtWalk
<1>4. CASE Become(r, Deny(s))
  <2>1. Walk(r, s, Deny(s))
    BY <1>3, AnswerWalk DEF Deny
  <2> QED BY <1>4, <2>1, BecomeWalk
<1>5. CASE claimIdempotencyKey(r) /\ Become(r, Answer(s, "dup", Blank)) /\ scenario.req[r].keyed /\ claim.st = "done"
  <2>1. Walk(r, s, Answer(s, "dup", Blank))
    BY <1>3, <1>5, AnswerWalk
  <2> QED BY <1>5, <2>1, BecomeWalk
<1>6. CASE Awaits(s).op = "Gate" => Area(r) \in s.scope
  <2>1. Walk(r, s, Onward(s)) /\ \A o : Walk(r, s, [Onward(s) EXCEPT !.oper = o])
    BY <1>1, <1>2, <1>6, OnwardWalk
  <2>2. CASE Become(r, Onward(s))
    BY <2>1, <2>2, BecomeWalk
  <2>3. CASE \E o : Become(r, [Onward(s) EXCEPT !.oper = o])
    BY <2>1, <2>3, BecomeWalk
  <2>4. CASE Lifecycle(r)
    BY <2>3, <2>4 DEF Lifecycle
  <2>5. CASE ~Lifecycle(r)
    <3>1. Become(r, Onward(s)) \/ Become(r, Deny(s)) \/
          (claimIdempotencyKey(r) /\ Become(r, Answer(s, "dup", Blank)) /\ scenario.req[r].keyed /\ claim.st = "done")
      BY <2>5 DEF Admit, requireRole, namespaceVisible, claimIdempotencyKey, fulfillIdempotencyKey, cacheSet,
                  cacheDel, deletePattern
    <3> QED BY <1>4, <1>5, <2>2, <3>1
  <2> QED BY <2>4, <2>5
<1>7. CASE Awaits(s).op = "Gate" /\ Area(r) \notin s.scope
  BY <1>1, <1>4, <1>7 DEF namespaceVisible
<1> QED BY <1>6, <1>7

LEMMA ScopeOfNobodyWalk ==
  ASSUME IInv, NEW r \in Slots, ScopeOfNobody(r)
  PROVE  Walk(r, slot[r], slot'[r])
<1> DEFINE s == slot[r]
           o == Onward(s)
           t == [o EXCEPT !.scope = {}]
           h == Height(s)
<1>1. At(r, {"Scope"}) /\ Become(r, t)
  BY DEF ScopeOfNobody
<1>2. /\ Stacked(s) /\ s.frames # <<>> /\ s.st = "run" /\ ~Ended(Top(s)) /\ Top(s).val \in Val
      /\ Now(Up(s)) = Awaits(s) /\ Up(s) = Top(s) /\ Awaits(s).op = "Scope"
  BY <1>1, AtWalk
<1>3. /\ Past(s, o, h) /\ Up(o).val = Top(s).val
      /\ o.scope = s.scope /\ o.kind = s.kind /\ o.runs = s.runs /\ o \in Handler
  BY <1>2, OnWalk DEF Onward
<1>4. t.frames = o.frames /\ t.scope = {} /\ t.kind = o.kind /\ t.runs = o.runs /\ t.st = o.st
  BY <1>3 DEF Handler
<1> HIDE DEF s, t, o, h
<1>5. Height(t) = Height(o) /\ \A d : Frm(t, d) = Frm(o, d)
  BY <1>4 DEF Height, Frm
<1>6. Up(t) = Up(o) /\ Past(s, t, h)
  BY <1>3, <1>4, <1>5 DEF Up, Past, Under
<1>7. Walk(r, s, t)
  BY <1>2, <1>3, <1>4, <1>6 DEF Walk, Stepped, h
<1> QED BY <1>1, <1>7, BecomeWalk DEF s

LEMMA ProjectWalk ==
  ASSUME IInv, NEW r \in Slots, Project(r)
  PROVE  Walk(r, slot[r], slot'[r])
<1> DEFINE s == slot[r]
           v == Top(s).val
           w == IF Current(r).op = "Filter" THEN [v EXCEPT !.shows = @ \cap slot[r].scope]
                ELSE [v EXCEPT !.told = @ /\ Caller(r) \in Everything]
           t == Advance(s, w)
           h == Height(s)
<1>1. At(r, {"Filter", "Hush"}) /\ Become(r, t)
  BY DEF Project
<1>2. /\ Stacked(s) /\ s.frames # <<>> /\ s.st = "run" /\ ~Ended(Top(s)) /\ v \in Val
      /\ Now(Up(s)) = Awaits(s) /\ Up(s) = Top(s) /\ Awaits(s).op \in {"Filter", "Hush"} /\ Current(r) = Awaits(s)
  BY <1>1, AtWalk
<1>3. /\ w \in Val /\ w.lost = v.lost /\ w.old = v.old
      /\ w.shows = IF Awaits(s).op = "Filter" THEN v.shows \cap s.scope ELSE v.shows
  BY <1>2 DEF Val
<1> HIDE DEF w
<1>4. /\ Past(s, t, h) /\ Up(t).val = w
      /\ t.scope = s.scope /\ t.kind = s.kind /\ t.runs = s.runs
  BY <1>2, <1>3, OnWalk
<1> HIDE DEF s, t, h
<1>5. Stepped(r, s, t)
  BY <1>2, <1>3, <1>4 DEF Stepped, h
<1>6. Walk(r, s, t)
  BY <1>4, <1>5 DEF Walk
<1> QED BY <1>1, <1>6, BecomeWalk DEF s

LEMMA cacheGetWalk ==
  ASSUME IInv, NEW r \in Slots, cacheGet(r)
  PROVE  Walk(r, slot[r], slot'[r])
<1> DEFINE s == slot[r]
           k == Current(r).arg
<1>1. At(r, {"Hit"})
  BY DEF cacheGet
<1>2. /\ Stacked(s) /\ s.frames # <<>> /\ s.st = "run" /\ Awaits(s).op = "Hit" /\ Current(r) = Awaits(s)
      /\ Now(Up(s)) = Awaits(s) /\ Up(s).pc \in 1 .. Len(Up(s).code.steps)
  BY <1>1, AtWalk
<1>3. \/ Become(r, Onward(s))
      \/ \E e \in cache : e.key = k /\ e.dim = KeyOf(r, k) /\ Become(r, Leave(r, s, e.val))
  BY DEF cacheGet, Entries
<1>4. CASE Become(r, Onward(s))
  <2>1. {"Hit"} \cap (Reads \cup {"Filter", "Hush"}) = {}
    BY DEF Reads, Propagating, Recorded, Surviving
  <2>2. Walk(r, s, Onward(s))
    BY <1>1, <1>2, <2>1, OnwardWalk
  <2> QED BY <1>4, <2>2, BecomeWalk
<1>5. ASSUME NEW e \in cache, e.key = k, e.dim = KeyOf(r, k), Become(r, Leave(r, s, e.val))
      PROVE  Walk(r, slot[r], slot'[r])
  <2>1. e.val \in Val
    BY DEF IInv, Globals, Entry
  <2>2. Returns(r, s, e.val)
    BY <1>2, <1>5 DEF Returns
  <2>3. Walk(r, s, Leave(r, s, e.val))
    BY <1>2, <2>1, <2>2, ReturnsWalk
  <2> QED BY <1>5, <2>3, BecomeWalk
<1> QED BY <1>3, <1>4, <1>5

LEMMA AnswerNothingWalk ==
  ASSUME IInv, NEW r \in Slots, AnswerNothing(r)
  PROVE  Walk(r, slot[r], slot'[r])
<1> DEFINE s == slot[r]
<1>1. At(r, {"Nothing"})
  BY DEF AnswerNothing
<1>2. /\ Stacked(s) /\ s.frames # <<>> /\ s.st = "run" /\ Awaits(s).op = "Nothing"
      /\ Now(Up(s)) = Awaits(s) /\ Up(s).pc \in 1 .. Len(Up(s).code.steps)
  BY <1>1, AtWalk
<1>3. CASE Become(r, Onward(s))
  <2>1. {"Nothing"} \cap (Reads \cup {"Filter", "Hush"}) = {}
    BY DEF Reads, Propagating, Recorded, Surviving
  <2>2. Walk(r, s, Onward(s))
    BY <1>1, <1>2, <2>1, OnwardWalk
  <2> QED BY <1>3, <2>2, BecomeWalk
<1>4. CASE s.scope = {} /\ Become(r, Leave(r, s, Blank))
  <2>1. Blank \in Val
    BY BlankTyped
  <2>2. Returns(r, s, Blank)
    BY <1>2, <1>4 DEF Returns
  <2>3. Walk(r, s, Leave(r, s, Blank))
    BY <1>2, <2>1, <2>2, ReturnsWalk
  <2> QED BY <1>4, <2>3, BecomeWalk
<1> QED BY <1>3, <1>4 DEF AnswerNothing

LEMMA CallWalk ==
  ASSUME IInv, NEW r \in Slots, Call(r)
  PROVE  Walk(r, slot[r], slot'[r])
<1> DEFINE s == slot[r]
           p == Current(r).arg
           t == [s EXCEPT !.frames = <<Frame(p)>> \o @]
<1>1. At(r, Reads) /\ p \in DOMAIN Prog /\ Become(r, t)
  BY DEF Call
<1>2. /\ Stacked(s) /\ s.frames # <<>> /\ s.st = "run" /\ Awaits(s).op \in Reads /\ Current(r) = Awaits(s)
      /\ Now(Up(s)) = Awaits(s) /\ Up(s).pc \in 1 .. Len(Up(s).code.steps)
  BY <1>1, AtWalk
<1>3. /\ Height(t) = Height(s) + 1 /\ Under(s, t, Height(s)) /\ Up(t) = Frame(p)
      /\ t.st = s.st /\ t.scope = s.scope /\ t.kind = s.kind /\ t.runs = s.runs
  BY <1>1, <1>2, PushWalk
<1> HIDE DEF t
<1>4. Deeper(s, t)
  BY <1>1, <1>2, <1>3 DEF Deeper, Calls
<1>5. Walk(r, s, t)
  BY <1>3, <1>4 DEF Walk
<1> QED BY <1>1, <1>5, BecomeWalk

LEMMA ReturnWalk ==
  ASSUME IInv, NEW r \in Slots, Return(r)
  PROVE  Walk(r, slot[r], slot'[r])
<1> DEFINE s == slot[r]
<1>1. Stacked(s) /\ s.st = "run" /\ Ended(Top(s)) /\ s.frames # <<>> /\ Become(r, Leave(r, s, Top(s).val))
  BY DEF IInv, Return, Stacked
<1>2. Top(s).val \in Val /\ Up(s) = Top(s)
  BY <1>1, TopTyped, FrmTyped
<1>3. Returns(r, s, Top(s).val)
  BY <1>1, <1>2 DEF Returns
<1>4. Walk(r, s, Leave(r, s, Top(s).val))
  BY <1>1, <1>2, <1>3, ReturnsWalk
<1> QED BY <1>1, <1>4, BecomeWalk

LEMMA FetchWalk ==
  ASSUME IInv, NEW r \in Slots, Fetch(r)
  PROVE  Walk(r, slot[r], slot'[r])
<1> DEFINE s == slot[r]
           h == Height(s)
<1>1. At(r, Reads) /\ Current(r).arg \notin DOMAIN Prog
  BY DEF Fetch
<1>2. /\ Stacked(s) /\ s.frames # <<>> /\ s.st = "run" /\ Awaits(s).op \in Reads /\ Current(r) = Awaits(s)
      /\ ~Ended(Top(s)) /\ Now(Up(s)) = Awaits(s)
  BY <1>1, AtWalk
<1>3. PICK v \in Upstream(r, Current(r).arg) : Become(r, Deliver(r, s, v))
  BY DEF Fetch
<1>4. v \in Val
  BY UpstreamTyped
<1> DEFINE t == Deliver(r, s, v)
<1>5. /\ t.kind = s.kind /\ t.runs = s.runs
      /\ Sunk(s, t) \/ (Past(s, t, h) /\ Takes(r, s, t, h, v))
  BY <1>2, <1>4, DeliverWalk
<1> HIDE DEF t
<1>6. Past(s, t, h) /\ Takes(r, s, t, h, v) => Stepped(r, s, t)
  BY <1>1, <1>2 DEF Stepped
<1>7. Walk(r, s, t)
  BY <1>5, <1>6 DEF Walk
<1> QED BY <1>3, <1>7, BecomeWalk DEF t

LEMMA FailWalk ==
  ASSUME IInv, NEW r \in Slots, FetchFails(r) \/ VerdictFails(r)
  PROVE  Walk(r, slot[r], slot'[r])
<1> DEFINE s == slot[r]
           h == Height(s)
<1>1. At(r, Reads)
  BY DEF FetchFails, VerdictFails, At, Reads, Propagating, Recorded
<1>2. /\ Stacked(s) /\ s.frames # <<>> /\ s.st = "run" /\ Awaits(s).op \in Reads /\ Current(r) = Awaits(s)
      /\ ~Ended(Top(s)) /\ Now(Up(s)) = Awaits(s)
  BY <1>1, AtWalk
<1>3. CASE FetchFails(r)
  <2> DEFINE t == Thrown(s)
  <2>1. /\ t.kind = s.kind /\ t.runs = s.runs
        /\ Sunk(s, t) \/ (Past(s, t, h) /\ Loses(s, t, h))
    BY <1>2, ThrownWalk
  <2>2. Become(r, t) /\ Current(r).arg \notin DOMAIN Prog
    BY <1>3 DEF FetchFails
  <2> HIDE DEF t
  <2>3. Past(s, t, h) /\ Loses(s, t, h) => Stepped(r, s, t)
    BY <1>2, <2>2 DEF Stepped
  <2>4. Walk(r, s, t)
    BY <2>1, <2>3 DEF Walk
  <2> QED BY <2>2, <2>4, BecomeWalk
<1>4. CASE VerdictFails(r)
  <2> DEFINE t == Raise([s EXCEPT !.oper = "failed"])
  <2>1. Sunk(s, t) /\ t.kind = s.kind /\ t.runs = s.runs
    BY <1>2, RaiseWalk
  <2>2. Become(r, t)
    BY <1>4 DEF VerdictFails
  <2> HIDE DEF t
  <2>3. Walk(r, s, t)
    BY <2>1 DEF Walk
  <2> QED BY <2>2, <2>3, BecomeWalk
<1> QED BY <1>3, <1>4

LEMMA ChangeWalk ==
  ASSUME IInv, NEW r \in Slots, Change(r)
  PROVE  Walk(r, slot[r], slot'[r])
<1> DEFINE s == slot[r]
<1>1. At(r, {"Write"})
  BY DEF Change
<1>2. Stacked(s) /\ s.frames # <<>> /\ Awaits(s).op = "Write"
  BY <1>1, AtWalk
<1>3. CASE Become(r, Onward(s))
  <2>1. {"Write"} \cap (Reads \cup {"Filter", "Hush"}) = {}
    BY DEF Reads, Propagating, Recorded, Surviving
  <2>2. Walk(r, s, Onward(s))
    BY <1>1, <1>2, <2>1, OnwardWalk
  <2> QED BY <1>3, <2>2, BecomeWalk
<1>4. CASE Become(r, Raise(s))
  <2>1. Sunk(s, Raise(s)) /\ Raise(s).kind = s.kind /\ Raise(s).runs = s.runs
    BY <1>2, RaiseWalk
  <2>2. Walk(r, s, Raise(s))
    BY <2>1 DEF Walk
  <2> QED BY <1>4, <2>2, BecomeWalk
<1> QED BY <1>3, <1>4 DEF Change

LEMMA CatchWalk ==
  ASSUME IInv, NEW r \in Slots, Catch(r)
  PROVE  Walk(r, slot[r], slot'[r])
<1> DEFINE s == slot[r]
           fail == Top(s).code.fail
           outer == [s EXCEPT !.frames = Tail(@)]
           u == [s EXCEPT !.st = "run"]
           b == [Blank EXCEPT !.lost = TRUE, !.told = (fail = "told")]
           z == CASE fail \in {"empty", "told"} -> Leave(r, u, b)
                  [] fail = "throw" /\ Len(s.frames) > 1 -> Thrown(outer)
                  [] OTHER -> Answer(s, "error", Blank)
<1>1. Stacked(s) /\ s.st = "raise" /\ s.frames # <<>> /\ s \in Handler
  BY DEF IInv, Catch, Stacked
<1>2. Become(r, z)
  BY DEF Catch
<1>3. ASSUME fail \in {"empty", "told"} PROVE Walk(r, s, Leave(r, u, b))
  <2>1. b \in Val /\ b.lost /\ b.shows = {} /\ ~b.old
    BY DEF Blank, Val
  <2>2. Stacked(u) /\ u.frames = s.frames /\ u.st = "run" /\ u.scope = s.scope /\ u.kind = s.kind /\ u.runs = s.runs
    BY <1>1 DEF Stacked, Handler
  <2>3. Up(s) = Top(s)
    BY <1>1, FrmTyped
  <2> HIDE DEF u, b
  <2>4. Returns(r, s, b)
    BY <1>1, <1>3, <2>1, <2>3 DEF Returns
  <2> QED BY <1>1, <2>1, <2>2, <2>4, ReturnsWalk
<1>4. Walk(r, s, Answer(s, "error", Blank))
  BY <1>1, AnswerWalk
<1>5. ASSUME Len(s.frames) > 1 PROVE Walk(r, s, Thrown(outer))
  <2> DEFINE h == Height(s)
             m == h - 1
             t == Thrown(outer)
  <2>0. h \in Nat /\ h > 1
    <3>1. h \in Nat
      BY <1>1, FrmTyped
    <3> QED BY <1>5, <3>1 DEF Height
  <2>1. h \in Nat /\ h # 1 /\ m \in 1 .. h
    <3> HIDE DEF h
    <3> QED BY <2>0
  <2>2. Stacked(outer) /\ outer.frames # <<>> /\ ~Ended(Top(outer)) /\ Awaits(outer).op \in Reads
    BY <1>1, <2>1, PopStacked DEF Height
  <2>3. /\ Height(outer) = m /\ Under(s, outer, m)
        /\ outer.scope = s.scope /\ outer.kind = s.kind /\ outer.runs = s.runs
    BY <1>1, <2>1, PopWalk
  <2> HIDE DEF outer, h, m
  <2>4. /\ t.kind = outer.kind /\ t.runs = outer.runs
        /\ Sunk(outer, t) \/ (Past(outer, t, m) /\ Loses(outer, t, m))
    BY <2>2, <2>3, ThrownWalk
  <2> HIDE DEF t
  <2>5. /\ Sunk(outer, t) => Sunk(s, t)
        /\ Past(outer, t, m) => Past(s, t, m)
        /\ Loses(outer, t, m) => Loses(s, t, m)
    BY <2>1, <2>3, LowerWalk DEF h
  <2>6. Past(s, t, m) /\ Loses(s, t, m) => Resumed(r, s, t)
    BY <1>1 DEF Resumed, m, h
  <2>7. Walk(r, s, t)
    BY <2>3, <2>4, <2>5, <2>6 DEF Walk
  <2> QED BY <2>7 DEF t
<1> HIDE DEF u, b, outer
<1>6. Walk(r, s, z)
  BY <1>3, <1>4, <1>5
<1> HIDE DEF z
<1> QED BY <1>2, <1>6, BecomeWalk

LEMMA WalkNext ==
  ASSUME IInv, NEW r \in Slots, Step(r), ~Begin(r)
  PROVE  Walk(r, slot[r], slot'[r])
  BY AdmitWalk, ScopeOfNobodyWalk, ProjectWalk, cacheGetWalk, AnswerNothingWalk, CallWalk, ReturnWalk,
     FetchWalk, FailWalk, CatchWalk, ChangeWalk DEF Step

\* A step leaves the other handlers alone.
LEMMA OthersStay ==
  ASSUME IInv, NEW r \in Slots, Step(r)
  PROVE  scenario' = scenario /\ \A q \in Slots : q # r => slot'[q] = slot[q]
<1>1. \E t : Become(r, t)
  BY DEF Step, Begin, Admit, requireRole, ScopeOfNobody, namespaceVisible, Project, cacheGet, cacheSet,
         AnswerNothing, cacheDel, deletePattern, Call, Return, Fetch, FetchFails, VerdictFails, Catch, Change,
         claimIdempotencyKey, fulfillIdempotencyKey, Lifecycle
<1>2. scenario' = scenario
  BY DEF Step, Begin, Admit, requireRole, ScopeOfNobody, namespaceVisible, Project, cacheGet, cacheSet,
         AnswerNothing, cacheDel, deletePattern, Call, Return, Fetch, FetchFails, VerdictFails, Catch, Change,
         claimIdempotencyKey, fulfillIdempotencyKey, Lifecycle
<1> QED BY <1>1, <1>2, BecomeWalk

-----------------------------------------------------------------------------
(* Frames before and after a step.                                         *)

\* A frame that waits for a program has that program above it.
LEMMA LinkedFrames ==
  ASSUME FlowInv, NEW r \in Slots, slot[r].frames # <<>>
  PROVE  /\ Frm(slot[r], 1).code = Prog[Program(r)] /\ Program(r) \in DOMAIN Prog
         /\ \A d \in 1 .. Height(slot[r]) - 1 :
              Calls(Now(Frm(slot[r], d))) /\ Frm(slot[r], d + 1).code = Prog[Now(Frm(slot[r], d)).arg]
<1> DEFINE s == slot[r]
           n == Len(s.frames)
<1>1. Stacked(s) /\ Flowing(Program(r), s)
  BY DEF FlowInv, IInv, FlowPart
<1>2. n \in Nat \ {0}
  BY <1>1, FrmTyped DEF Height
<1>3. /\ \A i \in 2 .. n : Linked(s.frames[i - 1], s.frames[i])
      /\ s.frames[n].code = Prog[Program(r)]
  BY <1>1 DEF Flowing
<1>4. \A d \in 1 .. Height(s) - 1 : Now(Frm(s, d)).op \in Reads
  BY <1>1, FrmTyped
<1>5. Height(s) = n /\ \A d : Frm(s, d) = s.frames[n + 1 - d]
  BY DEF Height, Frm
<1> HIDE DEF n, s
<1>6. n + 1 - 1 = n /\ \A d \in 1 .. n - 1 : n + 1 - d \in 2 .. n /\ (n + 1 - d) - 1 = n + 1 - (d + 1)
  BY <1>2
<1>7. Frm(s, 1).code = Prog[Program(r)]
  BY <1>3, <1>5, <1>6
<1>8. ASSUME NEW d \in 1 .. n - 1
      PROVE  Calls(Now(Frm(s, d))) /\ Frm(s, d + 1).code = Prog[Now(Frm(s, d)).arg]
  <2>1. Linked(s.frames[n + 1 - (d + 1)], s.frames[n + 1 - d])
    BY <1>3, <1>6
  <2>2. Linked(Frm(s, d + 1), Frm(s, d))
    BY <1>5, <2>1
  <2> QED BY <1>4, <1>5, <2>2 DEF Linked, Calls, Now
<1>9. Program(r) \in DOMAIN Prog
  BY RequestTyped DEF FlowInv, IInv, Globals, Program
<1> QED BY <1>5, <1>7, <1>8, <1>9 DEF s

\* Each frame stays, has passed its step, or is new.
LEMMA WalkFrames ==
  ASSUME NEW r, NEW s, Stacked(s), s.frames # <<>>, NEW t, Walk(r, s, t), t.st # "idle"
  PROVE  /\ Height(s) \in Nat \ {0} /\ Height(t) \in Nat \ {0}
         /\ \A d \in 1 .. Height(t) :
              \/ Frm(t, d) = Frm(s, d) /\ d \in 1 .. Height(s) /\ (d < Height(t) \/ t.st = "raise")
              \/ d = Height(t) /\ Past(s, t, d)
              \/ d = Height(t) /\ Deeper(s, t)
<1> DEFINE h == Height(s)
           n == Height(t)
<1>1. h \in Nat \ {0}
  BY FrmTyped
<1>2. CASE Sunk(s, t)
  <2>1. n \in 1 .. h /\ t.st = "raise" /\ \A d \in 1 .. n : Frm(t, d) = Frm(s, d)
    BY <1>2 DEF Sunk, Under
  <2> HIDE DEF h, n
  <2>2. n \in Nat \ {0} /\ \A d \in 1 .. n : d \in 1 .. h
    BY <1>1, <2>1
  <2> QED BY <1>1, <2>1, <2>2 DEF h, n
<1>3. CASE Deeper(s, t)
  <2>1. n = h + 1 /\ \A d \in 1 .. h : Frm(t, d) = Frm(s, d)
    BY <1>3 DEF Deeper, Under
  <2> HIDE DEF h, n
  <2>2. n \in Nat \ {0} /\ \A d \in 1 .. n : (d \in 1 .. h /\ d < n) \/ d = n
    BY <1>1, <2>1
  <2> QED BY <1>1, <1>3, <2>1, <2>2 DEF h, n
<1>4. ASSUME NEW m, Past(s, t, m)
      PROVE  /\ n \in Nat \ {0}
             /\ \A d \in 1 .. n :
                  \/ Frm(t, d) = Frm(s, d) /\ d \in 1 .. h /\ d < n
                  \/ d = n /\ Past(s, t, d)
  <2>1. n = m /\ m \in 1 .. h /\ \A d \in 1 .. m - 1 : Frm(t, d) = Frm(s, d)
    BY <1>4 DEF Past, Under
  <2> HIDE DEF h, n
  <2>2. n \in Nat \ {0} /\ \A d \in 1 .. n : (d \in 1 .. m - 1 /\ d \in 1 .. h /\ d < n) \/ d = n
    BY <1>1, <2>1
  <2> QED BY <1>4, <2>1, <2>2
<1>5. CASE \E m : Past(s, t, m)
  BY <1>1, <1>4, <1>5
<1> QED BY <1>2, <1>3, <1>5 DEF Walk, Gone, Stepped, Resumed

LEMMA StepWorks ==
  ASSUME IInv, NEW r \in Slots, Step(r), ~Begin(r)
  PROVE  Stacked(slot[r]) /\ slot[r].frames # <<>> /\ slot[r].st \in {"run", "raise"}
<1>1. slot[r].st \in {"run", "raise"}
  BY DEF Step, Admit, requireRole, ScopeOfNobody, namespaceVisible, Project, cacheGet, cacheSet,
         AnswerNothing, cacheDel, deletePattern, Call, Return, Fetch, FetchFails, VerdictFails, Catch, Change,
         claimIdempotencyKey, fulfillIdempotencyKey, Lifecycle, At
<1> QED BY <1>1 DEF IInv, Stacked

\* A step that is due is made by its own action.
LEMMA ActionAt ==
  ASSUME IInv, NEW r \in Slots, Step(r), slot[r].st = "run", Up(slot[r]).pc \in 1 .. Len(Up(slot[r]).code.steps)
  PROVE  LET op == Now(Up(slot[r])).op IN
         /\ op = "Write" => Change(r)
         /\ op \in {"Put", "PutWhole", "PutIfSome"} => cacheSet(r)
         /\ op = "Del" => cacheDel(r)
         /\ op = "Purge" => deletePattern(r)
         /\ op = "Claim" => claimIdempotencyKey(r)
<1> DEFINE s == slot[r]
           op == Now(Up(s)).op
<1>1. Stacked(s) /\ s.frames # <<>>
  BY DEF IInv, Stacked
<1>2. Up(s) = Top(s) /\ Top(s).code \in Codes
  BY <1>1, FrmTyped, TopTyped
<1>3. Len(Top(s).code.steps) \in Nat
  BY <1>2, CodesTyped, LenProperties
<1>4. ~Ended(Top(s)) /\ op = Current(r).op
  BY <1>2, <1>3 DEF Ended, Now, Current, Awaits
<1>5. ~Begin(r) /\ ~Return(r) /\ ~Catch(r)
  BY <1>4 DEF Begin, Working, Return, Catch
<1> HIDE DEF op
<1>6. op \notin Reads => ~Call(r) /\ ~Fetch(r) /\ ~FetchFails(r)
  BY <1>4 DEF Call, Fetch, FetchFails, At
<1>7. {"Write", "Put", "PutWhole", "PutIfSome", "Del", "Purge", "Claim"} \cap Reads = {}
  BY DEF Reads, Propagating, Recorded, Surviving
<1>8. op \in {"Write", "Put", "PutWhole", "PutIfSome", "Del", "Purge", "Claim"} =>
        Change(r) \/ cacheSet(r) \/ cacheDel(r) \/ deletePattern(r) \/ claimIdempotencyKey(r)
  <2> SUFFICES ASSUME op \in {"Write", "Put", "PutWhole", "PutIfSome", "Del", "Purge", "Claim"}
               PROVE  Change(r) \/ cacheSet(r) \/ cacheDel(r) \/ deletePattern(r) \/ claimIdempotencyKey(r)
    OBVIOUS
  <2>1. ~Admit(r) /\ ~requireRole(r) /\ ~ScopeOfNobody(r) /\ ~namespaceVisible(r) /\ ~Project(r) /\ ~cacheGet(r)
    BY <1>4 DEF Admit, requireRole, ScopeOfNobody, namespaceVisible, Project, cacheGet, At
  <2>2. ~AnswerNothing(r) /\ ~VerdictFails(r) /\ ~fulfillIdempotencyKey(r) /\ ~Lifecycle(r)
    BY <1>4 DEF AnswerNothing, VerdictFails, fulfillIdempotencyKey, Lifecycle, At
  <2> QED BY <1>5, <1>6, <1>7, <2>1, <2>2 DEF Step
<1>9. /\ Change(r) => op = "Write"
      /\ cacheSet(r) => op \in {"Put", "PutWhole", "PutIfSome"}
      /\ cacheDel(r) => op = "Del"
      /\ deletePattern(r) => op = "Purge"
      /\ claimIdempotencyKey(r) => op = "Claim"
  BY <1>4 DEF Change, cacheSet, cacheDel, deletePattern, claimIdempotencyKey, At
<1> QED BY <1>8, <1>9 DEF op

\* A program that only returns at its end has got there.
LEMMA StraightReturns ==
  ASSUME NEW r, NEW s, Stacked(s), s.frames # <<>>, NEW v, Returns(r, s, v), Straight(Up(s).code)
  PROVE  s.st = "run" /\ Ended(Up(s)) /\ v = Up(s).val
<1>1. Up(s).code \in Codes
  BY FrmTyped, TopTyped
<1>2. DOMAIN Up(s).code.steps = 1 .. Len(Up(s).code.steps)
  BY <1>1, CodesTyped, LenProperties
<1> QED BY <1>2 DEF Returns, Straight, Now

\* What is changed, purged or renewed before the next step, at the start and at the end.
LEMMA CodeDomain ==
  ASSUME NEW c \in Codes
  PROVE  DOMAIN c.steps = 1 .. Len(c.steps) /\ Len(c.steps) \in Nat
  BY CodesTyped, LenProperties

LEMMA ChangedParts ==
  ASSUME NEW c \in Codes, NEW T
  PROVE  /\ ~ChangedBefore(c, 1, T)
         /\ \A n \in 1 .. Len(c.steps) :
              ChangedBefore(c, n + 1, T) => ChangedBefore(c, n, T) \/ HasChanged(c.steps[n], T)
         /\ \A n \in Nat : \A U : n > Len(c.steps) /\ U \subseteq T /\ ChangedBefore(c, Len(c.steps) + 1, U) => ChangedBefore(c, n, T)
<1>1. DOMAIN c.steps = 1 .. Len(c.steps) /\ Len(c.steps) \in Nat
  BY CodeDomain
<1> DEFINE N == Len(c.steps)
<1> HIDE DEF N
<1>2. ~ChangedBefore(c, 1, T)
  BY <1>1 DEF ChangedBefore
<1>3. ASSUME NEW n \in 1 .. N, ChangedBefore(c, n + 1, T) PROVE ChangedBefore(c, n, T) \/ HasChanged(c.steps[n], T)
  <2>1. PICK i \in DOMAIN c.steps : i < n + 1 /\ HasChanged(c.steps[i], T)
    BY <1>3 DEF ChangedBefore
  <2>2. i < n \/ i = n
    BY <1>1, <2>1
  <2> QED BY <2>1, <2>2 DEF ChangedBefore
<1>4. ASSUME NEW n \in Nat, NEW U, n > N, U \subseteq T, ChangedBefore(c, N + 1, U) PROVE ChangedBefore(c, n, T)
  <2>1. PICK i \in DOMAIN c.steps : i < N + 1 /\ HasChanged(c.steps[i], U)
    BY <1>4 DEF ChangedBefore
  <2>2. i < n
    BY <1>1, <1>4 DEF N
  <2>3. HasChanged(c.steps[i], T)
    BY <1>4, <2>1 DEF HasChanged
  <2> QED BY <2>2, <2>3 DEF ChangedBefore
<1> QED BY <1>2, <1>3, <1>4 DEF N

-----------------------------------------------------------------------------
(* What a handler has changed.  A frame that is past a step which changes  *)
(* the object, or which waits for a program that does, has an effect to    *)
(* show for it; and what runs above a frame changes nothing but what the   *)
(* program it waits for may change.                                        *)
Within(c, A) ==
  \A i \in DOMAIN c.steps :
    /\ c.steps[i].op = "Write" => c.steps[i].arg \in A
    /\ Calls(c.steps[i]) => Touching[c.steps[i].arg] \subseteq A

Nested(s) ==
  \A d, e \in 1 .. Height(s) : d < e => Within(Frm(s, e).code, Touching[Now(Frm(s, d)).arg])

Acknowledged(s) ==
  \A d \in 1 .. Height(s) :
    ChangedBefore(Frm(s, d).code, Frm(s, d).pc, scenario.touched) => written /\ effects > 0

Resting(r) ==
  /\ slot[r].st = "idle" => slot[r].frames = <<>>
  /\ slot[r].st # "idle" => slot[r].kind = None
  /\ slot[r].runs > 0 \/ slot[r].st # "idle" => scenario.req[r].runs > 0

Fulfilling == \E r \in Slots : scenario.req[r].keyed /\ Has(Program(r), "Fulfill")

ClaimPart ==
  /\ \A r \in Slots : slot[r].kind = "dup" => scenario.req[r].keyed /\ claim.st = "done"
  /\ claim.st = "done" /\ Fulfilling => effects > 0

EffectPart ==
  /\ \A r \in Slots : Nested(slot[r]) /\ Acknowledged(slot[r]) /\ Resting(r)
  /\ ClaimPart

EffectInv == FlowInv /\ EffectPart

\* A program changes nothing but what is said of it.
LEMMA ProgramWithin ==
  ASSUME NEW p \in DOMAIN Prog
  PROVE  Within(Prog[p], Touching[p])
  BY EffectAssumption DEF Within

LEMMA NestedStep ==
  ASSUME NEW r, NEW s, Stacked(s), s.frames # <<>>, Nested(s), NEW t, Walk(r, s, t), t.st # "idle"
  PROVE  Nested(t)
<1> SUFFICES ASSUME NEW d \in 1 .. Height(t), NEW e \in 1 .. Height(t), d < e
             PROVE  Within(Frm(t, e).code, Touching[Now(Frm(t, d)).arg])
  BY DEF Nested
<1>1. Height(s) \in Nat \ {0} /\ Height(t) \in Nat \ {0}
  BY WalkFrames
<1>2. d # Height(t)
  BY <1>1
<1>3. Frm(t, d) = Frm(s, d) /\ d \in 1 .. Height(s)
  BY <1>2, WalkFrames
<1>4. CASE e \in 1 .. Height(s) /\ Frm(t, e).code = Frm(s, e).code
  BY <1>3, <1>4 DEF Nested
<1>5. CASE e = Height(t) /\ Deeper(s, t)
  <2> DEFINE h == Height(s)
             x == Now(Up(s))
             A == Touching[Now(Frm(s, d)).arg]
  <2>1. /\ Height(t) = h + 1 /\ Up(t) = Frame(x.arg) /\ Calls(x)
        /\ Up(s).pc \in 1 .. Len(Up(s).code.steps)
    BY <1>5 DEF Deeper
  <2>2. Frm(t, e).code = Prog[x.arg] /\ x.arg \in DOMAIN Prog
    BY <1>5, <2>1 DEF Up, Frame, Calls
  <2>3. Within(Prog[x.arg], Touching[x.arg])
    BY <2>2, ProgramWithin
  <2>4. CASE d = h
    BY <1>3, <2>2, <2>3, <2>4 DEF Up
  <2>5. CASE d # h
    <3>1. h \in 1 .. h /\ d < h
      BY <1>1, <1>3, <2>5
    <3>2. Within(Up(s).code, A)
      BY <1>3, <3>1 DEF Nested, Up
    <3>3. Up(s).code \in Codes
      BY FrmTyped, TopTyped
    <3>4. Up(s).pc \in DOMAIN Up(s).code.steps
      BY <2>1, <3>3, CodeDomain
    <3>5. Touching[x.arg] \subseteq A
      BY <2>1, <3>2, <3>4 DEF Within, Now
    <3>6. Within(Prog[x.arg], A)
      BY <2>3, <3>5 DEF Within
    <3> QED BY <1>3, <2>2, <3>6
  <2> QED BY <2>4, <2>5
<1>6. CASE e = Height(t) /\ Past(s, t, e)
  BY <1>4, <1>6 DEF Past
<1>7. CASE Frm(t, e) = Frm(s, e) /\ e \in 1 .. Height(s)
  BY <1>4, <1>7
<1> QED BY <1>5, <1>6, <1>7, WalkFrames

-----------------------------------------------------------------------------
(* What a step does to the rest of the state.                              *)
LEMMA EffectsGrow ==
  ASSUME IInv, [Next]_vars
  PROVE  /\ scenario' = scenario /\ effects' \in Nat
         /\ written => written'
         /\ effects > 0 => effects' > 0
         /\ claim.st = "done" => claim'.st = "done"
         /\ claim.st # "absent" => claim'.st # "absent"
<1>1. effects \in Nat /\ claim \in [st: {"absent", "pending", "done"}, body: STRING \cup {None}]
  BY DEF IInv, Globals
<1>2. \A r \in Slots : Settled(r).st = "done" \/ Settled(r) = claim
  BY DEF Settled
<1>3. CASE \E r \in Slots : Change(r)
  <2>1. /\ scenario' = scenario /\ claim' = claim
        /\ written' = written \/ \E hits : written' = (written \/ hits)
        /\ effects' = effects \/ effects' = effects + 1
    BY <1>3 DEF Change
  <2>2. written => written'
    BY <1>3 DEF Change
  <2> QED BY <1>1, <2>1, <2>2
<1>4. CASE \E r \in Slots : claimIdempotencyKey(r)
  <2>1. UNCHANGED <<scenario, written, effects>>
    BY <1>4 DEF claimIdempotencyKey
  <2>2. claim' = claim \/ (claim.st = "absent" /\ claim'.st \in {"pending", "done"})
    BY <1>4 DEF claimIdempotencyKey
  <2> QED BY <1>1, <2>1, <2>2
<1>5. CASE \E r \in Slots : Catch(r) \/ fulfillIdempotencyKey(r)
  <2>1. UNCHANGED <<scenario, written, effects>>
    BY <1>5 DEF Catch, fulfillIdempotencyKey
  <2>2. claim' = claim \/ claim'.st = "done"
    BY <1>2, <1>5 DEF Catch, fulfillIdempotencyKey
  <2> QED BY <1>1, <2>1, <2>2
<1>6. CASE UNCHANGED <<scenario, written, effects, claim>>
  BY <1>1, <1>6
<1>7. ASSUME NEW r \in Slots, Step(r)
      PROVE  \/ Change(r) \/ claimIdempotencyKey(r) \/ Catch(r) \/ fulfillIdempotencyKey(r)
             \/ UNCHANGED <<scenario, written, effects, claim>>
  BY <1>7 DEF Step, Begin, Admit, requireRole, ScopeOfNobody, namespaceVisible, Project, cacheGet, cacheSet,
         AnswerNothing, cacheDel, deletePattern, Call, Return, Fetch, FetchFails, VerdictFails, Lifecycle
<1>8. CASE Expire \/ CommandFails \/ Connect \/ Crash \/ UNCHANGED vars
  BY <1>6, <1>8 DEF Expire, CommandFails, Connect, Crash, vars
<1> QED BY <1>3, <1>4, <1>5, <1>6, <1>7, <1>8 DEF Next

LEMMA SomeStep ==
  ASSUME NEW r \in Slots, Step(r)
  PROVE  [Next]_vars
  BY DEF Next

\* A handler that is past its change of the object has changed it.
LEMMA ChangeTook ==
  ASSUME IInv, NEW r \in Slots, Step(r), Stepped(r, slot[r], slot'[r]),
         Now(Up(slot[r])).op = "Write", Now(Up(slot[r])).arg \in scenario.touched
  PROVE  written' /\ effects' > 0
<1> DEFINE s == slot[r]
<1>1. s.st = "run" /\ slot'[r].st = "run" /\ Up(s).pc \in 1 .. Len(Up(s).code.steps)
  BY DEF Stepped, Past, Up
<1>2. Change(r)
  BY <1>1, ActionAt
<1>3. Up(s) = Top(s) /\ Stacked(s) /\ s.frames # <<>>
  BY FrmTyped DEF IInv, Stacked, Stepped
<1>4. Current(r).arg \in scenario.touched
  BY <1>3 DEF Current, Awaits, Now
<1>5. ~Become(r, Raise(s))
  <2>1. Raise(s).st = "raise"
    BY <1>3 DEF Raise, Stacked, Handler
  <2> QED BY <1>1, <2>1, BecomeWalk
<1>6. (written' = (written \/ Current(r).arg \in scenario.touched)) /\ effects' = effects + 1
  BY <1>2, <1>4, <1>5 DEF Change
<1>7. effects \in Nat
  BY DEF IInv, Globals
<1>8. written'
  BY <1>4, <1>6, Zenon
<1>9. effects' > 0
  BY <1>6, <1>7
<1> QED BY <1>8, <1>9

\* What a frame waits for, when it goes on.
LEMMA PastWaits ==
  ASSUME FlowInv, NEW r \in Slots, slot[r].frames # <<>>, NEW t, Walk(r, slot[r], t), t.st # "idle",
         NEW m, Past(slot[r], t, m), Waits(Now(Frm(slot[r], m)))
  PROVE  /\ Height(slot[r]) = m + 1 /\ Now(Frm(slot[r], m)).arg \in DOMAIN Prog
         /\ Up(slot[r]).code = Prog[Now(Frm(slot[r], m)).arg]
         /\ \E v \in Val : Returns(r, slot[r], v) /\ Takes(r, slot[r], t, m, v)
<1> DEFINE s == slot[r]
           x == Now(Frm(s, m))
           h == Height(s)
<1>1. Stacked(s) /\ h \in Nat \ {0}
  BY FrmTyped DEF FlowInv, IInv
<1>2. t.st = "run" /\ Height(t) = m /\ m \in 1 .. h
  BY DEF Past
<1>3. x.op \in Reads /\ x.op \notin Surviving /\ x.op # "Scope" /\ x.arg \in DOMAIN Prog
  BY DEF Waits, Calls, Propagating, Surviving, Recorded
<1>4. ~Stepped(r, s, t)
  <2> SUFFICES ASSUME Stepped(r, s, t) PROVE FALSE
    OBVIOUS
  <2>1. m = h
    BY <1>2 DEF Stepped, Past
  <2>2. x = Now(Up(s))
    BY <2>1 DEF Up
  <2>3. {"Filter", "Hush"} \cap Reads = {}
    BY DEF Reads, Propagating, Recorded, Surviving
  <2> QED BY <1>3, <2>2, <2>3 DEF Stepped, Loses
<1>5. ~Sunk(s, t) /\ ~Gone(r, s, t)
  BY <1>2 DEF Sunk, Gone
<1>6. ~Deeper(s, t)
  BY <1>1, <1>2 DEF Deeper
<1>7. Resumed(r, s, t)
  BY <1>4, <1>5, <1>6 DEF Walk
<1>8. m = h - 1
  BY <1>2, <1>7 DEF Resumed, Past
<1>9. \E v \in Val : Returns(r, s, v) /\ Takes(r, s, t, m, v)
  BY <1>3, <1>7, <1>8 DEF Resumed, Loses
<1>10. h = m + 1 /\ m \in 1 .. h - 1
  BY <1>1, <1>2, <1>8
<1>11. Frm(s, m + 1).code = Prog[x.arg]
  BY <1>10, LinkedFrames
<1> QED BY <1>3, <1>9, <1>10, <1>11 DEF Up

LEMMA AcknowledgedStep ==
  ASSUME EffectInv, NEW r \in Slots, Step(r), ~Begin(r), slot'[r].st # "idle"
  PROVE  Acknowledged(slot[r])'
<1> DEFINE s == slot[r]
           T == scenario.touched
<1> SUFFICES ASSUME NEW t, t = slot'[r], NEW d \in 1 .. Height(t), ChangedBefore(Frm(t, d).code, Frm(t, d).pc, T)
             PROVE  written' /\ effects' > 0
  <2>1. scenario' = scenario
    BY OthersStay DEF EffectInv, FlowInv
  <2> QED BY <2>1 DEF Acknowledged
<1>1. FlowInv /\ IInv /\ Stacked(s) /\ s.frames # <<>> /\ Walk(r, s, t)
  BY StepWorks, WalkNext DEF EffectInv, FlowInv
<1>2. /\ written => written'
      /\ effects > 0 => effects' > 0
  BY <1>1, EffectsGrow, SomeStep
<1>3. \A e \in 1 .. Height(s) : ChangedBefore(Frm(s, e).code, Frm(s, e).pc, T) => written /\ effects > 0
  BY DEF EffectInv, EffectPart, Acknowledged
<1>4. CASE Frm(t, d) = Frm(s, d) /\ d \in 1 .. Height(s)
  BY <1>2, <1>3, <1>4
<1>5. CASE d = Height(t) /\ Deeper(s, t)
  <2>1. Frm(t, d) = Frame(Now(Up(s)).arg) /\ Now(Up(s)).arg \in DOMAIN Prog
    BY <1>5 DEF Deeper, Up, Calls
  <2>2. Frm(t, d).pc = 1 /\ Frm(t, d).code \in Codes
    BY <2>1 DEF Frame, Codes
  <2> QED BY <2>2, ChangedParts
<1>6. CASE d = Height(t) /\ Past(s, t, d)
  <2> DEFINE f == Frm(s, d)
             x == Now(f)
  <2>1. d \in 1 .. Height(s) /\ f.pc \in 1 .. Len(f.code.steps) /\ Frm(t, d).code = f.code /\ Frm(t, d).pc = f.pc + 1
    BY <1>6 DEF Past
  <2>2. f.code \in Codes
    BY <1>1, <2>1, FrmTyped
  <2>3. ChangedBefore(f.code, f.pc, T) \/ HasChanged(x, T)
    <3>1. ChangedBefore(f.code, f.pc + 1, T) /\ x = f.code.steps[f.pc]
      BY <2>1 DEF Now
    <3> HIDE DEF x, f, T
    <3> QED BY <2>1, <2>2, <3>1, ChangedParts
  <2>4. CASE ChangedBefore(f.code, f.pc, T)
    BY <1>2, <1>3, <2>1, <2>4
  <2>5. CASE x.op = "Write" /\ x.arg \in T
    <3>1. x.op \notin Reads /\ x.op \notin Surviving
      BY <2>5 DEF Reads, Propagating, Recorded, Surviving
    <3>2. d = Height(s)
      <4>1. Height(s) \in Nat \ {0}
        BY <1>1, FrmTyped
      <4>2. d \notin 1 .. Height(s) - 1
        BY <1>1, <3>1, FrmTyped
      <4> QED BY <2>1, <4>1, <4>2
    <3>3. ~Resumed(r, s, t) /\ ~Sunk(s, t) /\ ~Gone(r, s, t) /\ ~Deeper(s, t)
      <4>1. Height(s) \in Nat \ {0} /\ Height(t) = Height(s) /\ t.st = "run"
        BY <1>1, <1>6, <3>2, FrmTyped DEF Past
      <4> QED BY <4>1 DEF Resumed, Past, Sunk, Gone, Deeper
    <3>4. Stepped(r, s, t)
      BY <1>1, <3>3 DEF Walk
    <3>5. x = Now(Up(s))
      BY <3>2 DEF Up
    <3> QED BY <1>1, <2>5, <3>4, <3>5, ChangeTook
  <2>6. CASE Waits(x) /\ Landing[x.arg] \cap T # {}
    <3>1. /\ Height(s) = d + 1 /\ x.arg \in DOMAIN Prog /\ Up(s).code = Prog[x.arg]
          /\ \E v \in Val : Returns(r, s, v)
      BY <1>1, <1>6, <2>6, PastWaits
    <3>2. PICK o \in Landing[x.arg] : o \in T
      BY <2>6
    <3>3. LandingProgram(Up(s).code, o)
      BY <3>1, <3>2, EffectAssumption
    <3>4. Ended(Up(s))
      BY <1>1, <3>1, <3>3, StraightReturns DEF LandingProgram
    <3>5. Up(s).pc \in Nat /\ Up(s).code \in Codes /\ Up(s) = Frm(s, Height(s)) /\ Height(s) \in 1 .. Height(s)
      BY <1>1, FrmTyped, TopTyped DEF Up
    <3>6. ChangedBefore(Up(s).code, Up(s).pc, T)
      <4> DEFINE c == Up(s).code
                 n == Up(s).pc
      <4>1. n > Len(c.steps) /\ {o} \subseteq T /\ ChangedBefore(c, Len(c.steps) + 1, {o}) /\ c \in Codes /\ n \in Nat
        BY <3>2, <3>3, <3>4, <3>5 DEF LandingProgram, Ended
      <4> HIDE DEF c, n, T
      <4>2. ChangedBefore(c, n, T)
        BY <4>1, ChangedParts
      <4> QED BY <4>2 DEF c, n
    <3> QED BY <1>2, <1>3, <3>5, <3>6
  <2> QED BY <2>3, <2>4, <2>5, <2>6 DEF HasChanged
<1> QED BY <1>1, <1>4, <1>5, <1>6, WalkFrames

\* The key's steps are made by the handler's own program.
LEMMA KeySteps ==
  ASSUME FlowInv, NEW r \in Slots, slot[r].frames # <<>>, NEW d \in 1 .. Height(slot[r]),
         Frm(slot[r], d).pc \in 1 .. Len(Frm(slot[r], d).code.steps),
         Now(Frm(slot[r], d)).op \in {"Claim", "Fulfill", "Partly"}
  PROVE  d = 1
<1> DEFINE s == slot[r]
           f == Frm(s, d)
           g == Frm(s, d - 1)
<1> SUFFICES ASSUME d # 1 PROVE FALSE
  OBVIOUS
<1>1. Stacked(s) /\ Height(s) \in Nat \ {0}
  BY FrmTyped DEF FlowInv, IInv
<1>2. d - 1 \in 1 .. Height(s) - 1 /\ (d - 1) + 1 = d /\ d - 1 \in 1 .. Height(s)
  BY <1>1
<1>3. Calls(Now(g)) /\ f.code = Prog[Now(g).arg] /\ Now(g).arg \in DOMAIN Prog
  BY <1>2, LinkedFrames DEF Calls
<1>4. f.code \in Codes /\ g.code \in Codes /\ g.pc \in 1 .. Len(g.code.steps)
  BY <1>1, <1>2, FrmTyped
<1>5. f.pc \in DOMAIN f.code.steps /\ g.pc \in DOMAIN g.code.steps
  BY <1>4, CodeDomain
<1>6. PICK p \in DOMAIN Prog : g.code = Prog[p]
  BY <1>4 DEF Codes
<1>7. \A op \in {"Claim", "Fulfill", "Partly"} : ~Has(Now(g).arg, op)
  BY <1>3, <1>5, <1>6, KeyAssumption DEF Now
<1> QED BY <1>3, <1>5, <1>7 DEF Has, Now

\* Whose key is fulfilled has changed the object.
LEMMA FulfilledTook ==
  ASSUME EffectInv, NEW r \in Slots, slot[r].frames # <<>>, scenario.req[r].keyed, Fulfilling,
         NEW d \in 1 .. Height(slot[r]), Frm(slot[r], d).pc \in 1 .. Len(Frm(slot[r], d).code.steps),
         Now(Frm(slot[r], d)) = Claim("taken") \/ Now(Frm(slot[r], d)).op \in {"Fulfill", "Partly"}
  PROVE  effects > 0
<1> DEFINE s == slot[r]
           f == Frm(s, d)
           c == Prog[Program(r)]
<1>1. FlowInv /\ IInv /\ Stacked(s) /\ scenario \in Scenarios
  BY DEF EffectInv, FlowInv, IInv, Globals
<1>2. Now(f).op \in {"Claim", "Fulfill", "Partly"}
  BY DEF Claim, Op
<1>3. d = 1
  BY <1>1, <1>2, KeySteps
<1>4. f.code = c /\ Program(r) \in DOMAIN Prog
  BY <1>1, <1>3, LinkedFrames
<1>5. f.code \in Codes
  BY <1>1, FrmTyped
<1>6. f.pc \in DOMAIN c.steps
  BY <1>4, <1>5, CodeDomain
<1>7. PICK q \in Slots : scenario.req[q].keyed /\ Has(Program(q), "Fulfill")
  BY DEF Fulfilling
<1>8. Has(scenario.req[r].prog, "Fulfill")
  BY <1>1, <1>7, KeyAssumption DEF Program
<1>9. \A i \in DOMAIN c.steps :
        /\ c.steps[i] # Claim("taken")
        /\ c.steps[i].op \in {"Fulfill", "Partly"} => ChangedBefore(c, i, scenario.touched)
  BY <1>1, <1>8, KeyAssumption DEF Program
<1>10. ChangedBefore(f.code, f.pc, scenario.touched)
  BY <1>4, <1>6, <1>9 DEF Now
<1> QED BY <1>10 DEF EffectInv, EffectPart, Acknowledged

LEMMA ClaimSettles ==
  ASSUME EffectInv, NEW r \in Slots, Step(r), claim.st # "done", claim'.st = "done", Fulfilling
  PROVE  effects > 0 /\ effects' = effects
<1> DEFINE s == slot[r]
<1>0. FlowInv /\ IInv
  BY DEF EffectInv, FlowInv
<1>1. CASE claimIdempotencyKey(r)
  <2>1. At(r, {"Claim"}) /\ scenario.req[r].keyed /\ Current(r).arg = "taken" /\ effects' = effects
    BY <1>1 DEF claimIdempotencyKey
  <2>2. /\ Now(Up(s)).op = "Claim" /\ Now(Up(s)) = Current(r) /\ Up(s) = Frm(s, Height(s)) /\ s.frames # <<>>
        /\ Up(s).pc \in 1 .. Len(Up(s).code.steps) /\ Stacked(s)
    BY <1>0, <2>1, AtWalk
  <2>3. Now(Up(s)) = Claim("taken")
    <3>1. Up(s).code \in Codes
      BY <2>2, FrmTyped, TopTyped
    <3>2. Now(Up(s)) \in [op: STRING, arg: STRING]
      BY <2>2, <3>1, CodesTyped, LenProperties DEF Now
    <3> QED BY <2>1, <2>2, <3>2 DEF Claim, Op
  <2>4. Height(s) \in 1 .. Height(s)
    BY <2>2, FrmTyped
  <2> QED BY <2>1, <2>2, <2>3, <2>4, FulfilledTook
<1>2. CASE fulfillIdempotencyKey(r)
  <2>1. At(r, {"Fulfill"}) /\ scenario.req[r].keyed /\ effects' = effects
    BY <1>2 DEF fulfillIdempotencyKey, Settled
  <2>2. /\ Now(Up(s)).op = "Fulfill" /\ Up(s) = Frm(s, Height(s)) /\ s.frames # <<>>
        /\ Up(s).pc \in 1 .. Len(Up(s).code.steps) /\ Stacked(s)
    BY <1>0, <2>1, AtWalk
  <2>4. Height(s) \in 1 .. Height(s)
    BY <2>2, FrmTyped
  <2> QED BY <2>1, <2>2, <2>4, FulfilledTook
<1>3. CASE Catch(r)
  <2> DEFINE o == [s EXCEPT !.frames = Tail(@)]
             m == Height(s) - 1
  <2>1. s.st = "raise" /\ Len(s.frames) > 1 /\ Awaits(o).op = "Partly" /\ scenario.req[r].keyed /\ effects' = effects
    BY <1>3 DEF Catch, Settled
  <2>2. Stacked(s) /\ s.frames # <<>>
    BY <1>0, <2>1 DEF IInv, Stacked
  <2>3. Height(s) \in Nat /\ Height(s) # 1
    <3> DEFINE h == Height(s)
    <3>1. h \in Nat
      BY <2>2, FrmTyped
    <3>2. h > 1
      BY <2>1 DEF Height
    <3> HIDE DEF h
    <3>3. h \in Nat /\ h # 1
      BY <3>1, <3>2
    <3> QED BY <3>3 DEF h
  <2>4. Height(o) = m /\ m \in 1 .. Height(s) /\ Under(s, o, m)
    BY <2>2, <2>3, PopWalk
  <2>5. Stacked(o) /\ o.frames # <<>>
    BY <2>2, <2>3, PopStacked DEF Height
  <2> HIDE DEF o
  <2>6. Top(o) = Frm(s, m)
    <3>1. Up(o) = Top(o) /\ m \in 1 .. m
      BY <2>3, <2>4, <2>5, FrmTyped
    <3> QED BY <2>4, <3>1 DEF Up, Under
  <2>7. Now(Frm(s, m)).op = "Partly"
    BY <2>1, <2>6 DEF Now, Awaits
  <2>8. Frm(s, m).pc \in 1 .. Len(Frm(s, m).code.steps)
    <3>1. m \in 1 .. Height(s) - 1
      BY <2>3, <2>4
    <3> QED BY <2>2, <3>1, FrmTyped
  <2> QED BY <2>1, <2>2, <2>4, <2>7, <2>8, FulfilledTook
<1>4. CASE UNCHANGED claim
  BY <1>4
<1>5. claimIdempotencyKey(r) \/ fulfillIdempotencyKey(r) \/ Catch(r) \/ UNCHANGED claim
  BY DEF Step, Begin, Admit, requireRole, ScopeOfNobody, namespaceVisible, Project, cacheGet, cacheSet,
         AnswerNothing, cacheDel, deletePattern, Call, Return, Fetch, FetchFails, VerdictFails, Lifecycle, Change
<1> QED BY <1>1, <1>2, <1>3, <1>4, <1>5

\* One handler moves, the others keep what holds of them.
LEMMA EffectStep ==
  ASSUME EffectInv, NEW r \in Slots, Step(r), ~Begin(r)
  PROVE  EffectPart'
<1> DEFINE s == slot[r]
<1>0. /\ FlowInv /\ IInv /\ Stacked(s) /\ s.frames # <<>> /\ s.st \in {"run", "raise"} /\ Walk(r, s, slot'[r])
      /\ scenario' = scenario /\ \A q \in Slots : q # r => slot'[q] = slot[q]
  BY StepWorks, WalkNext, OthersStay DEF EffectInv, FlowInv
<1>1. /\ written => written'
      /\ effects > 0 => effects' > 0
      /\ claim.st = "done" => claim'.st = "done"
  BY <1>0, EffectsGrow, SomeStep
<1>2. ASSUME NEW q \in Slots PROVE (Nested(slot[q]) /\ Acknowledged(slot[q]) /\ Resting(q))'
  <2>1. Nested(slot[q]) /\ Acknowledged(slot[q]) /\ Resting(q)
    BY DEF EffectInv, EffectPart
  <2>2. CASE q # r
    BY <1>0, <1>1, <2>1, <2>2 DEF Nested, Acknowledged, Resting, Height, Frm, Now
  <2>3. CASE q = r /\ slot'[r].st = "idle"
    <3>1. slot'[r].frames = <<>> /\ slot'[r].runs = s.runs
      BY <1>0, <2>3 DEF Walk, Gone, Sunk, Deeper, Stepped, Resumed, Past
    <3>2. Height(slot'[r]) = 0
      BY <3>1 DEF Height
    <3>3. Nested(slot'[q]) /\ Acknowledged(slot[q])'
      BY <2>3, <3>2 DEF Nested, Acknowledged
    <3>4. Resting(q)'
      BY <1>0, <2>1, <2>3, <3>1 DEF Resting
    <3> QED BY <3>3, <3>4
  <2>4. CASE q = r /\ slot'[r].st # "idle"
    <3>1. Nested(slot'[r])
      BY <1>0, <2>1, <2>4, NestedStep
    <3>2. Acknowledged(slot[r])'
      BY <2>4, AcknowledgedStep
    <3>3. slot'[r].kind = s.kind /\ slot'[r].runs = s.runs
      BY <1>0, <2>4 DEF Walk, Gone
    <3>4. Resting(r)'
      BY <1>0, <2>1, <2>4, <3>3 DEF Resting
    <3> QED BY <2>4, <3>1, <3>2, <3>4
  <2> QED BY <2>2, <2>3, <2>4
<1>3. ASSUME NEW q \in Slots, slot'[q].kind = "dup" PROVE scenario'.req[q].keyed /\ claim'.st = "done"
  <2>1. slot[q].kind = "dup" => scenario.req[q].keyed /\ claim.st = "done"
    BY DEF EffectInv, EffectPart, ClaimPart
  <2>2. CASE q = r /\ Gone(r, s, slot'[r])
    BY <1>0, <1>1, <1>3, <2>2 DEF Gone
  <2>3. CASE slot'[q].kind = slot[q].kind
    BY <1>0, <1>1, <1>3, <2>1, <2>3
  <2> QED BY <1>0, <2>2, <2>3 DEF Walk
<1>4. claim'.st = "done" /\ Fulfilling' => effects' > 0
  <2>1. Fulfilling' => Fulfilling
    BY <1>0 DEF Fulfilling, Program
  <2>2. claim.st = "done" /\ Fulfilling => effects > 0
    BY DEF EffectInv, EffectPart, ClaimPart
  <2> QED BY <1>1, <2>1, <2>2, ClaimSettles
<1> QED BY <1>2, <1>3, <1>4 DEF EffectPart, ClaimPart

-----------------------------------------------------------------------------
(* The steps that walk through no program.                                 *)

\* A request that begins has its own program before it.
LEMMA BeginShape ==
  ASSUME IInv, NEW r \in Slots, Begin(r), NEW t, t = slot'[r]
  PROVE  /\ Height(t) = 1 /\ Frm(t, 1) = Frame(Program(r)) /\ Up(t) = Frame(Program(r)) /\ t.frames # <<>>
         /\ t.st = "run" /\ t.kind = None /\ t.scope = {} /\ slot[r].st = "idle" /\ slot[r].runs > 0
         /\ Program(r) \in DOMAIN Prog /\ Prog[Program(r)] \in Codes
         /\ Frame(Program(r)).pc = 1 /\ Frame(Program(r)).code = Prog[Program(r)] /\ Frame(Program(r)).val = Blank
         /\ UNCHANGED <<scenario, cache, online, written, claim, effects, faults, calm>>
         /\ \A q \in Slots : q # r => slot'[q] = slot[q]
<1> DEFINE f == Frame(Program(r))
           u == Fresh("run", <<f>>, slot[r].runs - 1)
<1>1. Become(r, u) /\ slot[r].st = "idle" /\ slot[r].runs > 0
  BY DEF Begin, Working, Program
<1>2. t = u /\ \A q \in Slots : q # r => slot'[q] = slot[q]
  BY <1>1, BecomeWalk
<1>3. u.frames = <<f>> /\ u.st = "run" /\ u.kind = None /\ u.scope = {}
  BY DEF Fresh
<1>4. Program(r) \in DOMAIN Prog
  BY RequestTyped DEF IInv, Globals, Program
<1>5. f.pc = 1 /\ f.code = Prog[Program(r)] /\ f.val = Blank
  BY DEF Frame
<1>6. Prog[Program(r)] \in Codes
  BY <1>4 DEF Codes
<1>7. UNCHANGED <<scenario, cache, online, written, claim, effects, faults, calm>>
  BY DEF Begin
<1> HIDE DEF f, u
<1>8. t.frames = <<f>> /\ Len(<<f>>) = 1 /\ <<f>>[1] = f /\ <<f>> # <<>>
  BY <1>2, <1>3
<1>9. Height(t) = 1
  BY <1>8 DEF Height
<1>10. Frm(t, 1) = f
  BY <1>8, <1>9 DEF Frm
<1>11. Up(t) = f
  BY <1>9, <1>10 DEF Up
<1> QED BY <1>1, <1>2, <1>3, <1>4, <1>5, <1>6, <1>7, <1>8, <1>9, <1>10, <1>11 DEF f

\* A crash leaves no request in flight.
LEMMA CrashShape ==
  ASSUME IInv, Crash
  PROVE  /\ UNCHANGED <<scenario, cache, written, claim, effects, calm>>
         /\ \A r \in Slots :
              \/ slot'[r] = slot[r] /\ slot[r].st = "idle"
              \/ /\ slot[r].st # "idle"
                 /\ slot'[r].st = "idle" /\ slot'[r].frames = <<>> /\ slot'[r].kind = "lost" /\ slot'[r].runs = slot[r].runs
<1>1. ASSUME NEW r \in Slots
      PROVE  \/ slot'[r] = slot[r] /\ slot[r].st = "idle"
             \/ /\ slot[r].st # "idle"
                /\ slot'[r].st = "idle" /\ slot'[r].frames = <<>> /\ slot'[r].kind = "lost" /\ slot'[r].runs = slot[r].runs
  <2> DEFINE u == Answer(slot[r], "lost", Blank)
  <2>1. u.st = "idle" /\ u.frames = <<>> /\ u.kind = "lost" /\ u.runs = slot[r].runs
    BY DEF Answer, IInv, Stacked, Handler
  <2>2. slot'[r] = IF Working(r) THEN u ELSE slot[r]
    BY DEF Crash
  <2> HIDE DEF u
  <2> QED BY <2>1, <2>2 DEF Working
<1> QED BY <1>1 DEF Crash

LEMMA AsideShape ==
  ASSUME Expire \/ CommandFails \/ Connect \/ UNCHANGED vars
  PROVE  cache' \subseteq cache /\ UNCHANGED <<scenario, slot, written, claim, effects, calm>>
  BY DEF Expire, CommandFails, Connect, vars

LEMMA InitShape ==
  ASSUME Init, NEW r \in Slots
  PROVE  /\ slot[r].st = "idle" /\ slot[r].frames = <<>> /\ slot[r].kind = None
         /\ slot[r].runs = scenario.req[r].runs /\ Height(slot[r]) = 0
<1>1. slot[r].st = "idle" /\ slot[r].frames = <<>> /\ slot[r].kind = None /\ slot[r].runs = scenario.req[r].runs
  BY DEF Init, Fresh
<1>2. Len(<<>>) = 0
  BY EmptySeq
<1> QED BY <1>1, <1>2 DEF Height

-----------------------------------------------------------------------------
LEMMA NoFrames ==
  ASSUME NEW s, s.frames = <<>>
  PROVE  Height(s) = 0 /\ Nested(s) /\ Acknowledged(s) /\ Acknowledged(s)'
<1>1. Height(s) = 0
  BY EmptySeq DEF Height
<1>2. 1 .. 0 = {}
  OBVIOUS
<1> QED BY <1>1, <1>2 DEF Nested, Acknowledged

LEMMA BeginEffect ==
  ASSUME EffectInv, NEW r \in Slots, Begin(r)
  PROVE  EffectPart'
<1>0. IInv
  BY DEF EffectInv, FlowInv
<1>1. PICK t : t = slot'[r]
  OBVIOUS
<1>2. /\ Height(t) = 1 /\ Frm(t, 1) = Frame(Program(r))
      /\ t.st = "run" /\ t.kind = None /\ slot[r].runs > 0
      /\ Prog[Program(r)] \in Codes
      /\ Frame(Program(r)).pc = 1 /\ Frame(Program(r)).code = Prog[Program(r)]
      /\ UNCHANGED <<scenario, written, claim, effects>>
      /\ \A q \in Slots : q # r => slot'[q] = slot[q]
  BY <1>0, <1>1, BeginShape
<1>3. ASSUME NEW q \in Slots PROVE (Nested(slot[q]) /\ Acknowledged(slot[q]) /\ Resting(q))'
  <2>1. Nested(slot[q]) /\ Acknowledged(slot[q]) /\ Resting(q)
    BY DEF EffectInv, EffectPart
  <2>2. CASE q # r
    BY <1>2, <2>1, <2>2 DEF Nested, Acknowledged, Resting, Height, Frm, Now
  <2>3. CASE q = r
    <3>1. Nested(t)
      <4>1. ~ \E d, e \in 1 .. 1 : d < e
        OBVIOUS
      <4> QED BY <1>2, <4>1 DEF Nested
    <3>2. ~ChangedBefore(Prog[Program(r)], 1, scenario.touched)
      BY <1>2, ChangedParts
    <3>3. Acknowledged(t)'
      <4>1. \A d \in 1 .. 1 : d = 1
        OBVIOUS
      <4>2. \A d \in 1 .. Height(t) : ~ChangedBefore(Frm(t, d).code, Frm(t, d).pc, scenario.touched)
        BY <1>2, <3>2, <4>1
      <4> QED BY <1>2, <4>2 DEF Acknowledged, Height, Frm
    <3>4. Resting(r)'
      BY <1>1, <1>2, <2>1, <2>3 DEF Resting
    <3> QED BY <1>1, <2>3, <3>1, <3>3, <3>4 DEF Nested, Acknowledged, Height, Frm, Now
  <2> QED BY <2>2, <2>3
<1>4. ASSUME NEW q \in Slots, slot'[q].kind = "dup" PROVE scenario'.req[q].keyed /\ claim'.st = "done"
  <2>1. q # r
    BY <1>1, <1>2, <1>4 DEF None
  <2> QED BY <1>2, <1>4, <2>1 DEF EffectInv, EffectPart, ClaimPart
<1>5. claim'.st = "done" /\ Fulfilling' => effects' > 0
  <2>1. Fulfilling' => Fulfilling
    BY <1>2 DEF Fulfilling, Program
  <2> QED BY <1>2, <2>1 DEF EffectInv, EffectPart, ClaimPart
<1> QED BY <1>3, <1>4, <1>5 DEF EffectPart, ClaimPart

LEMMA AsideEffect ==
  ASSUME EffectInv, Expire \/ CommandFails \/ Connect \/ UNCHANGED vars
  PROVE  EffectPart'
<1>1. UNCHANGED <<scenario, slot, written, claim, effects>>
  BY AsideShape
<1> QED BY <1>1 DEF EffectInv, EffectPart, ClaimPart, Nested, Acknowledged, Resting, Fulfilling, Program, Height, Frm, Now

LEMMA CrashEffect ==
  ASSUME EffectInv, Crash
  PROVE  EffectPart'
<1>0. IInv
  BY DEF EffectInv, FlowInv
<1>1. UNCHANGED <<scenario, written, claim, effects>>
  BY <1>0, CrashShape
<1>2. ASSUME NEW q \in Slots PROVE (Nested(slot[q]) /\ Acknowledged(slot[q]) /\ Resting(q))'
  <2>1. Nested(slot[q]) /\ Acknowledged(slot[q]) /\ Resting(q)
    BY DEF EffectInv, EffectPart
  <2>2. CASE slot'[q] = slot[q]
    BY <1>1, <2>1, <2>2 DEF Nested, Acknowledged, Resting, Height, Frm, Now
  <2>3. CASE slot[q].st # "idle" /\ slot'[q].st = "idle" /\ slot'[q].frames = <<>> /\ slot'[q].runs = slot[q].runs
    <3>1. Resting(q)'
      BY <1>1, <2>1, <2>3 DEF Resting
    <3>2. PICK t : t = slot'[q]
      OBVIOUS
    <3>3. Nested(t) /\ Acknowledged(t)'
      BY <2>3, <3>2, NoFrames
    <3> QED BY <3>1, <3>2, <3>3 DEF Nested, Acknowledged, Height, Frm, Now
  <2> QED BY <1>0, <2>2, <2>3, CrashShape
<1>3. ASSUME NEW q \in Slots, slot'[q].kind = "dup" PROVE scenario'.req[q].keyed /\ claim'.st = "done"
  <2>1. slot'[q] = slot[q]
    BY <1>0, <1>3, CrashShape
  <2> QED BY <1>1, <1>3, <2>1 DEF EffectInv, EffectPart, ClaimPart
<1>4. claim'.st = "done" /\ Fulfilling' => effects' > 0
  <2>1. Fulfilling' => Fulfilling
    BY <1>1 DEF Fulfilling, Program
  <2> QED BY <1>1, <2>1 DEF EffectInv, EffectPart, ClaimPart
<1> QED BY <1>2, <1>3, <1>4 DEF EffectPart, ClaimPart

LEMMA EffectInit == Init => EffectInv
<1> SUFFICES ASSUME Init PROVE EffectInv
  OBVIOUS
<1>1. FlowInv
  BY FlowInit
<1>2. ASSUME NEW r \in Slots PROVE Nested(slot[r]) /\ Acknowledged(slot[r]) /\ Resting(r) /\ slot[r].kind # "dup"
  <2>1. slot[r].st = "idle" /\ slot[r].frames = <<>> /\ slot[r].kind = None /\ slot[r].runs = scenario.req[r].runs
    BY InitShape
  <2>2. Nested(slot[r]) /\ Acknowledged(slot[r])
    BY <2>1, NoFrames
  <2> QED BY <2>1, <2>2 DEF Resting, None
<1>3. claim.st # "done"
  BY DEF Init, NoClaim
<1> QED BY <1>1, <1>2, <1>3 DEF EffectInv, EffectPart, ClaimPart

LEMMA EffectNext == EffectInv /\ [Next]_vars => EffectInv'
<1> SUFFICES ASSUME EffectInv, [Next]_vars PROVE EffectInv'
  OBVIOUS
<1>1. FlowInv'
  BY FlowNext DEF EffectInv
<1>2. ASSUME NEW r \in Slots, Step(r) PROVE EffectPart'
  BY <1>2, BeginEffect, EffectStep
<1>3. EffectPart'
  BY <1>2, AsideEffect, CrashEffect DEF Next
<1> QED BY <1>1, <1>3 DEF EffectInv

\* A key belongs to one route, so whoever is told of a duplicate finds a claim that
\* this route settled; and the route settles it only when its change was
\* acknowledged, directly or by the program that it waited for.
THEOREM DuplicatesTookEffect == Spec => []DuplicateTookEffect
<1>1. EffectInv => DuplicateTookEffect
  <2> SUFFICES ASSUME EffectInv, NEW r \in Slots, slot[r].kind = "dup", Has(Program(r), "Fulfill")
               PROVE  effects > 0
    BY DEF DuplicateTookEffect
  <2> QED BY DEF EffectInv, EffectPart, ClaimPart, Fulfilling
<1> QED BY <1>1, EffectInit, EffectNext, PTL DEF Spec

-----------------------------------------------------------------------------
(* One key, one change.  Of requests that all bear the key, those past the *)
(* strict claim of their route are entitled to change the object: the      *)
(* first found the claim absent, every other one is turned away.  A        *)
(* handler is aimed at the object while a step of some frame that may      *)
(* change it lies ahead; a route makes one such step, so a handler that    *)
(* has changed the object is not aimed at it any more.                     *)
Pressing == \A r \in Slots : scenario.req[r].runs > 0 => scenario.req[r].keyed /\ Strict(Program(r))

StrictAt(c, i) == c.steps[i] \in {Claim("conflict"), Claim("exact")}
Waiting(s) == \E i \in DOMAIN Frm(s, 1).code.steps : Frm(s, 1).pc <= i /\ StrictAt(Frm(s, 1).code, i)

\* The first step of the frame at depth d that may still be made.
From(s, d) == IF d = Height(s) /\ s.st = "run" THEN Frm(s, d).pc ELSE Frm(s, d).pc + 1
Aimed(s, T) ==
  \E d \in 1 .. Height(s) : \E i \in DOMAIN Frm(s, d).code.steps :
    From(s, d) <= i /\ MayChange(Frm(s, d).code.steps[i], T)

Entitled(r) == slot[r].st # "idle" /\ ~Waiting(slot[r])
Eager(r) == Entitled(r) /\ Aimed(slot[r], scenario.touched)

KeyedPart ==
  Pressing =>
    /\ \A r \in Slots : Entitled(r) => claim.st # "absent"
    /\ effects > 0 => claim.st # "absent"
    /\ effects <= 1
    /\ \A r \in Slots : Eager(r) => effects = 0
    /\ \A r, q \in Slots : Eager(r) /\ Eager(q) => q = r

KeyedInv == EffectInv /\ KeyedPart

\* No step aims a handler at what it was not aimed at.
LEMMA AimedBack ==
  ASSUME NEW r, NEW s, Stacked(s), s.frames # <<>>, NEW t, Walk(r, s, t), t.st # "idle", NEW T, Aimed(t, T)
  PROVE  Aimed(s, T)
<1>1. PICK d \in 1 .. Height(t) : \E i \in DOMAIN Frm(t, d).code.steps :
               From(t, d) <= i /\ MayChange(Frm(t, d).code.steps[i], T)
  BY DEF Aimed
<1>2. PICK i \in DOMAIN Frm(t, d).code.steps : From(t, d) <= i /\ MayChange(Frm(t, d).code.steps[i], T)
  BY <1>1
<1>3. Height(s) \in Nat \ {0} /\ Height(t) \in Nat \ {0}
  BY WalkFrames
<1>4. CASE Frm(t, d) = Frm(s, d) /\ d \in 1 .. Height(s) /\ (d < Height(t) \/ t.st = "raise")
  <2> DEFINE f == Frm(s, d)
  <2>1. f.pc \in Nat /\ f.code \in Codes
    BY <1>4, FrmTyped
  <2>2. i \in Nat
    BY <1>2, <1>4, <2>1, CodeDomain
  <2>3. From(t, d) = f.pc + 1
    BY <1>3, <1>4 DEF From
  <2>4. From(s, d) \in {f.pc, f.pc + 1}
    BY DEF From
  <2> HIDE DEF f
  <2>5. From(s, d) <= i
    BY <1>2, <2>1, <2>2, <2>3, <2>4
  <2> QED BY <1>2, <1>4, <2>5 DEF Aimed, f
<1>5. CASE d = Height(t) /\ Past(s, t, d)
  <2> DEFINE f == Frm(s, d)
  <2>0. d \in 1 .. Height(s) /\ t.st = "run" /\ Frm(t, d).code = f.code /\ Frm(t, d).pc = f.pc + 1
    BY <1>5 DEF Past
  <2>1. f.pc \in Nat /\ f.code \in Codes
    BY <2>0, FrmTyped
  <2>2. i \in Nat
    BY <1>2, <2>0, <2>1, CodeDomain
  <2>3. From(t, d) = f.pc + 1
    BY <1>5, <2>0 DEF From
  <2>4. From(s, d) \in {f.pc, f.pc + 1}
    BY DEF From
  <2> HIDE DEF f
  <2>5. From(s, d) <= i
    BY <1>2, <2>1, <2>2, <2>3, <2>4
  <2> QED BY <1>2, <2>0, <2>5 DEF Aimed, f
<1>6. CASE d = Height(t) /\ Deeper(s, t)
  <2> DEFINE h == Height(s)
             f == Up(s)
             x == Now(f)
  <2>1. s.st = "run" /\ Calls(x) /\ f.pc \in 1 .. Len(f.code.steps) /\ Up(t) = Frame(x.arg)
    BY <1>6 DEF Deeper
  <2>2. Frm(t, d).code = Prog[x.arg] /\ x.arg \in DOMAIN Prog
    BY <1>6, <2>1 DEF Up, Frame, Calls
  <2>3. Within(Prog[x.arg], Touching[x.arg])
    BY <2>2, ProgramWithin
  <2>4. Touching[x.arg] \cap T # {}
    BY <1>2, <2>2, <2>3 DEF Within, MayChange
  <2>5. MayChange(x, T)
    BY <2>1, <2>4 DEF MayChange
  <2>6. f.code \in Codes /\ f.pc \in Nat
    BY FrmTyped, TopTyped
  <2>7. f.pc \in DOMAIN f.code.steps
    BY <2>1, <2>6, CodeDomain
  <2>8. f = Frm(s, h) /\ h \in 1 .. h /\ x = f.code.steps[f.pc]
    BY <1>3 DEF Up, Now
  <2>9. From(s, h) = f.pc /\ f.pc <= f.pc
    BY <2>1, <2>6, <2>8 DEF From
  <2> HIDE DEF f, x, h
  <2> QED BY <2>5, <2>7, <2>8, <2>9 DEF Aimed, h
<1>7. \/ Frm(t, d) = Frm(s, d) /\ d \in 1 .. Height(s) /\ (d < Height(t) \/ t.st = "raise")
      \/ d = Height(t) /\ Past(s, t, d)
      \/ d = Height(t) /\ Deeper(s, t)
  BY WalkFrames
<1> QED BY <1>4, <1>5, <1>6, <1>7

\* All frames of the handler that changes the object wait for that change.
LEMMA ChangerNow ==
  ASSUME EffectInv, NEW r \in Slots, Change(r), Current(r).arg \in scenario.touched,
         NEW d \in 1 .. Height(slot[r])
  PROVE  /\ MayChange(Now(Frm(slot[r], d)), scenario.touched)
         /\ Frm(slot[r], d).code \in Codes /\ Frm(slot[r], d).pc \in DOMAIN Frm(slot[r], d).code.steps
         /\ Now(Frm(slot[r], d)) = Frm(slot[r], d).code.steps[Frm(slot[r], d).pc]
<1> DEFINE s == slot[r]
           h == Height(s)
           T == scenario.touched
           f == Frm(s, d)
<1>0. FlowInv /\ IInv
  BY DEF EffectInv, FlowInv
<1>1. At(r, {"Write"})
  BY DEF Change
<1>2. /\ Stacked(s) /\ s.frames # <<>> /\ Awaits(s).op = "Write" /\ Current(r) = Awaits(s)
      /\ Now(Up(s)) = Awaits(s) /\ Up(s) = Frm(s, h) /\ Up(s).pc \in 1 .. Len(Up(s).code.steps)
  BY <1>0, <1>1, AtWalk
<1>3. h \in Nat \ {0} /\ f.code \in Codes
  BY <1>2, FrmTyped
<1>4. d = h \/ d \in 1 .. h - 1
  BY <1>3
<1>5. f.pc \in DOMAIN f.code.steps
  <2>1. f.pc \in 1 .. Len(f.code.steps)
    BY <1>2, <1>4, FrmTyped
  <2> QED BY <1>3, <2>1, CodeDomain
<1>6. MayChange(Now(f), T)
  <2>1. CASE d = h
    BY <1>2, <2>1 DEF MayChange
  <2>2. CASE d \in 1 .. h - 1
    <3>1. Calls(Now(f))
      BY <1>0, <1>2, <2>2, LinkedFrames
    <3>2. h \in 1 .. h /\ d < h /\ d \in 1 .. h
      BY <1>3, <2>2
    <3>3. Nested(s)
      BY DEF EffectInv, EffectPart
    <3>4. Within(Up(s).code, Touching[Now(f).arg])
      BY <1>2, <3>2, <3>3 DEF Nested
    <3>5. Up(s).pc \in DOMAIN Up(s).code.steps
      <4>1. Up(s).code \in Codes
        BY <1>2, <3>2, FrmTyped
      <4> QED BY <1>2, <4>1, CodeDomain
    <3>6. Now(Up(s)).op = "Write" /\ Now(Up(s)).arg \in T
      BY <1>2
    <3>7. Now(Up(s)).arg \in Touching[Now(f).arg]
      BY <3>4, <3>5, <3>6 DEF Within, Now
    <3> QED BY <3>1, <3>6, <3>7 DEF MayChange
  <2> QED BY <1>4, <2>1, <2>2
<1> QED BY <1>3, <1>5, <1>6 DEF Now

\* Whoever changes the object was aimed at it, is past the claim, and is aimed at it no more.
LEMMA ChangeSpends ==
  ASSUME EffectInv, NEW r \in Slots, Change(r), Current(r).arg \in scenario.touched, NEW t, t = slot'[r]
  PROVE  Eager(r) /\ ~Aimed(t, scenario.touched)
<1> DEFINE s == slot[r]
           h == Height(s)
           T == scenario.touched
<1>0. FlowInv /\ IInv /\ T \in Targets
  BY DEF EffectInv, FlowInv, IInv, Globals, Targets
<1>1. At(r, {"Write"})
  BY DEF Change
<1>2. /\ Stacked(s) /\ s.frames # <<>> /\ s.st = "run" /\ ~Ended(Top(s)) /\ Top(s).val \in Val
      /\ Up(s) = Frm(s, h) /\ Up(s) = Top(s)
  BY <1>0, <1>1, AtWalk
<1>3. h \in Nat \ {0} /\ 1 \in 1 .. h /\ h \in 1 .. h
  BY <1>2, FrmTyped
<1>4. \A d \in 1 .. h :
        /\ MayChange(Now(Frm(s, d)), T)
        /\ Frm(s, d).code \in Codes /\ Frm(s, d).pc \in DOMAIN Frm(s, d).code.steps
        /\ Now(Frm(s, d)) = Frm(s, d).code.steps[Frm(s, d).pc]
  BY ChangerNow
<1>5. \A d \in 1 .. h : Frm(s, d).pc \in Nat
  BY <1>2, FrmTyped
<1>6. Aimed(s, T)
  <2>1. From(s, h) = Frm(s, h).pc /\ Frm(s, h).pc \in Nat
    BY <1>2, <1>3, <1>5 DEF From
  <2>2. From(s, h) <= Frm(s, h).pc
    BY <2>1
  <2> QED BY <1>3, <1>4, <2>2 DEF Aimed
<1>7. ~Waiting(s)
  <2> DEFINE f == Frm(s, 1)
  <2> SUFFICES ASSUME NEW i \in DOMAIN f.code.steps, f.pc <= i, StrictAt(f.code, i) PROVE FALSE
    BY DEF Waiting
  <2>1. f.code \in Codes /\ f.pc \in DOMAIN f.code.steps /\ MayChange(f.code.steps[f.pc], T)
    BY <1>3, <1>4
  <2> HIDE DEF f
  <2>2. f.code.steps[i].op = "Claim"
    BY DEF StrictAt, Claim, Op
  <2>3. f.pc # i
    <3>1. "Claim" \notin Reads
      BY DEF Reads, Propagating, Recorded, Surviving
    <3> QED BY <2>1, <2>2, <3>1 DEF MayChange, Calls
  <2>4. f.pc < i
    BY <2>1, <2>3, CodeDomain
  <2>5. PICK p \in DOMAIN Prog : f.code = Prog[p]
    BY <2>1 DEF Codes
  <2>6. \A j \in DOMAIN Prog[p].steps : j < i => ~MayChange(Prog[p].steps[j], T)
    BY <1>0, <2>5, KeyAssumption DEF StrictAt
  <2> QED BY <2>1, <2>4, <2>5, <2>6
<1>8. ASSUME NEW d \in 1 .. h, NEW i \in DOMAIN Frm(s, d).code.steps, Frm(s, d).pc + 1 <= i,
             MayChange(Frm(s, d).code.steps[i], T)
      PROVE  FALSE
  <2> DEFINE f == Frm(s, d)
  <2>1. f.code \in Codes /\ f.pc \in DOMAIN f.code.steps /\ MayChange(f.code.steps[f.pc], T) /\ f.pc \in Nat
    BY <1>4, <1>5
  <2>2. MayChange(f.code.steps[i], T) /\ f.pc + 1 <= i /\ i \in DOMAIN f.code.steps
    BY <1>8
  <2> HIDE DEF f
  <2>3. PICK p \in DOMAIN Prog : f.code = Prog[p]
    BY <2>1 DEF Codes
  <2>4. OneChange(Prog[p], T)
    BY <1>0, KeyAssumption
  <2>5. f.pc = i
    BY <2>1, <2>2, <2>3, <2>4 DEF OneChange
  <2>6. i \in Nat
    BY <2>1, <2>2, CodeDomain
  <2> QED BY <2>2, <2>5, <2>6
<1>9. CASE Become(r, Raise(s))
  <2>1. t = Raise(s) /\ t.st = "raise" /\ t.frames = s.frames
    BY <1>0, <1>2, <1>9, BecomeWalk DEF Raise, Stacked, Handler
  <2>2. Height(t) = h /\ \A d : Frm(t, d) = Frm(s, d)
    BY <2>1 DEF Height, Frm
  <2>3. \A d : From(t, d) = Frm(s, d).pc + 1
    BY <2>1, <2>2 DEF From
  <2> HIDE DEF h, T, s
  <2>4. ~Aimed(t, T)
    BY <1>8, <2>2, <2>3 DEF Aimed
  <2> QED BY <1>2, <1>6, <1>7, <2>4 DEF Eager, Entitled, s, T
<1>10. CASE Become(r, Onward(s))
  <2>1. t = Onward(s)
    BY <1>0, <1>10, BecomeWalk
  <2>2. Past(s, t, h)
    BY <1>2, <2>1, OnWalk DEF Onward
  <2>3. /\ t.st = "run" /\ Height(t) = h /\ Frm(t, h).code = Frm(s, h).code /\ Frm(t, h).pc = Frm(s, h).pc + 1
        /\ \A d \in 1 .. h - 1 : Frm(t, d) = Frm(s, d)
    BY <2>2 DEF Past, Under
  <2>4. \A d \in 1 .. h : (d \in 1 .. h - 1 /\ d # h) \/ d = h
    BY <1>3
  <2>5. \A d \in 1 .. h : From(t, d) = Frm(s, d).pc + 1 /\ Frm(t, d).code = Frm(s, d).code
    BY <2>3, <2>4 DEF From
  <2> HIDE DEF h, T, s
  <2>6. ~Aimed(t, T)
    BY <1>8, <2>3, <2>5 DEF Aimed
  <2> QED BY <1>2, <1>6, <1>7, <2>6 DEF Eager, Entitled, s, T
<1> QED BY <1>9, <1>10 DEF Change

\* A handler passes the claim only when it is the first.
LEMMA WaitingStep ==
  ASSUME EffectInv, Pressing, NEW r \in Slots, Step(r), ~Begin(r), NEW t, t = slot'[r], t.st # "idle",
         Waiting(slot[r]), ~Waiting(t)
  PROVE  claim.st = "absent" /\ claim'.st # "absent" /\ effects' = effects
<1> DEFINE s == slot[r]
           f == Frm(s, 1)
<1>0. FlowInv /\ IInv /\ Stacked(s) /\ s.frames # <<>> /\ s.st # "idle" /\ Walk(r, s, t)
  BY StepWorks, WalkNext DEF EffectInv, FlowInv
<1>1. Height(s) \in Nat \ {0} /\ Height(t) \in Nat \ {0} /\ 1 \in 1 .. Height(t)
  <2>1. Height(s) \in Nat \ {0} /\ Height(t) \in Nat \ {0}
    BY <1>0, WalkFrames
  <2> QED BY <2>1
<1>2. PICK i \in DOMAIN f.code.steps : f.pc <= i /\ StrictAt(f.code, i)
  BY DEF Waiting
<1>3. 1 = Height(t) /\ Past(s, t, 1)
  <2>1. Frm(t, 1) # f
    BY DEF Waiting
  <2>2. ~(1 = Height(t) /\ Deeper(s, t))
    BY <1>1 DEF Deeper
  <2> QED BY <1>0, <1>1, <2>1, <2>2, WalkFrames
<1>4. /\ t.st = "run" /\ 1 \in 1 .. Height(s) /\ f.pc \in 1 .. Len(f.code.steps)
      /\ Frm(t, 1).code = f.code /\ Frm(t, 1).pc = f.pc + 1
  BY <1>3 DEF Past
<1>5. f.code \in Codes
  BY <1>0, <1>4, FrmTyped
<1>6. i = f.pc
  <2>1. ~(f.pc + 1 <= i)
    BY <1>2, <1>4 DEF Waiting
  <2>2. i \in Nat /\ f.pc \in Nat
    BY <1>2, <1>4, <1>5, CodeDomain
  <2> HIDE DEF f
  <2> QED BY <1>2, <2>1, <2>2
<1>7. Now(f) \in {Claim("conflict"), Claim("exact")}
  BY <1>2, <1>6 DEF StrictAt, Now
<1>8. Now(f).op = "Claim" /\ Now(f).arg \in {"conflict", "exact"}
  BY <1>7 DEF Claim, Op
<1>9. Height(s) = 1
  <2>1. "Claim" \notin Reads
    BY DEF Reads, Propagating, Recorded, Surviving
  <2>2. 1 \notin 1 .. Height(s) - 1
    BY <1>0, <1>8, <2>1, FrmTyped
  <2> QED BY <1>1, <1>4, <2>2
<1>10. f = Up(s)
  BY <1>9 DEF Up
<1>11. s.st = "run"
  <2>1. ~Sunk(s, t) /\ ~Gone(r, s, t) /\ ~Deeper(s, t) /\ ~Resumed(r, s, t)
    BY <1>3, <1>4, <1>9 DEF Sunk, Gone, Deeper, Resumed, Past
  <2>2. Stepped(r, s, t)
    BY <1>0, <2>1 DEF Walk
  <2> QED BY <2>2 DEF Stepped
<1>12. claimIdempotencyKey(r)
  BY <1>0, <1>4, <1>8, <1>10, <1>11, ActionAt
<1>13. scenario.req[r].keyed
  <2>1. scenario.req[r].runs > 0
    BY <1>0 DEF EffectInv, EffectPart, Resting
  <2> QED BY <2>1 DEF Pressing
<1>14. Current(r) = Now(f)
  <2>1. Up(s) = Top(s)
    BY <1>0, FrmTyped
  <2> QED BY <1>10, <2>1 DEF Current, Awaits, Now
<1>15. ~Become(r, Deny(s)) /\ ~Become(r, Answer(s, "dup", Blank))
  <2>1. Deny(s).st = "idle" /\ Answer(s, "dup", Blank).st = "idle"
    BY <1>0 DEF Deny, Answer, Stacked, Handler
  <2> QED BY <1>0, <2>1, BecomeWalk
<1>16. effects' = effects
  BY <1>12 DEF claimIdempotencyKey
<1>17. claim.st = "absent" /\ claim'.st # "absent"
  BY <1>8, <1>12, <1>13, <1>14, <1>15 DEF claimIdempotencyKey
<1> QED BY <1>16, <1>17

\* Effects are made by changes of the object only.
LEMMA EffectsBy ==
  ASSUME NEW r \in Slots, Step(r)
  PROVE  effects' = effects \/ (Change(r) /\ Current(r).arg \in scenario.touched /\ effects' = effects + 1)
  BY DEF Step, Begin, Admit, requireRole, ScopeOfNobody, namespaceVisible, Project, cacheGet, cacheSet,
         AnswerNothing, cacheDel, deletePattern, Call, Return, Fetch, FetchFails, VerdictFails, Catch, Change,
         claimIdempotencyKey, fulfillIdempotencyKey, Lifecycle

LEMMA EagerStays ==
  ASSUME NEW q \in Slots, scenario' = scenario, slot'[q] = slot[q]
  PROVE  (Entitled(q)' <=> Entitled(q)) /\ (Eager(q)' <=> Eager(q))
<1>1. Entitled(q)' <=> Entitled(q)
  BY DEF Entitled, Waiting, StrictAt, Frm, Height
<1>2. Aimed(slot[q], scenario.touched)' <=> Aimed(slot[q], scenario.touched)
  BY DEF Aimed, From, Frm, Height
<1> QED BY <1>1, <1>2 DEF Eager

LEMMA KeyedStep ==
  ASSUME KeyedInv, NEW r \in Slots, Step(r), ~Begin(r)
  PROVE  KeyedPart'
<1>0. EffectInv /\ FlowInv /\ IInv /\ effects \in Nat
  BY DEF KeyedInv, EffectInv, FlowInv, IInv, Globals
<1>1. scenario' = scenario /\ \A q \in Slots : q # r => slot'[q] = slot[q]
  BY <1>0, OthersStay
<1> SUFFICES ASSUME Pressing, NEW t, t = slot'[r]
             PROVE  /\ \A q \in Slots : Entitled(q)' => claim'.st # "absent"
                    /\ effects' > 0 => claim'.st # "absent"
                    /\ effects' <= 1
                    /\ \A q \in Slots : Eager(q)' => effects' = 0
                    /\ \A q, p \in Slots : Eager(q)' /\ Eager(p)' => p = q
  <2>1. Pressing' => Pressing
    BY <1>1 DEF Pressing, Program
  <2> QED BY <2>1 DEF KeyedPart
<1>2. /\ \A q \in Slots : Entitled(q) => claim.st # "absent"
      /\ effects > 0 => claim.st # "absent"
      /\ effects <= 1
      /\ \A q \in Slots : Eager(q) => effects = 0
      /\ \A q, p \in Slots : Eager(q) /\ Eager(p) => p = q
  BY DEF KeyedInv, KeyedPart
<1>3. claim.st # "absent" => claim'.st # "absent"
  BY <1>0, EffectsGrow, SomeStep
<1>4. /\ Entitled(r)' <=> t.st # "idle" /\ ~Waiting(t)
      /\ Eager(r)' <=> Entitled(r)' /\ Aimed(t, scenario.touched)
  BY <1>1 DEF Entitled, Eager, Waiting, Aimed, From, StrictAt, MayChange, Frm, Height
<1>5. \A q \in Slots : q # r => (Entitled(q)' <=> Entitled(q)) /\ (Eager(q)' <=> Eager(q))
  BY <1>1, EagerStays
<1>6. Entitled(r)' => Entitled(r) \/ (claim.st = "absent" /\ claim'.st # "absent" /\ effects' = effects)
  <2>1. slot[r].st # "idle"
    BY <1>0, StepWorks
  <2> QED BY <1>0, <1>4, <2>1, WaitingStep DEF Entitled
<1>7. t.st # "idle" /\ Aimed(t, scenario.touched) => Aimed(slot[r], scenario.touched)
  <2>1. Stacked(slot[r]) /\ slot[r].frames # <<>> /\ Walk(r, slot[r], t)
    BY <1>0, StepWorks, WalkNext
  <2> QED BY <2>1, AimedBack
<1>8. effects' = effects \/ (effects' = effects + 1 /\ Eager(r) /\ ~Eager(r)')
  BY <1>0, <1>4, EffectsBy, ChangeSpends
<1>9. Eager(r)' => Eager(r) \/ (claim.st = "absent" /\ claim'.st # "absent" /\ effects' = effects)
  BY <1>4, <1>6, <1>7 DEF Eager
<1>10. Eager(r) => Entitled(r)
  BY DEF Eager
<1>11. CASE effects' = effects /\ claim.st = "absent"
  <2>1. effects = 0 /\ \A q \in Slots : q # r => ~Entitled(q)' /\ ~Eager(q)'
    BY <1>0, <1>2, <1>5, <1>11 DEF Eager
  <2>2. Entitled(r)' => claim'.st # "absent"
    BY <1>2, <1>6, <1>11
  <2> QED BY <1>11, <2>1, <2>2
<1>12. CASE effects' = effects /\ claim.st # "absent"
  <2>1. \A q \in Slots : Eager(q)' => Eager(q)
    BY <1>5, <1>9, <1>12
  <2> QED BY <1>2, <1>3, <1>12, <2>1
<1>13. CASE effects' = effects + 1 /\ Eager(r) /\ ~Eager(r)'
  <2>1. effects = 0 /\ claim'.st # "absent" /\ \A q \in Slots : q # r => ~Eager(q)
    BY <1>2, <1>3, <1>10, <1>13
  <2>2. \A q \in Slots : ~Eager(q)'
    BY <1>5, <1>13, <2>1
  <2> QED BY <1>13, <2>1, <2>2
<1> QED BY <1>8, <1>11, <1>12, <1>13

LEMMA BeginKeyed ==
  ASSUME KeyedInv, NEW r \in Slots, Begin(r)
  PROVE  KeyedPart'
<1>0. IInv /\ EffectInv
  BY DEF KeyedInv, EffectInv, FlowInv
<1>1. PICK t : t = slot'[r]
  OBVIOUS
<1>2. /\ Frm(t, 1) = Frame(Program(r)) /\ slot[r].runs > 0
      /\ Program(r) \in DOMAIN Prog /\ Prog[Program(r)] \in Codes
      /\ Frame(Program(r)).pc = 1 /\ Frame(Program(r)).code = Prog[Program(r)]
      /\ UNCHANGED <<scenario, claim, effects>>
      /\ \A q \in Slots : q # r => slot'[q] = slot[q]
  BY <1>0, <1>1, BeginShape
<1>3. Pressing' => Pressing
  BY <1>2 DEF Pressing, Program
<1>4. Pressing => ~Entitled(r)'
  <2> SUFFICES ASSUME Pressing PROVE Waiting(t)
    BY <1>1 DEF Entitled, Waiting, Frm, Height, StrictAt
  <2>1. scenario.req[r].runs > 0
    BY <1>0, <1>2 DEF EffectInv, EffectPart, Resting
  <2>2. PICK i \in DOMAIN Prog[Program(r)].steps : Prog[Program(r)].steps[i] \in {Claim("conflict"), Claim("exact")}
    BY <2>1 DEF Pressing, Strict
  <2>3. 1 <= i
    BY <1>2, CodeDomain
  <2> QED BY <1>2, <2>2, <2>3 DEF Waiting, StrictAt
<1>5. \A q \in Slots : q # r => (Entitled(q)' <=> Entitled(q)) /\ (Eager(q)' <=> Eager(q))
  BY <1>2, EagerStays
<1>6. ~Entitled(r)' => ~Eager(r)'
  BY DEF Eager
<1> QED BY <1>2, <1>3, <1>4, <1>5, <1>6 DEF KeyedInv, KeyedPart

LEMMA AsideKeyed ==
  ASSUME KeyedInv, Expire \/ CommandFails \/ Connect \/ UNCHANGED vars
  PROVE  KeyedPart'
<1>1. UNCHANGED <<scenario, slot, claim, effects>>
  BY AsideShape
<1>2. Pressing' => Pressing
  BY <1>1 DEF Pressing, Program
<1>3. \A q \in Slots : (Entitled(q)' <=> Entitled(q)) /\ (Eager(q)' <=> Eager(q))
  BY <1>1 DEF Entitled, Eager, Waiting, Aimed, From, StrictAt, MayChange, Frm, Height
<1> QED BY <1>1, <1>2, <1>3 DEF KeyedInv, KeyedPart

LEMMA CrashKeyed ==
  ASSUME KeyedInv, Crash
  PROVE  KeyedPart'
<1>0. IInv
  BY DEF KeyedInv, EffectInv, FlowInv
<1>1. UNCHANGED <<scenario, claim, effects>>
  BY <1>0, CrashShape
<1>2. Pressing' => Pressing
  BY <1>1 DEF Pressing, Program
<1>3. \A q \in Slots : slot'[q].st = "idle"
  BY <1>0, CrashShape
<1>4. \A q \in Slots : ~Entitled(q)' /\ ~Eager(q)'
  BY <1>3 DEF Entitled, Eager
<1> QED BY <1>1, <1>2, <1>4 DEF KeyedInv, KeyedPart

LEMMA KeyedInit == Init => KeyedInv
<1> SUFFICES ASSUME Init PROVE KeyedInv
  OBVIOUS
<1>1. EffectInv
  BY EffectInit
<1>2. \A r \in Slots : ~Entitled(r) /\ ~Eager(r)
  BY InitShape DEF Entitled, Eager
<1>3. effects = 0
  BY DEF Init
<1> QED BY <1>1, <1>2, <1>3 DEF KeyedInv, KeyedPart

LEMMA KeyedNext == KeyedInv /\ [Next]_vars => KeyedInv'
<1> SUFFICES ASSUME KeyedInv, [Next]_vars PROVE KeyedInv'
  OBVIOUS
<1>1. EffectInv'
  BY EffectNext DEF KeyedInv
<1>2. ASSUME NEW r \in Slots, Step(r) PROVE KeyedPart'
  BY <1>2, BeginKeyed, KeyedStep
<1>3. KeyedPart'
  BY <1>2, AsideKeyed, CrashKeyed DEF Next
<1> QED BY <1>1, <1>3 DEF KeyedInv

\* However often a request with one key is retried, and wherever the process dies:
\* when all who run bear the key and their route refuses a key that is pending, the
\* object is changed at most once.
THEOREM KeysChangeOnce == Spec => []KeyedOnce
<1>1. KeyedInv => KeyedOnce
  BY DEF KeyedInv, KeyedPart, KeyedOnce, Pressing
<1> QED BY <1>1, KeyedInit, KeyedNext, PTL DEF Spec

-----------------------------------------------------------------------------
(* What answers show.  A frame's value keeps the bounds its steps so far   *)
(* give it (the rules of ScopeFlow): Held are the bounds that no scope has *)
(* a part in, HeldIn those by the scope A of the request.  The latter hold *)
(* of a frame that runs, and of one that waits for a program which leaves  *)
(* the scope alone; where a frame waits for such a program, nothing above  *)
(* it resolves the scope.                                                  *)
Shown(a, A, p, v) ==
  /\ p \in Own => v.shows \subseteq {a}
  /\ p \in Seen => v.shows \subseteq A
  /\ p \in Full => v.lost \/ Areas \subseteq v.shows
  /\ p \in Covering => v.lost \/ A \subseteq v.shows

Held(a, f) ==
  /\ EmptyBefore(f.code, f.pc) => f.val.shows = {}
  /\ OwnBefore(f.code, f.pc) => f.val.shows \subseteq {a}
  /\ FullBefore(f.code, f.pc) => f.val.lost \/ Areas \subseteq f.val.shows

HeldIn(a, f, A) ==
  /\ SeenBefore(f.code, f.pc) => f.val.shows \subseteq A
  /\ GatedBefore(f.code, f.pc) => a \in A
  /\ CoveringBefore(f.code, f.pc) => f.val.lost \/ A \subseteq f.val.shows

Holding(a, s) ==
  \A d \in 1 .. Height(s) :
    /\ Held(a, Frm(s, d))
    /\ (d = Height(s) /\ s.st = "run") \/ ~Rescopes(Now(Frm(s, d))) => HeldIn(a, Frm(s, d), s.scope)

Sheltered(s) ==
  \A d, e \in 1 .. Height(s) :
    d < e /\ ~Rescopes(Now(Frm(s, d))) => \A i \in DOMAIN Frm(s, e).code.steps : ~Rescopes(Frm(s, e).code.steps[i])

Showing(r, s) ==
  /\ Holding(Area(r), s) /\ Sheltered(s)
  /\ s.kind = "ok" => Shown(Area(r), s.scope, Program(r), s.val)

EntryShown(e) ==
  /\ e.key \in Scoped => e.val.shows \subseteq e.dim.seen
  /\ e.key \in OwnKeys => e.val.shows \subseteq {e.dim.area}
  /\ e.key \in FullKeys => e.val.lost \/ Areas \subseteq e.val.shows
  /\ e.key \in CoveringKeys => e.val.lost \/ e.dim.seen \subseteq e.val.shows

ScopePart == (\A r \in Slots : Showing(r, slot[r])) /\ \A e \in cache : EntryShown(e)
ScopeInv == EffectInv /\ ScopePart

-----------------------------------------------------------------------------
(* The rules of ScopeFlow, step by step.                                   *)
LEMMA ShownNext ==
  ASSUME NEW c \in Codes, NEW n \in 1 .. Len(c.steps), NEW x, x = c.steps[n]
  PROVE  /\ EmptyBefore(c, n + 1) => EmptyBefore(c, n) /\ EmptyStep(x)
         /\ OwnBefore(c, n + 1) => OwnBefore(c, n) /\ OwnStep(x)
         /\ GatedBefore(c, n + 1) => x.op = "Gate" \/ (GatedBefore(c, n) /\ ~Rescopes(x))
         /\ SeenBefore(c, n + 1) => EmptyBefore(c, n + 1) \/ x.op = "Filter" \/ (SeenBefore(c, n) /\ SeenStep(x))
         /\ FullBefore(c, n + 1) => BringsAll(x) \/ (FullBefore(c, n) /\ x.op # "Filter")
         /\ CoveringBefore(c, n + 1) =>
              \/ FullBefore(c, n + 1) \/ (x.op = "Filter" /\ FullBefore(c, n))
              \/ BringsScope(x) \/ (CoveringBefore(c, n) /\ ~Rescopes(x))
<1>1. DOMAIN c.steps = 1 .. Len(c.steps) /\ Len(c.steps) \in Nat
  BY CodeDomain
<1>2. \A i \in DOMAIN c.steps : (i < n + 1 <=> i < n \/ i = n) /\ (i < n => i < n + 1)
  BY <1>1
<1>3. n \in DOMAIN c.steps /\ n < n + 1
  BY <1>1
<1>4. EmptyBefore(c, n + 1) => EmptyBefore(c, n) /\ EmptyStep(x)
  BY <1>2, <1>3 DEF EmptyBefore
<1>5. OwnBefore(c, n + 1) => OwnBefore(c, n) /\ OwnStep(x)
  BY <1>2, <1>3 DEF OwnBefore
<1>6. GatedBefore(c, n + 1) => x.op = "Gate" \/ (GatedBefore(c, n) /\ ~Rescopes(x))
  BY <1>2, <1>3 DEF GatedBefore
<1>7. FullBefore(c, n + 1) => BringsAll(x) \/ (FullBefore(c, n) /\ x.op # "Filter")
  BY <1>2, <1>3 DEF FullBefore
<1>8. SeenBefore(c, n + 1) => EmptyBefore(c, n + 1) \/ x.op = "Filter" \/ (SeenBefore(c, n) /\ SeenStep(x))
  <2> SUFFICES ASSUME SeenBefore(c, n + 1), ~EmptyBefore(c, n + 1), x.op # "Filter"
               PROVE  SeenBefore(c, n) /\ SeenStep(x)
    OBVIOUS
  <2>1. PICK j \in DOMAIN c.steps :
               /\ j < n + 1 /\ (c.steps[j].op = "Filter" \/ EmptyBefore(c, j + 1))
               /\ \A i \in DOMAIN c.steps : j < i /\ i < n + 1 => SeenStep(c.steps[i])
    BY DEF SeenBefore
  <2>2. j < n
    BY <1>2, <2>1
  <2> QED BY <1>2, <1>3, <2>1, <2>2 DEF SeenBefore
<1>9. CoveringBefore(c, n + 1) =>
        \/ FullBefore(c, n + 1) \/ (x.op = "Filter" /\ FullBefore(c, n))
        \/ BringsScope(x) \/ (CoveringBefore(c, n) /\ ~Rescopes(x))
  <2> SUFFICES ASSUME CoveringBefore(c, n + 1), ~FullBefore(c, n + 1), ~(x.op = "Filter" /\ FullBefore(c, n)), ~BringsScope(x)
               PROVE  CoveringBefore(c, n) /\ ~Rescopes(x)
    OBVIOUS
  <2>1. PICK j \in DOMAIN c.steps :
               /\ j < n + 1 /\ ((c.steps[j].op = "Filter" /\ FullBefore(c, j)) \/ BringsScope(c.steps[j]))
               /\ \A i \in DOMAIN c.steps : j < i /\ i < n + 1 => ~Rescopes(c.steps[i])
    BY DEF CoveringBefore
  <2>2. j < n
    BY <1>2, <2>1
  <2> QED BY <1>2, <1>3, <2>1, <2>2 DEF CoveringBefore
<1> QED BY <1>4, <1>5, <1>6, <1>7, <1>8, <1>9

LEMMA ShownFirst ==
  ASSUME NEW c \in Codes
  PROVE  EmptyBefore(c, 1) /\ ~GatedBefore(c, 1) /\ ~FullBefore(c, 1) /\ ~CoveringBefore(c, 1)
<1>1. \A i \in DOMAIN c.steps : ~(i < 1)
  BY CodeDomain
<1>2. EmptyBefore(c, 1) /\ ~GatedBefore(c, 1) /\ ~FullBefore(c, 1)
  BY <1>1 DEF EmptyBefore, GatedBefore, FullBefore
<1> QED BY <1>1, <1>2 DEF CoveringBefore

LEMMA ShownLast ==
  ASSUME NEW c \in Codes, NEW n \in Nat, n > Len(c.steps)
  PROVE  LET m == Len(c.steps) + 1 IN
         /\ OwnBefore(c, m) => OwnBefore(c, n)
         /\ GatedBefore(c, m) => GatedBefore(c, n)
         /\ SeenBefore(c, m) => SeenBefore(c, n)
         /\ FullBefore(c, m) => FullBefore(c, n)
         /\ CoveringBefore(c, m) => CoveringBefore(c, n)
<1> DEFINE m == Len(c.steps) + 1
<1>1. \A i \in DOMAIN c.steps : i < n /\ i < m
  BY CodeDomain
<1> HIDE DEF m
<1>2. EmptyBefore(c, m) => EmptyBefore(c, n)
  BY <1>1 DEF EmptyBefore
<1>3. OwnBefore(c, m) => OwnBefore(c, n)
  BY <1>1 DEF OwnBefore
<1>4. GatedBefore(c, m) => GatedBefore(c, n)
  BY <1>1 DEF GatedBefore
<1>5. FullBefore(c, m) => FullBefore(c, n)
  BY <1>1 DEF FullBefore
<1>6. SeenBefore(c, m) => SeenBefore(c, n)
  BY <1>1, <1>2 DEF SeenBefore
<1>7. CoveringBefore(c, m) => CoveringBefore(c, n)
  BY <1>1, <1>5 DEF CoveringBefore
<1> QED BY <1>3, <1>4, <1>5, <1>6, <1>7 DEF m

\* What a step x other than a filter may make of a value v: w, under the scope A.
Grows(a, x, v, w, A) ==
  /\ v.lost => w.lost
  /\ v.shows \subseteq w.shows
  /\ EmptyStep(x) => w.shows \subseteq v.shows
  /\ OwnStep(x) => w.shows \subseteq v.shows \cup {a}
  /\ SeenStep(x) => w.shows \subseteq v.shows \cup A
  /\ BringsAll(x) => w.lost \/ Areas \subseteq w.shows
  /\ BringsScope(x) => w.lost \/ A \subseteq w.shows

LEMMA GrowKeeps ==
  ASSUME NEW f, NEW g, f.code \in Codes, f.pc \in 1 .. Len(f.code.steps), g.code = f.code, g.pc = f.pc + 1,
         NEW a, NEW A, A \subseteq Areas, Held(a, f), ~Rescopes(Now(f)) => HeldIn(a, f, A),
         Now(f).op # "Filter", Now(f).op = "Gate" => a \in A, Grows(a, Now(f), f.val, g.val, A)
  PROVE  Held(a, g) /\ HeldIn(a, g, A)
<1> DEFINE c == f.code
           n == f.pc
           x == Now(f)
           v == f.val
           w == g.val
<1>0. x = c.steps[n] /\ c \in Codes /\ n \in 1 .. Len(c.steps)
  BY DEF Now
<1>1. /\ EmptyBefore(c, n) => v.shows = {}
      /\ OwnBefore(c, n) => v.shows \subseteq {a}
      /\ FullBefore(c, n) => v.lost \/ Areas \subseteq v.shows
  BY DEF Held
<1>2. ~Rescopes(x) =>
        /\ SeenBefore(c, n) => v.shows \subseteq A
        /\ GatedBefore(c, n) => a \in A
        /\ CoveringBefore(c, n) => v.lost \/ A \subseteq v.shows
  BY DEF HeldIn
<1>3. /\ v.lost => w.lost
      /\ v.shows \subseteq w.shows
      /\ EmptyStep(x) => w.shows \subseteq v.shows
      /\ OwnStep(x) => w.shows \subseteq v.shows \cup {a}
      /\ SeenStep(x) => w.shows \subseteq v.shows \cup A
      /\ BringsAll(x) => w.lost \/ Areas \subseteq w.shows
      /\ BringsScope(x) => w.lost \/ A \subseteq w.shows
  BY DEF Grows
<1>4. /\ Held(a, g) <=> /\ EmptyBefore(c, n + 1) => w.shows = {}
                        /\ OwnBefore(c, n + 1) => w.shows \subseteq {a}
                        /\ FullBefore(c, n + 1) => w.lost \/ Areas \subseteq w.shows
      /\ HeldIn(a, g, A) <=> /\ SeenBefore(c, n + 1) => w.shows \subseteq A
                             /\ GatedBefore(c, n + 1) => a \in A
                             /\ CoveringBefore(c, n + 1) => w.lost \/ A \subseteq w.shows
  BY DEF Held, HeldIn
<1> HIDE DEF c, n, x, v, w
<1>5. EmptyBefore(c, n + 1) => w.shows = {}
  BY <1>0, <1>1, <1>3, ShownNext
<1>6. OwnBefore(c, n + 1) => w.shows \subseteq {a}
  BY <1>0, <1>1, <1>3, ShownNext
<1>7. FullBefore(c, n + 1) => w.lost \/ Areas \subseteq w.shows
  BY <1>0, <1>1, <1>3, ShownNext
<1>8. SeenBefore(c, n + 1) => w.shows \subseteq A
  <2>1. SeenStep(x) => ~Rescopes(x)
    BY DEF SeenStep
  <2>2. SeenBefore(c, n + 1) => EmptyBefore(c, n + 1) \/ (SeenBefore(c, n) /\ SeenStep(x))
    BY <1>0, ShownNext DEF x
  <2> QED BY <1>2, <1>3, <1>5, <2>1, <2>2
<1>9. GatedBefore(c, n + 1) => a \in A
  <2>1. GatedBefore(c, n + 1) => x.op = "Gate" \/ (GatedBefore(c, n) /\ ~Rescopes(x))
    BY <1>0, ShownNext
  <2> QED BY <1>2, <2>1 DEF x
<1>10. CoveringBefore(c, n + 1) => w.lost \/ A \subseteq w.shows
  <2>1. CoveringBefore(c, n + 1) => FullBefore(c, n + 1) \/ BringsScope(x) \/ (CoveringBefore(c, n) /\ ~Rescopes(x))
    BY <1>0, ShownNext DEF x
  <2> QED BY <1>2, <1>3, <1>7, <2>1
<1> QED BY <1>4, <1>5, <1>6, <1>7, <1>8, <1>9, <1>10

LEMMA FilterKeeps ==
  ASSUME NEW f, NEW g, f.code \in Codes, f.pc \in 1 .. Len(f.code.steps), g.code = f.code, g.pc = f.pc + 1,
         NEW a, NEW A, A \subseteq Areas, Held(a, f), HeldIn(a, f, A), Now(f).op = "Filter",
         g.val.lost = f.val.lost, g.val.shows = f.val.shows \cap A
  PROVE  Held(a, g) /\ HeldIn(a, g, A)
<1> DEFINE c == f.code
           n == f.pc
           x == Now(f)
           v == f.val
           w == g.val
<1>0. x = c.steps[n] /\ c \in Codes /\ n \in 1 .. Len(c.steps)
  BY DEF Now
<1>1. /\ EmptyBefore(c, n) => v.shows = {}
      /\ OwnBefore(c, n) => v.shows \subseteq {a}
      /\ FullBefore(c, n) => v.lost \/ Areas \subseteq v.shows
  BY DEF Held
<1>2. /\ GatedBefore(c, n) => a \in A
      /\ CoveringBefore(c, n) => v.lost \/ A \subseteq v.shows
  BY DEF HeldIn
<1>3. w.lost = v.lost /\ w.shows = v.shows \cap A /\ x.op = "Filter"
  OBVIOUS
<1>4. /\ Held(a, g) <=> /\ EmptyBefore(c, n + 1) => w.shows = {}
                        /\ OwnBefore(c, n + 1) => w.shows \subseteq {a}
                        /\ FullBefore(c, n + 1) => w.lost \/ Areas \subseteq w.shows
      /\ HeldIn(a, g, A) <=> /\ SeenBefore(c, n + 1) => w.shows \subseteq A
                             /\ GatedBefore(c, n + 1) => a \in A
                             /\ CoveringBefore(c, n + 1) => w.lost \/ A \subseteq w.shows
  BY DEF Held, HeldIn
<1> HIDE DEF c, n, x, v, w
<1>5. ~BringsAll(x) /\ ~BringsScope(x)
  BY <1>3 DEF BringsAll, BringsScope, Brings, Reads, Propagating, Recorded, Surviving
<1>6. EmptyBefore(c, n + 1) => w.shows = {}
  BY <1>0, <1>1, <1>3, ShownNext
<1>7. OwnBefore(c, n + 1) => w.shows \subseteq {a}
  BY <1>0, <1>1, <1>3, ShownNext
<1>8. ~FullBefore(c, n + 1)
  BY <1>0, <1>3, <1>5, ShownNext
<1>9. GatedBefore(c, n + 1) => a \in A
  BY <1>0, <1>2, <1>3, ShownNext
<1>10. CoveringBefore(c, n + 1) => w.lost \/ A \subseteq w.shows
  <2>1. CoveringBefore(c, n + 1) => FullBefore(c, n) \/ CoveringBefore(c, n)
    BY <1>0, <1>5, <1>8, ShownNext
  <2> QED BY <1>1, <1>2, <1>3, <2>1
<1> QED BY <1>3, <1>4, <1>6, <1>7, <1>8, <1>9, <1>10

\* A program that begins shows nothing yet.
LEMMA FrameHolds ==
  ASSUME NEW p \in DOMAIN Prog, NEW a, NEW A
  PROVE  Held(a, Frame(p)) /\ HeldIn(a, Frame(p), A)
<1> DEFINE f == Frame(p)
<1>1. f.code \in Codes /\ f.pc = 1 /\ f.val.shows = {}
  BY BlankTyped DEF Frame, Codes
<1> HIDE DEF f
<1>2. ~GatedBefore(f.code, f.pc) /\ ~FullBefore(f.code, f.pc) /\ ~CoveringBefore(f.code, f.pc)
  BY <1>1, ShownFirst
<1>3. Held(a, f) /\ HeldIn(a, f, A)
  BY <1>1, <1>2 DEF Held, HeldIn
<1> QED BY <1>3 DEF f

-----------------------------------------------------------------------------
(* What reads and programs answer.                                         *)
LEMMA UpstreamShown ==
  ASSUME IInv, NEW r \in Slots, NEW e, NEW v \in Upstream(r, e)
  PROVE  /\ e \in PlainReads => v.shows = {}
         /\ e \in ObjectReads \cup PlainReads => v.shows \subseteq {Area(r)}
         /\ e \notin ObjectReads \cup PlainReads => v.lost \/ Areas \subseteq v.shows
<1> DEFINE S == CASE e \in ObjectReads -> {Area(r)} [] e \in PlainReads -> {} [] OTHER -> Areas
           o == e \in scenario.touched /\ ~written
           whole == [lost |-> FALSE, told |-> FALSE, old |-> o, shows |-> S]
<1>1. v \in {whole} \cup
        (IF e \in Paged /\ faults > 0
         THEN {[whole EXCEPT !.lost = TRUE, !.told = TRUE, !.shows = @ \ {a}] : a \in Areas} ELSE {})
  BY DEF Upstream
<1>2. /\ e \in PlainReads => S = {}
      /\ e \in ObjectReads \cup PlainReads => S \subseteq {Area(r)}
      /\ e \notin ObjectReads \cup PlainReads => S = Areas
  BY ReadsAssumption
<1> HIDE DEF S, o
<1>3. v.shows \subseteq S /\ (v.lost \/ v.shows = S)
  <2>1. CASE v = whole
    BY <2>1
  <2>2. ASSUME NEW a, v = [whole EXCEPT !.lost = TRUE, !.told = TRUE, !.shows = @ \ {a}]
        PROVE  v.shows \subseteq S /\ v.lost
    BY <2>2
  <2> HIDE DEF whole
  <2> QED BY <1>1, <2>1, <2>2
<1> QED BY <1>2, <1>3

\* The parts of a value that an answer is added to.
LEMMA MergeShows ==
  ASSUME NEW w, NEW v, NEW op
  PROVE  /\ Merge(w, v, op).lost = (w.lost \/ v.lost)
         /\ Merge(w, v, op).shows = (IF op = "Each" THEN w.shows ELSE w.shows \cup v.shows)
         /\ Merge(w, v, op).old = (w.old \/ v.old)
  BY Zenon DEF Merge

\* A value that takes an answer within its bounds grows within its bounds.
LEMMA TakesGrows ==
  ASSUME NEW r, NEW s, NEW t, NEW m, NEW v, Takes(r, s, t, m, v), NEW x, x = Now(Frm(s, m)), x.op \in Reads,
         NEW a, NEW A, A = t.scope,
         Brings(x) =>
           /\ EmptyStep(x) => v.shows = {}
           /\ OwnStep(x) => v.shows \subseteq {a}
           /\ SeenStep(x) => v.shows \subseteq A
           /\ BringsAll(x) => v.lost \/ Areas \subseteq v.shows
           /\ BringsScope(x) => v.lost \/ A \subseteq v.shows
  PROVE  Grows(a, x, Frm(s, m).val, Frm(t, m).val, A)
<1> DEFINE w == Frm(s, m).val
           u == Frm(t, m).val
<1>1. BringsAll(x) \/ BringsScope(x) => Brings(x)
  BY DEF BringsAll, BringsScope
<1>2. CASE x.op \in {"Scope", "Fire"}
  <2>1. u = w /\ ~Brings(x)
    BY <1>2 DEF Takes, Brings
  <2> HIDE DEF u, w
  <2> QED BY <1>1, <2>1 DEF Grows, u, w
<1>3. CASE x.op \notin {"Scope", "Fire"}
  <2>1. u = Merge(w, v, x.op)
    BY <1>3 DEF Takes
  <2>2. u.lost = (w.lost \/ v.lost) /\ u.shows = (IF x.op = "Each" THEN w.shows ELSE w.shows \cup v.shows)
    <3> HIDE DEF u, w
    <3>1. /\ Merge(w, v, x.op).lost = (w.lost \/ v.lost)
          /\ Merge(w, v, x.op).shows = (IF x.op = "Each" THEN w.shows ELSE w.shows \cup v.shows)
      BY Zenon DEF Merge
    <3> QED BY <2>1, <3>1, Zenon
  <2>3. Brings(x) <=> x.op # "Each"
    BY <1>3 DEF Brings
  <2> HIDE DEF u, w
  <2>4. (w.lost => u.lost) /\ (v.lost => u.lost)
    BY <2>2, Zenon
  <2> QED BY <1>1, <2>2, <2>3, <2>4 DEF Grows, u, w
<1> QED BY <1>2, <1>3

\* A value that stays, or that an answer is missing from.
LEMMA StaysGrows ==
  ASSUME NEW a, NEW x, NEW A, NEW v, NEW w, w.shows = v.shows, v.lost => w.lost, w.lost \/ ~Brings(x)
  PROVE  Grows(a, x, v, w, A)
  BY DEF Grows, BringsAll, BringsScope

\* What the topmost program answers is bound as the program says.
LEMMA ReturnShown ==
  ASSUME ScopeInv, NEW r \in Slots, slot[r].frames # <<>>, NEW v, Returns(r, slot[r], v),
         NEW p \in DOMAIN Prog, Up(slot[r]).code = Prog[p]
  PROVE  Shown(Area(r), slot[r].scope, p, v)
<1> DEFINE s == slot[r]
           f == Up(s)
           c == f.code
           A == s.scope
           a == Area(r)
           h == Height(s)
<1>0. IInv /\ Stacked(s) /\ Holding(a, s) /\ cache \subseteq Entry
  BY DEF ScopeInv, EffectInv, FlowInv, IInv, Globals, ScopePart, Showing
<1>1. h \in Nat \ {0} /\ h \in 1 .. h /\ f = Frm(s, h) /\ f.pc \in Nat \ {0} /\ c \in Codes /\ f.val \in Val
  BY <1>0, FrmTyped DEF Up
<1>2. Held(a, f) /\ (s.st = "run" => HeldIn(a, f, A))
  BY <1>0, <1>1 DEF Holding
<1>3. DOMAIN c.steps = 1 .. Len(c.steps) /\ Len(c.steps) \in Nat
  BY <1>1, CodeDomain
<1>4. CASE s.st = "run" /\ Ended(f) /\ v = f.val
  <2>1. f.pc > Len(c.steps)
    BY <1>4 DEF Ended
  <2>2. LET m == Len(c.steps) + 1 IN
        /\ OwnBefore(c, m) => OwnBefore(c, f.pc)
        /\ GatedBefore(c, m) => GatedBefore(c, f.pc)
        /\ SeenBefore(c, m) => SeenBefore(c, f.pc)
        /\ FullBefore(c, m) => FullBefore(c, f.pc)
        /\ CoveringBefore(c, m) => CoveringBefore(c, f.pc)
    BY <1>1, <2>1, ShownLast
  <2>3. p \in Own => v.shows \subseteq {a}
    BY <1>2, <1>4, <2>2, ShownAssumption DEF OwnProgram, Held
  <2>4. p \in Seen => v.shows \subseteq A
    <3>1. p \in Seen => SeenBefore(c, f.pc) \/ (OwnBefore(c, f.pc) /\ GatedBefore(c, f.pc))
      BY <2>2, ShownAssumption DEF SeenProgram
    <3> QED BY <1>2, <1>4, <3>1 DEF Held, HeldIn
  <2>5. p \in Full => v.lost \/ Areas \subseteq v.shows
    BY <1>2, <1>4, <2>2, ShownAssumption DEF FullProgram, Held
  <2>6. p \in Covering => v.lost \/ A \subseteq v.shows
    BY <1>2, <1>4, <2>2, ShownAssumption DEF CoveringProgram, HeldIn
  <2> QED BY <2>3, <2>4, <2>5, <2>6 DEF Shown
<1>5. ASSUME s.st = "run", f.pc \in 1 .. Len(c.steps), Now(f).op = "Hit",
             NEW e \in cache, e.key = Now(f).arg, e.dim = KeyOf(r, e.key), v = e.val
      PROVE  Shown(a, A, p, v)
  <2> DEFINE k == e.key
             i == f.pc
  <2>1. i \in DOMAIN Prog[p].steps /\ Prog[p].steps[i].op = "Hit" /\ Prog[p].steps[i].arg = k
    BY <1>3, <1>5 DEF Now
  <2>2. e.val \in Val /\ k \in DOMAIN Dims
    BY <1>0 DEF Entry
  <2>3. e.dim.seen \subseteq A /\ ("scope" \in Dims[k] => e.dim.seen = A) /\ e.dim.area \in {a, None}
    BY <1>5 DEF KeyOf
  <2>4. EntryShown(e)
    BY DEF ScopeInv, ScopePart
  <2>5. k \in OwnKeys => v.shows \subseteq {a}
    <3>1. k \in OwnKeys => v.shows \subseteq {a, None}
      BY <1>5, <2>3, <2>4 DEF EntryShown
    <3>2. v.shows \subseteq Areas
      BY <1>5, <2>2 DEF Val
    <3> QED BY <2>3, <2>4, <3>1, <3>2, ReadsAssumption
  <2>6. p \in Own => k \in OwnKeys
    BY <2>1, ShownAssumption DEF OwnProgram, HitsIn
  <2>7. p \in Seen => k \in Scoped \/ (k \in OwnKeys /\ GatedBefore(c, i))
    BY <2>1, ShownAssumption DEF SeenProgram
  <2>8. GatedBefore(c, i) => a \in A
    BY <1>2, <1>5 DEF HeldIn
  <2>9. p \in Full => k \in FullKeys
    BY <2>1, ShownAssumption DEF FullProgram, HitsIn
  <2>10. p \in Covering => k \in CoveringKeys
    BY <2>1, ShownAssumption DEF CoveringProgram, HitsIn
  <2>11. k \in CoveringKeys => "scope" \in Dims[k]
    BY <2>2, KeptAssumption
  <2>12. p \in Own => v.shows \subseteq {a}
    BY <2>5, <2>6
  <2>13. p \in Seen => v.shows \subseteq A
    BY <1>5, <2>3, <2>4, <2>5, <2>7, <2>8 DEF EntryShown
  <2>14. p \in Full => v.lost \/ Areas \subseteq v.shows
    BY <1>5, <2>4, <2>9 DEF EntryShown
  <2>15. p \in Covering => v.lost \/ A \subseteq v.shows
    BY <1>5, <2>3, <2>4, <2>10, <2>11 DEF EntryShown
  <2> QED BY <2>12, <2>13, <2>14, <2>15 DEF Shown
<1>6. CASE f.pc \in 1 .. Len(c.steps) /\ Now(f).op = "Nothing" /\ A = {} /\ v = Blank
  <2>1. p \notin Full
    BY <1>3, <1>6, ShownAssumption DEF FullProgram, Now
  <2> QED BY <1>6, <2>1, BlankTyped DEF Shown
<1>7. CASE v.lost /\ v.shows = {}
  BY <1>7 DEF Shown
<1> HIDE DEF a, A, c
<1>8. \/ s.st = "run" /\ Ended(f) /\ v = f.val
      \/ /\ s.st = "run" /\ f.pc \in 1 .. Len(f.code.steps) /\ Now(f).op = "Hit"
         /\ \E e \in cache : e.key = Now(f).arg /\ e.dim = KeyOf(r, e.key) /\ v = e.val
      \/ f.pc \in 1 .. Len(f.code.steps) /\ Now(f).op = "Nothing" /\ s.scope = {} /\ v = Blank
      \/ v.lost /\ v.shows = {}
  BY DEF Returns
<1> QED BY <1>4, <1>5, <1>6, <1>7, <1>8 DEF a, A, c

-----------------------------------------------------------------------------
(* One handler moves.                                                      *)

\* A frame that passes its step keeps its bounds, under the scope it passes it with.
LEMMA PastHolds ==
  ASSUME ScopeInv, NEW r \in Slots, slot[r].frames # <<>>, slot[r].st # "idle", NEW t \in Handler,
         NEW m, Past(slot[r], t, m),
         \/ Stepped(r, slot[r], t) /\ m = Height(slot[r])
         \/ Resumed(r, slot[r], t) /\ m = Height(slot[r]) - 1
  PROVE  /\ Held(Area(r), Frm(t, m)) /\ HeldIn(Area(r), Frm(t, m), t.scope)
         /\ ~Rescopes(Now(Frm(slot[r], m))) => t.scope = slot[r].scope
<1> DEFINE s == slot[r]
           h == Height(s)
           f == Frm(s, m)
           g == Frm(t, m)
           x == Now(f)
           a == Area(r)
           A == t.scope
<1>0. FlowInv /\ IInv /\ Stacked(s) /\ Holding(a, s) /\ A \subseteq Areas /\ s.scope \subseteq Areas
  BY DEF ScopeInv, EffectInv, FlowInv, IInv, ScopePart, Showing, Handler
<1>1. /\ m \in 1 .. h /\ f.pc \in 1 .. Len(f.code.steps) /\ g.code = f.code /\ g.pc = f.pc + 1
  BY DEF Past
<1>2. f.code \in Codes /\ h \in Nat \ {0}
  BY <1>0, <1>1, FrmTyped
<1>3. Held(a, f) /\ ((m = h /\ s.st = "run") \/ ~Rescopes(x) => HeldIn(a, f, s.scope))
  BY <1>0, <1>1 DEF Holding
<1>4. ASSUME A = s.scope \/ Rescopes(x), x.op # "Filter", x.op = "Gate" => a \in A, Grows(a, x, f.val, g.val, A)
      PROVE  Held(a, g) /\ HeldIn(a, g, A)
  <2>1. ~Rescopes(x) => HeldIn(a, f, A)
    BY <1>3, <1>4
  <2> HIDE DEF f, g, a, A
  <2> QED BY <1>0, <1>1, <1>2, <1>3, <1>4, <2>1, GrowKeeps DEF x
<1>5. x.op = "Scope" => Rescopes(x)
  BY DEF Rescopes
<1>6. "Filter" \notin Reads /\ "Gate" \notin Reads /\ "Hush" \notin Reads /\ Surviving \subseteq Reads /\ "Scope" \notin Surviving
  BY DEF Reads, Propagating, Recorded, Surviving
<1>7. CASE Stepped(r, s, t) /\ m = h
  <2>1. /\ s.st = "run" /\ x = Now(Up(s)) /\ f = Up(s) /\ g = Up(t)
    BY <1>7 DEF Stepped, Past, Up
  <2>2. CASE x.op \notin Reads \cup {"Filter", "Hush"} /\ g.val = f.val /\ A = s.scope /\ (x.op = "Gate" => a \in s.scope)
    <3>1. ~Brings(x)
      BY <2>2 DEF Brings
    <3>2. Grows(a, x, f.val, g.val, A)
      BY <2>2, <3>1, StaysGrows
    <3> QED BY <1>4, <2>2, <3>2
  <2>3. CASE x.op = "Filter" /\ g.val.lost = f.val.lost /\ g.val.shows = f.val.shows \cap s.scope /\ A = s.scope
    <3>1. HeldIn(a, f, A)
      BY <1>3, <1>7, <2>1, <2>3
    <3>2. g.val.lost = f.val.lost /\ g.val.shows = f.val.shows \cap A /\ Now(f).op = "Filter"
      BY <2>3
    <3> HIDE DEF f, g, a, A
    <3>3. Held(a, g) /\ HeldIn(a, g, A)
      BY <1>0, <1>1, <1>2, <1>3, <3>1, <3>2, FilterKeeps
    <3> QED BY <2>3, <3>3 DEF f, g, a, A
  <2>4. CASE x.op = "Hush" /\ g.val.lost = f.val.lost /\ g.val.shows = f.val.shows /\ A = s.scope
    <3>1. ~Brings(x)
      BY <1>6, <2>4 DEF Brings
    <3>2. Grows(a, x, f.val, g.val, A)
      BY <2>4, <3>1, StaysGrows
    <3> QED BY <1>4, <2>4, <3>2
  <2>5. CASE x.op = "Scope" /\ g.val = f.val
    <3>1. ~Brings(x)
      BY <2>5 DEF Brings
    <3>2. Grows(a, x, f.val, g.val, A)
      BY <2>5, <3>1, StaysGrows
    <3> QED BY <1>4, <1>5, <2>5, <3>2
  <2>6. ASSUME x.op \in Reads, x.arg \notin DOMAIN Prog, NEW v \in Upstream(r, x.arg), Takes(r, s, t, m, v)
        PROVE  Held(a, g) /\ HeldIn(a, g, A) /\ (~Rescopes(x) => A = s.scope)
    <3>1. A = s.scope \/ x.op = "Scope"
      BY <2>6 DEF Takes
    <3>2. /\ x.arg \in PlainReads => v.shows = {}
          /\ x.arg \in ObjectReads \cup PlainReads => v.shows \subseteq {a}
          /\ x.arg \notin ObjectReads \cup PlainReads => v.lost \/ Areas \subseteq v.shows
      BY <1>0, <2>6, UpstreamShown
    <3>3. Brings(x) =>
            /\ EmptyStep(x) => v.shows = {}
            /\ OwnStep(x) => v.shows \subseteq {a}
            /\ SeenStep(x) => v.shows \subseteq A
            /\ BringsAll(x) => v.lost \/ Areas \subseteq v.shows
            /\ BringsScope(x) => v.lost \/ A \subseteq v.shows
      BY <2>6, <3>2 DEF EmptyStep, OwnStep, SeenStep, BringsAll, BringsScope
    <3>4. Grows(a, x, f.val, g.val, A)
      BY <2>6, <3>3, TakesGrows
    <3> QED BY <1>4, <1>5, <1>6, <2>6, <3>1, <3>4
  <2>7. CASE x.op \in Reads /\ Loses(s, t, m)
    <3>1. x.op \in Surviving /\ A = s.scope /\ g.val.lost /\ g.val.shows = f.val.shows
      BY <2>7 DEF Loses
    <3>2. Grows(a, x, f.val, g.val, A)
      BY <3>1, StaysGrows
    <3> QED BY <1>4, <1>6, <2>7, <3>1, <3>2
  <2>8. \/ x.op \notin Reads \cup {"Filter", "Hush"} /\ g.val = f.val /\ A = s.scope /\ (x.op = "Gate" => a \in s.scope)
        \/ x.op = "Filter" /\ g.val.lost = f.val.lost /\ g.val.shows = f.val.shows \cap s.scope /\ A = s.scope
        \/ x.op = "Hush" /\ g.val.lost = f.val.lost /\ g.val.shows = f.val.shows /\ A = s.scope
        \/ x.op = "Scope" /\ g.val = f.val
        \/ x.op \in Reads /\ x.arg \notin DOMAIN Prog /\ \E v \in Upstream(r, x.arg) : Takes(r, s, t, m, v)
        \/ x.op \in Reads /\ Loses(s, t, m)
    BY <1>7, <2>1 DEF Stepped
  <2> HIDE DEF f, g, a, A, x
  <2>9. CASE x.op \notin Reads \cup {"Filter", "Hush"} /\ g.val = f.val /\ A = s.scope /\ (x.op = "Gate" => a \in s.scope)
    BY <2>2, <2>9 DEF f, g, a, A, x
  <2>10. CASE x.op = "Filter" /\ g.val.lost = f.val.lost /\ g.val.shows = f.val.shows \cap s.scope /\ A = s.scope
    BY <2>3, <2>10 DEF f, g, a, A, x
  <2>11. CASE x.op = "Hush" /\ g.val.lost = f.val.lost /\ g.val.shows = f.val.shows /\ A = s.scope
    BY <2>4, <2>11 DEF f, g, a, A, x
  <2>12. CASE x.op = "Scope" /\ g.val = f.val
    BY <1>5, <2>5, <2>12 DEF f, g, a, A, x
  <2>13. CASE x.op \in Reads /\ x.arg \notin DOMAIN Prog /\ \E v \in Upstream(r, x.arg) : Takes(r, s, t, m, v)
    BY <2>6, <2>13 DEF f, g, a, A, x
  <2>14. CASE x.op \in Reads /\ Loses(s, t, m)
    BY <2>7, <2>14 DEF f, g, a, A, x, Loses
  <2> QED BY <2>8, <2>9, <2>10, <2>11, <2>12, <2>13, <2>14
<1>8. CASE Resumed(r, s, t) /\ m = h - 1
  <2>1. m \in 1 .. h - 1 /\ h = m + 1
    BY <1>1, <1>2, <1>8
  <2>2. Calls(x) /\ Up(s).code = Prog[x.arg] /\ x.op \in Reads /\ x.arg \in DOMAIN Prog
    <3>1. Calls(x) /\ Frm(s, m + 1).code = Prog[x.arg]
      BY <1>0, <2>1, LinkedFrames
    <3> QED BY <2>1, <3>1 DEF Calls, Up
  <2>3. ASSUME NEW v, Returns(r, s, v), Takes(r, s, t, m, v)
        PROVE  Held(a, g) /\ HeldIn(a, g, A) /\ (~Rescopes(x) => A = s.scope)
    <3>1. A = s.scope \/ x.op = "Scope"
      BY <2>3 DEF Takes
    <3>2. Shown(a, s.scope, x.arg, v)
      BY <2>2, <2>3, ReturnShown
    <3>3. Brings(x) => A = s.scope
      BY <3>1 DEF Brings
    <3>4. Brings(x) =>
            /\ EmptyStep(x) => v.shows = {}
            /\ OwnStep(x) => v.shows \subseteq {a}
            /\ SeenStep(x) => v.shows \subseteq A
            /\ BringsAll(x) => v.lost \/ Areas \subseteq v.shows
            /\ BringsScope(x) => v.lost \/ A \subseteq v.shows
      BY <2>2, <3>2, <3>3 DEF Shown, EmptyStep, OwnStep, SeenStep, BringsAll, BringsScope
    <3>5. Grows(a, x, f.val, g.val, A)
      BY <2>2, <2>3, <3>4, TakesGrows
    <3> QED BY <1>4, <1>5, <1>6, <2>2, <3>1, <3>5
  <2>4. CASE Loses(s, t, m)
    <3>1. x.op \in Surviving /\ A = s.scope /\ g.val.lost /\ g.val.shows = f.val.shows
      BY <2>4 DEF Loses
    <3>2. Grows(a, x, f.val, g.val, A)
      BY <3>1, StaysGrows
    <3> QED BY <1>4, <1>6, <2>2, <3>1, <3>2
  <2>5. (\E v : Returns(r, s, v) /\ Takes(r, s, t, m, v)) \/ Loses(s, t, m)
    BY <1>8 DEF Resumed
  <2> QED BY <2>3, <2>4, <2>5
<1> QED BY <1>7, <1>8

-----------------------------------------------------------------------------
LEMMA ShelteredStep ==
  ASSUME NEW r, NEW s, Stacked(s), s.frames # <<>>, Sheltered(s), NEW t, Walk(r, s, t), t.st # "idle"
  PROVE  Sheltered(t)
<1> DEFINE Free(c) == \A i \in DOMAIN c.steps : ~Rescopes(c.steps[i])
<1> SUFFICES ASSUME NEW d \in 1 .. Height(t), NEW e \in 1 .. Height(t), d < e, ~Rescopes(Now(Frm(t, d)))
             PROVE  Free(Frm(t, e).code)
  BY DEF Sheltered
<1>1. Height(s) \in Nat \ {0} /\ Height(t) \in Nat \ {0}
  BY WalkFrames
<1>2. d # Height(t)
  BY <1>1
<1>3. Frm(t, d) = Frm(s, d) /\ d \in 1 .. Height(s)
  BY <1>2, WalkFrames
<1>4. \A b \in 1 .. Height(s) : d < b => Free(Frm(s, b).code)
  BY <1>3 DEF Sheltered
<1> HIDE DEF Free
<1>5. CASE e \in 1 .. Height(s) /\ Frm(t, e).code = Frm(s, e).code
  BY <1>4, <1>5
<1>6. CASE e = Height(t) /\ Deeper(s, t)
  <2> DEFINE h == Height(s)
             x == Now(Up(s))
  <2>1. Height(t) = h + 1 /\ Up(t) = Frame(x.arg) /\ Calls(x) /\ Up(s).pc \in 1 .. Len(Up(s).code.steps)
    BY <1>6 DEF Deeper
  <2>2. Frm(t, e).code = Prog[x.arg] /\ x.arg \in DOMAIN Prog
    BY <1>6, <2>1 DEF Up, Frame, Calls
  <2>3. ~Rescopes(x)
    <3>1. CASE d = h
      BY <1>3, <3>1 DEF Up
    <3>2. CASE d # h
      <4>1. h \in 1 .. h /\ d < h
        BY <1>1, <1>3, <3>2
      <4>2. Free(Up(s).code)
        BY <1>4, <4>1 DEF Up
      <4>3. Up(s).code \in Codes
        BY FrmTyped, TopTyped
      <4>4. Up(s).pc \in DOMAIN Up(s).code.steps
        BY <2>1, <4>3, CodeDomain
      <4> QED BY <4>2, <4>4 DEF Free, Now
    <3> QED BY <3>1, <3>2
  <2>4. x.arg \notin Rescoping
    BY <2>1, <2>3 DEF Rescopes
  <2>5. Free(Prog[x.arg])
    BY <2>2, <2>4, ShownAssumption DEF Free
  <2> QED BY <2>2, <2>5
<1>7. CASE e = Height(t) /\ Past(s, t, e)
  BY <1>5, <1>7 DEF Past
<1>8. CASE Frm(t, e) = Frm(s, e) /\ e \in 1 .. Height(s)
  BY <1>5, <1>8
<1> QED BY <1>6, <1>7, <1>8, WalkFrames

LEMMA HoldingStep ==
  ASSUME ScopeInv, NEW r \in Slots, slot[r].frames # <<>>, slot[r].st # "idle", NEW t \in Handler,
         Walk(r, slot[r], t), t.st # "idle"
  PROVE  Holding(Area(r), t)
<1> DEFINE s == slot[r]
           h == Height(s)
           a == Area(r)
<1>0. FlowInv /\ IInv /\ Stacked(s) /\ Holding(a, s) /\ Sheltered(s)
  BY DEF ScopeInv, EffectInv, FlowInv, IInv, ScopePart, Showing
<1>1. h \in Nat \ {0} /\ Height(t) \in Nat \ {0}
  BY <1>0, WalkFrames
<1>2. \A d \in 1 .. h :
        /\ Held(a, Frm(s, d))
        /\ ~Rescopes(Now(Frm(s, d))) => HeldIn(a, Frm(s, d), s.scope)
  BY <1>0 DEF Holding
<1>3. CASE Sunk(s, t)
  <2>1. t.st = "raise" /\ t.scope = s.scope /\ Height(t) \in 1 .. h /\ \A d \in 1 .. Height(t) : Frm(t, d) = Frm(s, d)
    BY <1>3 DEF Sunk, Under
  <2>2. \A d \in 1 .. Height(t) : d \in 1 .. h
    BY <1>1, <2>1
  <2> QED BY <1>2, <2>1, <2>2 DEF Holding
<1>4. CASE Deeper(s, t)
  <2> DEFINE x == Now(Up(s))
  <2>1. /\ t.scope = s.scope /\ Height(t) = h + 1 /\ (\A d \in 1 .. h : Frm(t, d) = Frm(s, d))
        /\ Up(t) = Frame(x.arg) /\ x.arg \in DOMAIN Prog
    BY <1>4 DEF Deeper, Under, Calls
  <2>2. \A d \in 1 .. Height(t) : (d \in 1 .. h /\ d # Height(t)) \/ d = Height(t)
    BY <1>1, <2>1
  <2>3. Held(a, Up(t)) /\ HeldIn(a, Up(t), t.scope)
    BY <2>1, FrameHolds
  <2>4. ASSUME NEW d \in 1 .. Height(t)
        PROVE  /\ Held(a, Frm(t, d))
               /\ (d = Height(t) /\ t.st = "run") \/ ~Rescopes(Now(Frm(t, d))) => HeldIn(a, Frm(t, d), t.scope)
    <3>1. CASE d = Height(t)
      BY <2>3, <3>1 DEF Up
    <3>2. CASE d \in 1 .. h /\ d # Height(t)
      BY <1>2, <2>1, <3>2
    <3> QED BY <2>2, <3>1, <3>2
  <2> QED BY <2>4 DEF Holding
<1>5. ASSUME NEW m, Past(s, t, m), (Stepped(r, s, t) /\ m = h) \/ (Resumed(r, s, t) /\ m = h - 1)
      PROVE  Holding(a, t)
  <2>1. /\ Held(a, Frm(t, m)) /\ HeldIn(a, Frm(t, m), t.scope)
        /\ ~Rescopes(Now(Frm(s, m))) => t.scope = s.scope
    BY <1>5, PastHolds
  <2>2. /\ Height(t) = m /\ m \in 1 .. h /\ (\A d \in 1 .. m - 1 : Frm(t, d) = Frm(s, d))
        /\ Frm(s, m).pc \in 1 .. Len(Frm(s, m).code.steps)
    BY <1>5 DEF Past, Under
  <2>3. \A d \in 1 .. m : d = m \/ (d \in 1 .. m - 1 /\ d \in 1 .. h /\ d < m)
    BY <1>1, <2>2
  <2>4. ASSUME NEW d \in 1 .. h, d < m, ~Rescopes(Now(Frm(s, d))) PROVE t.scope = s.scope
    <3>1. \A i \in DOMAIN Frm(s, m).code.steps : ~Rescopes(Frm(s, m).code.steps[i])
      BY <1>0, <2>2, <2>4 DEF Sheltered
    <3>2. Frm(s, m).code \in Codes
      BY <1>0, <2>2, FrmTyped
    <3>3. Frm(s, m).pc \in DOMAIN Frm(s, m).code.steps
      BY <2>2, <3>2, CodeDomain
    <3> QED BY <2>1, <3>1, <3>3 DEF Now
  <2>5. ASSUME NEW d \in 1 .. m
        PROVE  /\ Held(a, Frm(t, d))
               /\ (d = m /\ t.st = "run") \/ ~Rescopes(Now(Frm(t, d))) => HeldIn(a, Frm(t, d), t.scope)
    <3>1. CASE d = m
      BY <2>1, <3>1
    <3>2. CASE d \in 1 .. m - 1 /\ d \in 1 .. h /\ d < m
      <4>1. Frm(t, d) = Frm(s, d) /\ d # m
        BY <2>2, <3>2
      <4> QED BY <1>2, <2>4, <3>2, <4>1
    <3> QED BY <2>3, <3>1, <3>2
  <2> QED BY <2>2, <2>5 DEF Holding
<1>6. CASE Stepped(r, s, t)
  BY <1>5, <1>6 DEF Stepped
<1>7. CASE Resumed(r, s, t)
  BY <1>5, <1>7 DEF Resumed
<1>8. ~Gone(r, s, t)
  BY DEF Gone
<1> QED BY <1>3, <1>4, <1>6, <1>7, <1>8 DEF Walk

\* A handler without frames shows what it answered, if it has.
LEMMA IdleShowing ==
  ASSUME NEW r, NEW t, t.frames = <<>>
  PROVE  Holding(Area(r), t) /\ Sheltered(t)
<1>1. Height(t) = 0
  BY EmptySeq DEF Height
<1>2. 1 .. 0 = {}
  OBVIOUS
<1> QED BY <1>1, <1>2 DEF Holding, Sheltered

LEMMA ShowingStep ==
  ASSUME ScopeInv, NEW r \in Slots, Step(r), ~Begin(r), NEW t, t = slot'[r]
  PROVE  Showing(r, t)
<1> DEFINE s == slot[r]
<1>0. /\ FlowInv /\ IInv /\ Stacked(s) /\ s.frames # <<>> /\ s.st # "idle" /\ Walk(r, s, t) /\ Sheltered(s)
  BY StepWorks, WalkNext DEF ScopeInv, EffectInv, FlowInv, ScopePart, Showing
<1>1. t \in Handler
  <2>1. IInv'
    BY <1>0, NextInv, SomeStep
  <2> QED BY <2>1 DEF IInv
<1>2. CASE t.st # "idle"
  <2>1. Holding(Area(r), t) /\ Sheltered(t)
    BY <1>0, <1>1, <1>2, HoldingStep, ShelteredStep
  <2>2. t.kind = s.kind
    BY <1>0, <1>2 DEF Walk, Gone
  <2>3. s.kind = None
    BY <1>0 DEF ScopeInv, EffectInv, EffectPart, Resting
  <2> QED BY <2>1, <2>2, <2>3 DEF Showing, None
<1>3. CASE t.st = "idle"
  <2>1. Gone(r, s, t)
    BY <1>0, <1>3 DEF Walk, Sunk, Deeper, Stepped, Resumed, Past
  <2>2. t.frames = <<>> /\ t.scope = s.scope /\ (t.kind = "ok" => Height(s) = 1 /\ Returns(r, s, t.val))
    BY <2>1 DEF Gone
  <2>3. Holding(Area(r), t) /\ Sheltered(t)
    BY <2>2, IdleShowing
  <2>4. Frm(s, 1).code = Prog[Program(r)] /\ Program(r) \in DOMAIN Prog
    BY <1>0, LinkedFrames
  <2>5. t.kind = "ok" => Shown(Area(r), s.scope, Program(r), t.val)
    BY <1>0, <2>2, <2>4, ReturnShown DEF Up
  <2> QED BY <2>2, <2>3, <2>5 DEF Showing
<1> QED BY <1>2, <1>3

-----------------------------------------------------------------------------
(* Entries.                                                                *)

\* What a step puts into the cache.
Stores(r, e) ==
  LET f == Up(slot[r])
      x == Now(f) IN
  /\ slot[r].st = "run" /\ f.pc \in 1 .. Len(f.code.steps)
  /\ e.key = x.arg /\ e.dim = KeyOf(r, x.arg)
  /\ \/ x.op \in {"Put", "PutWhole", "PutIfSome"} /\ e.val = f.val
     \/ x.op = "Nothing" /\ slot[r].scope = {} /\ e.val = Blank

LEMMA CachedBy ==
  ASSUME IInv, NEW r \in Slots, Step(r), NEW e \in cache'
  PROVE  e \in cache \/ Stores(r, e)
<1> DEFINE s == slot[r]
           k == Current(r).arg
<1>1. \A v : StoredIn(r, k, v) \subseteq cache \cup {[key |-> k, dim |-> KeyOf(r, k), val |-> v]}
  BY DEF StoredIn
<1>2. CASE cacheSet(r)
  <2>1. At(r, {"Put", "PutWhole", "PutIfSome"})
    BY <1>2 DEF cacheSet
  <2>2. /\ s.st = "run" /\ Now(Up(s)) = Current(r) /\ Up(s).pc \in 1 .. Len(Up(s).code.steps) /\ Up(s) = Top(s)
        /\ Now(Up(s)).op \in {"Put", "PutWhole", "PutIfSome"}
    BY <2>1, AtWalk
  <2>3. cache' = cache \/ cache' = StoredIn(r, k, Top(s).val)
    BY <1>2 DEF cacheSet
  <2>4. e \in cache \/ e = [key |-> k, dim |-> KeyOf(r, k), val |-> Top(s).val]
    BY <1>1, <2>3
  <2> QED BY <2>2, <2>4 DEF Stores
<1>3. CASE AnswerNothing(r)
  <2>1. At(r, {"Nothing"})
    BY <1>3 DEF AnswerNothing
  <2>2. /\ s.st = "run" /\ Now(Up(s)) = Current(r) /\ Up(s).pc \in 1 .. Len(Up(s).code.steps)
        /\ Now(Up(s)).op = "Nothing"
    BY <2>1, AtWalk
  <2>3. cache' = cache \/ (s.scope = {} /\ cache' = StoredIn(r, k, Blank))
    BY <1>3 DEF AnswerNothing
  <2>4. e \in cache \/ (s.scope = {} /\ e = [key |-> k, dim |-> KeyOf(r, k), val |-> Blank])
    BY <1>1, <2>3
  <2> QED BY <2>2, <2>4 DEF Stores
<1>4. CASE cacheDel(r) \/ deletePattern(r)
  <2>1. cache' \subseteq cache
    BY <1>4 DEF cacheDel, deletePattern
  <2> QED BY <2>1
<1>5. CASE cache' = cache
  BY <1>5
<1>6. cacheSet(r) \/ AnswerNothing(r) \/ cacheDel(r) \/ deletePattern(r) \/ cache' = cache
  BY DEF Step, Begin, Admit, requireRole, ScopeOfNobody, namespaceVisible, Project, cacheGet, Call, Return, Fetch,
         FetchFails, VerdictFails, Catch, Change, claimIdempotencyKey, fulfillIdempotencyKey, Lifecycle
<1> QED BY <1>2, <1>3, <1>4, <1>5, <1>6

LEMMA StoredShown ==
  ASSUME ScopeInv, NEW r \in Slots, NEW e, Stores(r, e)
  PROVE  EntryShown(e)
<1> DEFINE s == slot[r]
           f == Up(s)
           c == f.code
           i == f.pc
           x == Now(f)
           k == x.arg
           a == Area(r)
           A == s.scope
           h == Height(s)
<1>0. IInv /\ Stacked(s) /\ s.frames # <<>> /\ Holding(a, s)
  BY DEF ScopeInv, EffectInv, FlowInv, IInv, ScopePart, Showing, Stacked, Stores
<1>1. s.st = "run" /\ i \in 1 .. Len(c.steps) /\ e.key = k /\ e.dim = KeyOf(r, k)
  BY DEF Stores
<1>2. h \in Nat \ {0} /\ h \in 1 .. h /\ f = Frm(s, h) /\ c \in Codes
  BY <1>0, FrmTyped DEF Up
<1>3. Held(a, f) /\ HeldIn(a, f, A)
  BY <1>0, <1>1, <1>2 DEF Holding
<1>4. PICK p \in DOMAIN Prog : c = Prog[p]
  BY <1>2 DEF Codes
<1>5. i \in DOMAIN Prog[p].steps /\ x = Prog[p].steps[i]
  BY <1>1, <1>2, <1>4, CodeDomain DEF Now
<1>6. x.op \in Puts
  BY DEF Stores, Puts
<1>7. /\ e.dim.seen = (IF "scope" \in Dims[k] THEN A ELSE {})
      /\ k \in Localised => e.dim.area = a
  BY <1>1 DEF KeyOf, Localised
<1>8. k \in DOMAIN Dims
  BY <1>4, <1>5, <1>6, PutsAssumption
<1>9. k \in Scoped => "scope" \in Dims[k] /\ (x.op # "Nothing" => SeenBefore(c, i))
  BY <1>4, <1>5, <1>6, ScopedAssumption
<1>10. /\ k \in FullKeys => x.op # "Nothing" /\ FullBefore(c, i)
       /\ k \in CoveringKeys => x.op = "Nothing" \/ CoveringBefore(c, i)
       /\ k \in OwnKeys => x.op = "Nothing" \/ EmptyBefore(c, i) \/ (k \in Localised /\ OwnBefore(c, i))
       /\ k \in CoveringKeys => "scope" \in Dims[k]
  BY <1>4, <1>5, <1>6, <1>8, KeptAssumption
<1>11. CASE x.op \in {"Put", "PutWhole", "PutIfSome"} /\ e.val = f.val
  <2>1. /\ EmptyBefore(c, i) => e.val.shows = {}
        /\ OwnBefore(c, i) => e.val.shows \subseteq {a}
        /\ FullBefore(c, i) => e.val.lost \/ Areas \subseteq e.val.shows
        /\ SeenBefore(c, i) => e.val.shows \subseteq A
        /\ CoveringBefore(c, i) => e.val.lost \/ A \subseteq e.val.shows
    BY <1>3, <1>11 DEF Held, HeldIn
  <2> HIDE DEF x, f, c, i, a, A, k
  <2> QED BY <1>1, <1>7, <1>9, <1>10, <1>11, <2>1 DEF EntryShown
<1>12. CASE x.op = "Nothing" /\ A = {} /\ e.val = Blank
  <2>1. e.val.shows = {} /\ e.dim.seen = {}
    BY <1>7, <1>12, BlankTyped
  <2> QED BY <1>1, <1>10, <1>12, <2>1 DEF EntryShown
<1> QED BY <1>11, <1>12 DEF Stores

-----------------------------------------------------------------------------
LEMMA SameShowing ==
  ASSUME NEW q, NEW s, scenario' = scenario
  PROVE  Showing(q, s)' <=> Showing(q, s)
  BY DEF Showing, Area, Program, Holding, Held, HeldIn, Sheltered, Shown, Frm, Height

LEMMA ShowingElse ==
  ASSUME ScopeInv, NEW q \in Slots, scenario' = scenario, slot'[q] = slot[q]
  PROVE  Showing(q, slot[q])'
<1>1. PICK t : t = slot[q]
  OBVIOUS
<1>2. Showing(q, t)
  BY <1>1 DEF ScopeInv, ScopePart
<1>3. Showing(q, t)'
  BY <1>2, SameShowing
<1> QED BY <1>1, <1>3

LEMMA ScopeStep ==
  ASSUME ScopeInv, NEW r \in Slots, Step(r), ~Begin(r)
  PROVE  ScopePart'
<1>0. IInv
  BY DEF ScopeInv, EffectInv, FlowInv
<1>1. scenario' = scenario /\ \A q \in Slots : q # r => slot'[q] = slot[q]
  BY <1>0, OthersStay
<1>2. ASSUME NEW q \in Slots PROVE Showing(q, slot[q])'
  <2>1. CASE q # r
    BY <1>1, <2>1, ShowingElse
  <2>2. CASE q = r
    <3>1. PICK t : t = slot'[r]
      OBVIOUS
    <3>2. Showing(r, t)
      BY <3>1, ShowingStep
    <3>3. Showing(r, t)'
      BY <1>1, <3>2, SameShowing
    <3> QED BY <2>2, <3>1, <3>3
  <2> QED BY <2>1, <2>2
<1>3. ASSUME NEW e \in cache' PROVE EntryShown(e)
  BY <1>0, CachedBy, StoredShown DEF ScopeInv, ScopePart
<1> QED BY <1>2, <1>3 DEF ScopePart

LEMMA BeginScope ==
  ASSUME ScopeInv, NEW r \in Slots, Begin(r)
  PROVE  ScopePart'
<1>0. IInv
  BY DEF ScopeInv, EffectInv, FlowInv
<1>1. PICK t : t = slot'[r]
  OBVIOUS
<1>2. /\ Height(t) = 1 /\ Frm(t, 1) = Frame(Program(r)) /\ t.kind = None /\ Program(r) \in DOMAIN Prog
      /\ UNCHANGED <<scenario, cache>> /\ \A q \in Slots : q # r => slot'[q] = slot[q]
  BY <1>0, <1>1, BeginShape
<1>3. Showing(r, t)
  <2>1. \A d \in 1 .. 1 : d = 1
    OBVIOUS
  <2>2. ~ \E d, e \in 1 .. 1 : d < e
    OBVIOUS
  <2>3. Held(Area(r), Frame(Program(r))) /\ HeldIn(Area(r), Frame(Program(r)), t.scope)
    BY <1>2, FrameHolds
  <2>4. Holding(Area(r), t)
    BY <1>2, <2>1, <2>3 DEF Holding
  <2>5. Sheltered(t)
    BY <1>2, <2>2 DEF Sheltered
  <2> QED BY <1>2, <2>4, <2>5 DEF Showing, None
<1>4. ASSUME NEW q \in Slots PROVE Showing(q, slot[q])'
  <2>1. CASE q # r
    BY <1>2, <2>1, ShowingElse
  <2>2. CASE q = r
    <3>1. Showing(r, t)'
      BY <1>2, <1>3, SameShowing
    <3> QED BY <1>1, <2>2, <3>1
  <2> QED BY <2>1, <2>2
<1> QED BY <1>2, <1>4 DEF ScopeInv, ScopePart

LEMMA RestScope ==
  ASSUME ScopeInv, Expire \/ CommandFails \/ Connect \/ Crash \/ UNCHANGED vars
  PROVE  ScopePart'
<1>0. IInv
  BY DEF ScopeInv, EffectInv, FlowInv
<1>1. scenario' = scenario /\ cache' \subseteq cache
  BY <1>0, AsideShape, CrashShape
<1>2. ASSUME NEW q \in Slots PROVE Showing(q, slot[q])'
  <2>1. CASE slot'[q] = slot[q]
    BY <1>1, <2>1, ShowingElse
  <2>2. CASE slot'[q].frames = <<>> /\ slot'[q].kind = "lost"
    <3>1. PICK t : t = slot'[q]
      OBVIOUS
    <3>2. Showing(q, t)
      BY <2>2, <3>1, IdleShowing DEF Showing
    <3>3. Showing(q, t)'
      BY <1>1, <3>2, SameShowing
    <3> QED BY <3>1, <3>3
  <2>3. slot'[q] = slot[q] \/ (slot'[q].frames = <<>> /\ slot'[q].kind = "lost")
    BY <1>0, AsideShape, CrashShape
  <2> QED BY <2>1, <2>2, <2>3
<1> QED BY <1>1, <1>2 DEF ScopeInv, ScopePart

LEMMA ScopeInit == Init => ScopeInv
<1> SUFFICES ASSUME Init PROVE ScopeInv
  OBVIOUS
<1>1. EffectInv
  BY EffectInit
<1>2. ASSUME NEW r \in Slots PROVE Showing(r, slot[r])
  <2>1. slot[r].frames = <<>> /\ slot[r].kind = None
    BY InitShape
  <2> QED BY <2>1, IdleShowing DEF Showing, None
<1>3. cache = {}
  BY DEF Init
<1> QED BY <1>1, <1>2, <1>3 DEF ScopeInv, ScopePart

LEMMA ScopeNext == ScopeInv /\ [Next]_vars => ScopeInv'
<1> SUFFICES ASSUME ScopeInv, [Next]_vars PROVE ScopeInv'
  OBVIOUS
<1>1. EffectInv'
  BY EffectNext DEF ScopeInv
<1>2. ASSUME NEW r \in Slots, Step(r) PROVE ScopePart'
  BY <1>2, BeginScope, ScopeStep
<1>3. ScopePart'
  BY <1>2, RestScope DEF Next
<1> QED BY <1>1, <1>3 DEF ScopeInv

\* A route that resolves the caller's scope answers with nothing outside the scope of
\* this very request, whether the answer was read upstream, found in the shared cache or
\* composed of other programs' answers; and one that filters shows all of that scope
\* unless data is missing.
THEOREM ExactlyServed == Spec => []ServedExactly
<1>1. ScopeInv => ServedExactly
  <2> SUFFICES ASSUME ScopeInv, NEW r \in Slots, Answered(r), Has(Program(r), "Scope")
               PROVE  /\ slot[r].val.shows \subseteq slot[r].scope
                      /\ Uses(Program(r), "Filter") /\ ~slot[r].val.lost => slot[r].val.shows = slot[r].scope
    BY DEF ServedExactly
  <2>1. Shown(Area(r), slot[r].scope, Program(r), slot[r].val)
    BY DEF ScopeInv, ScopePart, Showing, Answered
  <2>2. Program(r) \in DOMAIN Prog
    BY RequestTyped DEF ScopeInv, EffectInv, FlowInv, IInv, Globals, Program
  <2>3. Program(r) \in Seen /\ (Uses(Program(r), "Filter") => Program(r) \in Covering)
    BY <2>2, ShownAssumption
  <2> QED BY <2>1, <2>3 DEF Shown
<1> QED BY <1>1, ScopeInit, ScopeNext, PTL DEF Spec

\* No entry of a scoped namespace shows more than the scope its key was made from: what
\* one caller's request stores, another's may find only under the same scope.
THEOREM EntriesScoped == Spec => []ScopedEntries
<1>1. ScopeInv => ScopedEntries
  BY DEF ScopeInv, ScopePart, EntryShown, ScopedEntries
<1> QED BY <1>1, ScopeInit, ScopeNext, PTL DEF Spec

-----------------------------------------------------------------------------
(* What is fresh.  Once the object has changed with no other request in    *)
(* flight, whoever may still store under a purged namespace holds the      *)
(* object as it is now: it reads it upstream itself, and the handler that  *)
(* made the change stores nothing of the kind.  So what a purge clears     *)
(* stays clear, and a handler that is past the purge which follows its     *)
(* change leaves nothing old behind, however the two are spread over the   *)
(* programs it calls.                                                      *)
Cleared(k) == \A e \in cache : e.key = k => ~e.val.old

Storing(c, n, K) ==
  \E i \in DOMAIN c.steps : n <= i /\ c.steps[i].op \in Puts \ {"Nothing"} /\ c.steps[i].arg \in K
DirectCode(c) == \E p \in Direct \cap DOMAIN Prog : c = Prog[p]

Untainted(f) == SteadyBefore(f.code, f.pc) => ~f.val.old
UpToDate(f) == written /\ calm /\ (Storing(f.code, f.pc, scenario.purged) \/ DirectCode(f.code)) => ~f.val.old
Renewed(f) ==
  \A k \in scenario.purged :
    RenewedBefore(f.code, f.pc, scenario.touched, k) => written /\ (calm => Cleared(k))

\* A change below and a purge above are in this order.
PurgedAbove(s) ==
  \A d, e \in 1 .. Height(s) : \A k \in scenario.purged :
    d < e /\ ChangedBefore(Frm(s, d).code, Frm(s, d).pc, scenario.touched)
    /\ PurgedBefore(Frm(s, e).code, Frm(s, e).pc, k) /\ calm => Cleared(k)

FreshSlot(s) ==
  /\ \A d \in 1 .. Height(s) : Untainted(Frm(s, d)) /\ UpToDate(Frm(s, d)) /\ Renewed(Frm(s, d))
  /\ PurgedAbove(s)

FreshPart ==
  /\ \A r \in Slots : FreshSlot(slot[r])
  /\ \A e \in cache : e.key \in SteadyKeys => ~e.val.old
  /\ scenario.writer \in Slots /\ Answered(scenario.writer) =>
       \A k \in scenario.purged : written /\ (calm => Cleared(k))

FreshInv == EffectInv /\ FreshPart

-----------------------------------------------------------------------------
(* The rules of EffectFlow, step by step.                                  *)
LEMMA FreshNext ==
  ASSUME NEW c \in Codes, NEW n \in 1 .. Len(c.steps), NEW x, x = c.steps[n], NEW T, NEW k, NEW K
  PROVE  /\ SteadyBefore(c, n + 1) => SteadyBefore(c, n) /\ SteadyStep(x)
         /\ Storing(c, n + 1, K) => Storing(c, n, K)
         /\ PurgedBefore(c, n + 1, k) => PurgedBefore(c, n, k) \/ HasPurged(x, k)
         /\ RenewedBefore(c, n + 1, T, k) =>
              \/ RenewedBefore(c, n, T, k)
              \/ HasPurged(x, k) /\ ChangedBefore(c, n, T)
              \/ Waits(x) /\ \E o \in T : <<o, k>> \in Renewing[x.arg]
<1>1. DOMAIN c.steps = 1 .. Len(c.steps) /\ Len(c.steps) \in Nat
  BY CodeDomain
<1>2. \A i \in DOMAIN c.steps : (i < n + 1 <=> i < n \/ i = n) /\ (n + 1 <= i => n <= i)
  BY <1>1
<1>3. n \in DOMAIN c.steps
  BY <1>1
<1>4. SteadyBefore(c, n + 1) => SteadyBefore(c, n) /\ SteadyStep(x)
  BY <1>2, <1>3 DEF SteadyBefore
<1>5. Storing(c, n + 1, K) => Storing(c, n, K)
  BY <1>2 DEF Storing
<1>6. PurgedBefore(c, n + 1, k) => PurgedBefore(c, n, k) \/ HasPurged(x, k)
  BY <1>2 DEF PurgedBefore
<1>7. ASSUME RenewedBefore(c, n + 1, T, k)
      PROVE  \/ RenewedBefore(c, n, T, k)
             \/ HasPurged(x, k) /\ ChangedBefore(c, n, T)
             \/ Waits(x) /\ \E o \in T : <<o, k>> \in Renewing[x.arg]
  <2>1. PICK j \in DOMAIN c.steps :
               /\ j < n + 1
               /\ \/ HasPurged(c.steps[j], k) /\ ChangedBefore(c, j, T)
                  \/ Waits(c.steps[j]) /\ \E o \in T : <<o, k>> \in Renewing[c.steps[j].arg]
    BY <1>7 DEF RenewedBefore
  <2>2. CASE j = n
    BY <2>1, <2>2
  <2>3. CASE j < n
    BY <2>1, <2>3 DEF RenewedBefore
  <2> QED BY <1>2, <2>1, <2>2, <2>3
<1> QED BY <1>4, <1>5, <1>6, <1>7

LEMMA FreshFirst ==
  ASSUME NEW c \in Codes, NEW T, NEW k
  PROVE  ~PurgedBefore(c, 1, k) /\ ~RenewedBefore(c, 1, T, k)
<1>1. \A i \in DOMAIN c.steps : ~(i < 1)
  BY CodeDomain
<1> QED BY <1>1 DEF PurgedBefore, RenewedBefore

LEMMA FreshLast ==
  ASSUME NEW c \in Codes, NEW n \in Nat, n > Len(c.steps), NEW T, NEW U, U \subseteq T, NEW k
  PROVE  LET m == Len(c.steps) + 1 IN
         /\ SteadyBefore(c, m) => SteadyBefore(c, n)
         /\ PurgedBefore(c, m, k) => PurgedBefore(c, n, k)
         /\ RenewedBefore(c, m, U, k) => RenewedBefore(c, n, T, k)
<1> DEFINE m == Len(c.steps) + 1
<1>1. \A i \in DOMAIN c.steps : i < n /\ i < m
  BY CodeDomain
<1> HIDE DEF m
<1>2. SteadyBefore(c, m) => SteadyBefore(c, n)
  BY <1>1 DEF SteadyBefore
<1>3. PurgedBefore(c, m, k) => PurgedBefore(c, n, k)
  BY <1>1 DEF PurgedBefore
<1>4. \A x : HasChanged(x, U) => HasChanged(x, T)
  BY DEF HasChanged
<1>5. \A j : ChangedBefore(c, j, U) => ChangedBefore(c, j, T)
  BY <1>4 DEF ChangedBefore
<1>6. RenewedBefore(c, m, U, k) => RenewedBefore(c, n, T, k)
  BY <1>1, <1>5 DEF RenewedBefore
<1> QED BY <1>2, <1>3, <1>6 DEF m

LEMMA ScenarioParts ==
  ASSUME IInv
  PROVE  /\ scenario.touched \subseteq Tracked /\ scenario.purged \subseteq DOMAIN Dims
         /\ \A p \in DOMAIN Prog : \A i \in DOMAIN Prog[p].steps :
              Prog[p].steps[i].op \in Puts \ {"Nothing"} /\ Prog[p].steps[i].arg \in scenario.purged =>
                DirectBefore(Prog[p], i) /\ Untouching(Prog[p], scenario.touched)
         /\ scenario.writer \in Slots =>
              LET c == Prog[Program(scenario.writer)] IN
              Straight(c) /\ \A k \in scenario.purged : RenewedBefore(c, Len(c.steps) + 1, scenario.touched, k)
<1>1. scenario \in Scenarios
  BY DEF IInv, Globals
<1>2. scenario.purged \subseteq DOMAIN Dims
  BY <1>1, ScenarioAssumption
<1>3. /\ scenario.touched \subseteq Tracked
      /\ \A p \in DOMAIN Prog : \A i \in DOMAIN Prog[p].steps :
           Prog[p].steps[i].op \in Puts \ {"Nothing"} /\ Prog[p].steps[i].arg \in scenario.purged =>
             DirectBefore(Prog[p], i) /\ Untouching(Prog[p], scenario.touched)
  BY <1>1, FreshAssumption
<1>4. scenario.writer \in Slots =>
              LET c == Prog[Program(scenario.writer)] IN
              Straight(c) /\ \A k \in scenario.purged : RenewedBefore(c, Len(c.steps) + 1, scenario.touched, k)
  BY <1>1, FreshAssumption DEF Program
<1> QED BY <1>2, <1>3, <1>4

-----------------------------------------------------------------------------
(* Before and after the change.                                            *)
LEMMA CalmFalls ==
  ASSUME IInv, NEW r \in Slots, Step(r)
  PROVE  /\ calm' => calm
         /\ written => written'
         /\ written' /\ ~written =>
              Change(r) /\ Current(r).arg \in scenario.touched /\ (calm' => \A q \in Slots : q # r => slot[q].st = "idle")
<1>1. written => written'
  BY EffectsGrow, SomeStep
<1>2. CASE Change(r)
  <2>1. calm' => calm
    BY <1>2, Zenon DEF Change
  <2>2. written' /\ ~written => Current(r).arg \in scenario.touched
    BY <1>2, Zenon DEF Change
  <2>3. written' /\ ~written => (calm' => \A q \in Slots : q # r => ~Working(q))
    BY <1>2, Zenon DEF Change
  <2> QED BY <1>1, <1>2, <2>1, <2>2, <2>3 DEF Working
<1>3. CASE cacheDel(r)
  <2>1. calm' => calm
    BY <1>3, Zenon DEF cacheDel
  <2>2. written' = written
    BY <1>3 DEF cacheDel
  <2> QED BY <1>1, <2>1, <2>2
<1>4. CASE deletePattern(r)
  <2>1. calm' => calm
    BY <1>4, Zenon DEF deletePattern
  <2>2. written' = written
    BY <1>4 DEF deletePattern
  <2> QED BY <1>1, <2>1, <2>2
<1>5. CASE UNCHANGED <<written, calm>>
  BY <1>1, <1>5
<1>6. Change(r) \/ cacheDel(r) \/ deletePattern(r) \/ UNCHANGED <<written, calm>>
  BY DEF Step, Begin, Admit, requireRole, ScopeOfNobody, namespaceVisible, Project, cacheGet, cacheSet, AnswerNothing,
         Call, Return, Fetch, FetchFails, VerdictFails, Catch, claimIdempotencyKey, fulfillIdempotencyKey, Lifecycle
<1> QED BY <1>2, <1>3, <1>4, <1>5, <1>6

\* A program that is read upstream directly changes nothing, and neither does one that
\* stores under a purged namespace.
LEMMA ChangerStoresNothing ==
  ASSUME IInv, NEW c \in Codes, NEW i \in DOMAIN c.steps, MayChange(c.steps[i], scenario.touched), NEW n
  PROVE  ~Storing(c, n, scenario.purged) /\ ~DirectCode(c)
<1>1. PICK p \in DOMAIN Prog : c = Prog[p]
  BY DEF Codes
<1>2. ~Storing(c, n, scenario.purged)
  BY <1>1, ScenarioParts DEF Storing, Untouching
<1>3. ~DirectCode(c)
  <2> SUFFICES ASSUME NEW q \in Direct \cap DOMAIN Prog, c = Prog[q] PROVE FALSE
    BY DEF DirectCode
  <2>1. Touching[q] = {} /\ Within(c, Touching[q])
    BY ProgramWithin, FreshAssumption
  <2> QED BY <2>1 DEF Within, MayChange
<1> QED BY <1>2, <1>3

\* What was cleared after the change stays clear.
LEMMA ClearedStays ==
  ASSUME FreshInv, NEW r \in Slots, Step(r), NEW k \in scenario.purged, written, calm', Cleared(k)
  PROVE  Cleared(k)'
<1>0. IInv /\ calm
  BY CalmFalls DEF FreshInv, EffectInv, FlowInv
<1> SUFFICES ASSUME NEW e \in cache', e.key = k PROVE ~e.val.old
  BY DEF Cleared
<1>1. CASE e \in cache
  BY <1>1 DEF Cleared
<1>2. CASE Stores(r, e)
  <2> DEFINE s == slot[r]
             f == Up(s)
             h == Height(s)
  <2>1. s.st = "run" /\ f.pc \in 1 .. Len(f.code.steps) /\ Now(f).arg = k
    BY <1>2 DEF Stores
  <2>2. Stacked(s) /\ s.frames # <<>>
    BY <1>0, <2>1 DEF IInv, Stacked
  <2>3. h \in Nat \ {0} /\ h \in 1 .. h /\ f = Frm(s, h) /\ f.code \in Codes /\ f.pc \in Nat
    BY <2>2, FrmTyped DEF Up
  <2>4. f.pc \in DOMAIN f.code.steps /\ f.pc <= f.pc
    BY <2>1, <2>3, CodeDomain
  <2>5. CASE Now(f).op \in {"Put", "PutWhole", "PutIfSome"} /\ e.val = f.val
    <3>1. Storing(f.code, f.pc, scenario.purged)
      BY <2>1, <2>4, <2>5 DEF Storing, Now, Puts
    <3>2. UpToDate(f)
      BY <2>3 DEF FreshInv, FreshPart, FreshSlot
    <3> QED BY <1>0, <2>5, <3>1, <3>2 DEF UpToDate
  <2>6. CASE e.val = Blank
    BY <2>6 DEF Blank
  <2> QED BY <1>2, <2>5, <2>6 DEF Stores
<1> QED BY <1>0, <1>1, <1>2, CachedBy

\* A frame past a purge of its own has cleared the namespace.
LEMMA PurgeClears ==
  ASSUME IInv, NEW r \in Slots, Step(r), ~Begin(r), NEW t, t = slot'[r], NEW m, Past(slot[r], t, m),
         NEW k, Now(Frm(slot[r], m)).op \in {"Del", "Purge"}, Now(Frm(slot[r], m)).arg = k, calm'
  PROVE  Cleared(k)'
<1> DEFINE s == slot[r]
           h == Height(s)
           x == Now(Frm(s, m))
<1>0. Stacked(s) /\ s.frames # <<>> /\ Walk(r, s, t)
  BY StepWorks, WalkNext
<1>1. /\ t.st = "run" /\ m \in 1 .. h /\ Height(t) = m /\ Frm(s, m).pc \in 1 .. Len(Frm(s, m).code.steps)
  BY DEF Past
<1>2. h \in Nat \ {0}
  BY <1>0, FrmTyped
<1>3. m = h
  <2>1. x.op \notin Reads
    BY DEF Reads, Propagating, Recorded, Surviving
  <2>2. m \notin 1 .. h - 1
    BY <1>0, <2>1, FrmTyped
  <2> QED BY <1>1, <1>2, <2>2
<1>4. ~Resumed(r, s, t) /\ ~Sunk(s, t) /\ ~Gone(r, s, t) /\ ~Deeper(s, t)
  BY <1>1, <1>2, <1>3 DEF Resumed, Past, Sunk, Gone, Deeper
<1>5. s.st = "run"
  BY <1>0, <1>4 DEF Walk, Stepped
<1>6. x = Now(Up(s)) /\ Up(s).pc \in 1 .. Len(Up(s).code.steps)
  BY <1>1, <1>3 DEF Up
<1>7. cacheDel(r) \/ deletePattern(r)
  BY <1>5, <1>6, ActionAt
<1>8. Current(r).arg = k
  <2>1. Up(s) = Top(s)
    BY <1>0, FrmTyped
  <2> QED BY <1>6, <2>1 DEF Current, Awaits, Now
<1>9. CASE cacheDel(r)
  <2>1. online
    BY <1>9, Zenon DEF cacheDel
  <2>2. cache' = {e \in cache : e.key # k}
    BY <1>8, <1>9, <2>1 DEF cacheDel
  <2> QED BY <2>2 DEF Cleared
<1>10. CASE deletePattern(r)
  <2>1. cache' = {e \in cache : e.key # k}
    BY <1>8, <1>10 DEF deletePattern
  <2> QED BY <2>1 DEF Cleared
<1> QED BY <1>7, <1>9, <1>10

-----------------------------------------------------------------------------
(* What is old.                                                            *)
LEMMA UpstreamFresh ==
  ASSUME IInv, NEW r \in Slots, NEW e, NEW v \in Upstream(r, e), v.old
  PROVE  e \in Tracked /\ ~written
<1> DEFINE S == CASE e \in ObjectReads -> {Area(r)} [] e \in PlainReads -> {} [] OTHER -> Areas
           o == e \in scenario.touched /\ ~written
           whole == [lost |-> FALSE, told |-> FALSE, old |-> o, shows |-> S]
<1>1. v \in {whole} \cup
        (IF e \in Paged /\ faults > 0
         THEN {[whole EXCEPT !.lost = TRUE, !.told = TRUE, !.shows = @ \ {a}] : a \in Areas} ELSE {})
  BY DEF Upstream
<1> HIDE DEF S, o
<1>2. v.old = o
  <2>1. CASE v = whole
    BY <2>1
  <2>2. ASSUME NEW a, v = [whole EXCEPT !.lost = TRUE, !.told = TRUE, !.shows = @ \ {a}]
        PROVE  v.old = o
    BY <2>2
  <2> HIDE DEF whole
  <2> QED BY <1>1, <2>1, <2>2
<1>3. e \in scenario.touched /\ ~written
  BY <1>2, Zenon DEF o
<1> QED BY <1>3, ScenarioParts

\* A steady program answers with nothing old, and a direct one with nothing old once the
\* object has changed.
LEMMA ReturnFresh ==
  ASSUME FreshInv, NEW r \in Slots, slot[r].frames # <<>>, NEW v, Returns(r, slot[r], v),
         NEW p \in DOMAIN Prog, Up(slot[r]).code = Prog[p]
  PROVE  p \in Steady \/ (p \in Direct /\ written /\ calm) => ~v.old
<1> DEFINE s == slot[r]
           f == Up(s)
           c == f.code
           h == Height(s)
<1>0. IInv /\ Stacked(s)
  BY DEF FreshInv, EffectInv, FlowInv, IInv
<1>1. h \in Nat \ {0} /\ h \in 1 .. h /\ f = Frm(s, h) /\ f.pc \in Nat \ {0} /\ c \in Codes
  BY <1>0, FrmTyped DEF Up
<1>2. Untainted(f) /\ UpToDate(f)
  BY <1>1 DEF FreshInv, FreshPart, FreshSlot
<1>3. DOMAIN c.steps = 1 .. Len(c.steps) /\ Len(c.steps) \in Nat
  BY <1>1, CodeDomain
<1>4. CASE Ended(f) /\ v = f.val
  <2>1. f.pc > Len(c.steps) /\ f.pc \in Nat
    BY <1>1, <1>4 DEF Ended
  <2>2. SteadyBefore(c, Len(c.steps) + 1) => SteadyBefore(c, f.pc)
    <3> HIDE DEF c
    <3> QED BY <1>1, <2>1, FreshLast DEF c
  <2>3. p \in Steady => ~v.old
    BY <1>2, <1>4, <2>2, FreshAssumption DEF SteadyProgram, Untainted
  <2>4. p \in Direct => DirectCode(c)
    BY DEF DirectCode
  <2>5. p \in Direct /\ written /\ calm => ~v.old
    BY <1>2, <1>4, <2>4 DEF UpToDate
  <2> QED BY <2>3, <2>5
<1>5. ASSUME f.pc \in 1 .. Len(c.steps), Now(f).op = "Hit", NEW e \in cache, e.key = Now(f).arg, v = e.val
      PROVE  p \in Steady \/ (p \in Direct /\ written /\ calm) => ~v.old
  <2>1. f.pc \in DOMAIN Prog[p].steps /\ Prog[p].steps[f.pc].op = "Hit" /\ Prog[p].steps[f.pc].arg = e.key
    BY <1>3, <1>5 DEF Now
  <2>2. p \notin Direct
    BY <2>1, FreshAssumption DEF DirectProgram
  <2>3. p \in Steady => e.key \in SteadyKeys
    <3>1. f.pc < Len(Prog[p].steps) + 1
      BY <1>3, <1>5
    <3>2. p \in Steady => SteadyStep(Prog[p].steps[f.pc])
      BY <2>1, <3>1, FreshAssumption DEF SteadyProgram, SteadyBefore
    <3> QED BY <2>1, <3>2 DEF SteadyStep
  <2>4. e.key \in SteadyKeys => ~e.val.old
    BY DEF FreshInv, FreshPart
  <2> QED BY <1>5, <2>2, <2>3, <2>4
<1>6. CASE v = Blank
  BY <1>6 DEF Blank
<1>7. CASE ~v.old
  BY <1>7
<1>8. \/ Ended(f) /\ v = f.val
      \/ /\ f.pc \in 1 .. Len(f.code.steps) /\ Now(f).op = "Hit"
         /\ \E e \in cache : e.key = Now(f).arg /\ v = e.val
      \/ v = Blank
      \/ ~v.old
  BY DEF Returns
<1> QED BY <1>4, <1>5, <1>6, <1>7, <1>8

\* What becomes old when a frame passes its step.
LEMMA OldBy ==
  ASSUME FlowInv, NEW r \in Slots, slot[r].frames # <<>>, NEW t, Walk(r, slot[r], t), t.st # "idle",
         NEW m, Past(slot[r], t, m), Frm(t, m).val.old, ~Frm(slot[r], m).val.old
  PROVE  LET x == Now(Frm(slot[r], m)) IN
         /\ Adds(x)
         /\ \/ x.arg \notin DOMAIN Prog /\ \E v \in Upstream(r, x.arg) : v.old
            \/ x.arg \in DOMAIN Prog /\ Up(slot[r]).code = Prog[x.arg] /\ \E v : Returns(r, slot[r], v) /\ v.old
<1> DEFINE s == slot[r]
           h == Height(s)
           f == Frm(s, m)
           g == Frm(t, m)
           x == Now(f)
<1>0. IInv /\ Stacked(s)
  BY DEF FlowInv, IInv
<1>1. m \in 1 .. h /\ Height(t) = m /\ t.st = "run" /\ h \in Nat \ {0}
  BY <1>0, FrmTyped DEF Past
<1>2. ASSUME NEW v, Takes(r, s, t, m, v)
      PROVE  x.op \notin {"Scope", "Fire"} /\ v.old
  <2>1. g.val = IF x.op \in {"Scope", "Fire"} THEN f.val ELSE Merge(f.val, v, x.op)
    BY <1>2 DEF Takes
  <2>2. x.op \notin {"Scope", "Fire"} /\ g.val = Merge(f.val, v, x.op)
    BY <2>1
  <2>3. g.val.old = (f.val.old \/ v.old)
    <3>1. Merge(f.val, v, x.op).old = (f.val.old \/ v.old)
      BY Zenon DEF Merge
    <3> QED BY <2>2, <3>1, Zenon
  <2> HIDE DEF g, f, x
  <2>4. v.old
    BY <2>3, Zenon DEF g, f
  <2> QED BY <2>2, <2>4
<1>3. ~Loses(s, t, m)
  BY DEF Loses
<1>4. CASE Stepped(r, s, t)
  <2>1. m = h
    BY <1>1, <1>4 DEF Stepped, Past
  <2>2. x = Now(Up(s)) /\ f = Up(s) /\ g = Up(t)
    BY <1>1, <2>1 DEF Up
  <2>3. x.op \in Reads /\ x.arg \notin DOMAIN Prog /\ \E v \in Upstream(r, x.arg) : Takes(r, s, t, m, v)
    BY <1>3, <1>4, <2>1, <2>2 DEF Stepped
  <2>4. Adds(x)
    BY <1>2, <2>3 DEF Adds
  <2> QED BY <1>2, <2>3, <2>4
<1>5. CASE Resumed(r, s, t)
  <2>1. m = h - 1
    BY <1>1, <1>5 DEF Resumed, Past
  <2>2. m \in 1 .. h - 1 /\ h = m + 1
    BY <1>1, <2>1
  <2>3. Calls(x) /\ Up(s).code = Prog[x.arg]
    BY <2>2, LinkedFrames DEF Up
  <2>4. \E v : Returns(r, s, v) /\ Takes(r, s, t, m, v)
    BY <1>3, <1>5, <2>1 DEF Resumed
  <2>5. Adds(x) /\ x.arg \in DOMAIN Prog
    BY <1>2, <2>3, <2>4 DEF Adds, Calls
  <2> QED BY <1>2, <2>3, <2>4, <2>5
<1>6. ~Gone(r, s, t) /\ ~Sunk(s, t) /\ ~Deeper(s, t)
  <2>1. Height(t) # h + 1
    BY <1>1
  <2> QED BY <1>1, <2>1 DEF Gone, Sunk, Deeper
<1> QED BY <1>4, <1>5, <1>6 DEF Walk

\* The frames of the handler that changes the object hold nothing that has to be up to date.
LEMMA ChangerFrames ==
  ASSUME FreshInv, NEW r \in Slots, Step(r), ~written, written', NEW d \in 1 .. Height(slot[r]), NEW n
  PROVE  ~Storing(Frm(slot[r], d).code, n, scenario.purged) /\ ~DirectCode(Frm(slot[r], d).code)
<1> DEFINE f == Frm(slot[r], d)
<1>0. IInv /\ EffectInv
  BY DEF FreshInv, EffectInv, FlowInv
<1>1. Change(r) /\ Current(r).arg \in scenario.touched
  BY <1>0, CalmFalls
<1>2. /\ MayChange(f.code.steps[f.pc], scenario.touched) /\ f.code \in Codes /\ f.pc \in DOMAIN f.code.steps
  BY <1>0, <1>1, ChangerNow
<1> HIDE DEF f
<1>3. ~Storing(f.code, n, scenario.purged) /\ ~DirectCode(f.code)
  BY <1>0, <1>2, ChangerStoresNothing
<1> QED BY <1>3 DEF f

LEMMA PastFresh ==
  ASSUME FreshInv, NEW r \in Slots, Step(r), ~Begin(r), NEW t, t = slot'[r], t.st # "idle", NEW m, Past(slot[r], t, m)
  PROVE  Untainted(Frm(t, m)) /\ UpToDate(Frm(t, m))'
<1> DEFINE s == slot[r]
           f == Frm(s, m)
           g == Frm(t, m)
           c == f.code
           n == f.pc
           x == Now(f)
           K == scenario.purged
<1>0. FlowInv /\ IInv /\ Stacked(s) /\ s.frames # <<>> /\ Walk(r, s, t) /\ scenario' = scenario
  BY StepWorks, WalkNext, OthersStay DEF FreshInv, EffectInv, FlowInv
<1>1. m \in 1 .. Height(s) /\ n \in 1 .. Len(c.steps) /\ g.code = c /\ g.pc = n + 1
  BY DEF Past
<1>2. c \in Codes /\ x = c.steps[n]
  BY <1>0, <1>1, FrmTyped DEF Now
<1>3. Untainted(f) /\ UpToDate(f)
  BY <1>1 DEF FreshInv, FreshPart, FreshSlot
<1>4. /\ SteadyBefore(c, n + 1) => SteadyBefore(c, n) /\ SteadyStep(x)
      /\ Storing(c, n + 1, K) => Storing(c, n, K)
  <2> HIDE DEF c, n, x, K
  <2> QED BY <1>1, <1>2, FreshNext
<1>5. g.val.old /\ ~f.val.old =>
        /\ Adds(x)
        /\ \/ x.arg \notin DOMAIN Prog /\ \E v \in Upstream(r, x.arg) : v.old
           \/ x.arg \in DOMAIN Prog /\ Up(s).code = Prog[x.arg] /\ \E v : Returns(r, s, v) /\ v.old
  BY <1>0, OldBy
<1>6. Untainted(g)
  <2> SUFFICES ASSUME SteadyBefore(c, n + 1), g.val.old PROVE FALSE
    BY <1>1 DEF Untainted
  <2>1. ~f.val.old /\ SteadyStep(x)
    BY <1>3, <1>4 DEF Untainted
  <2> HIDE DEF f, g, x
  <2>2. CASE Adds(x) /\ x.arg \notin DOMAIN Prog /\ \E v \in Upstream(r, x.arg) : v.old
    BY <1>0, <2>1, <2>2, UpstreamFresh DEF SteadyStep
  <2>3. CASE Adds(x) /\ x.arg \in DOMAIN Prog /\ Up(s).code = Prog[x.arg] /\ \E v : Returns(r, s, v) /\ v.old
    BY <1>0, <2>1, <2>3, ReturnFresh DEF SteadyStep
  <2> QED BY <1>5, <2>1, <2>2, <2>3
<1>7. UpToDate(g)'
  <2> SUFFICES ASSUME written', calm', Storing(c, n + 1, K) \/ DirectCode(c), g.val.old PROVE FALSE
    BY <1>0, <1>1 DEF UpToDate
  <2>1. written /\ calm
    BY <1>0, <1>1, CalmFalls, ChangerFrames
  <2>2. ~f.val.old
    BY <1>3, <1>4, <2>1 DEF UpToDate
  <2>3. DirectStep(x)
    <3>1. n \in DOMAIN c.steps /\ n < Len(c.steps) + 1 /\ Len(c.steps) \in Nat
      BY <1>1, <1>2, CodeDomain
    <3>2. CASE DirectCode(c)
      BY <1>2, <3>1, <3>2, FreshAssumption DEF DirectCode, DirectProgram, DirectBefore
    <3>3. CASE Storing(c, n + 1, K)
      <4>1. PICK i \in DOMAIN c.steps : n + 1 <= i /\ c.steps[i].op \in Puts \ {"Nothing"} /\ c.steps[i].arg \in K
        BY <3>3 DEF Storing
      <4>2. DirectBefore(c, i)
        BY <1>0, <1>2, <4>1, ScenarioParts DEF Codes
      <4>3. n < i
        BY <1>1, <1>2, <4>1, CodeDomain
      <4> QED BY <1>2, <3>1, <4>2, <4>3 DEF DirectBefore
    <3> QED BY <3>2, <3>3
  <2> HIDE DEF f, g, x
  <2>4. CASE Adds(x) /\ x.arg \notin DOMAIN Prog /\ \E v \in Upstream(r, x.arg) : v.old
    BY <1>0, <2>1, <2>4, UpstreamFresh
  <2>5. CASE Adds(x) /\ x.arg \in DOMAIN Prog /\ Up(s).code = Prog[x.arg] /\ \E v : Returns(r, s, v) /\ v.old
    BY <1>0, <2>1, <2>3, <2>5, ReturnFresh DEF DirectStep
  <2> QED BY <1>5, <2>2, <2>4, <2>5
<1> QED BY <1>6, <1>7

-----------------------------------------------------------------------------
(* What is purged after the change.                                        *)

\* What was clear after the change, whichever frame saw to it.
LEMMA StillCleared ==
  ASSUME FreshInv, NEW r \in Slots, Step(r), NEW k \in scenario.purged, written, calm => Cleared(k), calm'
  PROVE  Cleared(k)'
<1>1. IInv
  BY DEF FreshInv, EffectInv, FlowInv
<1>2. calm
  BY <1>1, CalmFalls
<1> QED BY <1>2, ClearedStays

\* The program that a frame waited for has done all its steps.
LEMMA WaitedProgram ==
  ASSUME FreshInv, NEW r \in Slots, Step(r), ~Begin(r), NEW t, t = slot'[r], t.st # "idle",
         NEW m, Past(slot[r], t, m), NEW x, x = Now(Frm(slot[r], m)), Waits(x), Straight(Prog[x.arg])
  PROVE  LET f == Up(slot[r]) IN
         /\ Height(slot[r]) = m + 1 /\ m + 1 \in 1 .. Height(slot[r]) /\ f = Frm(slot[r], m + 1)
         /\ x.arg \in DOMAIN Prog /\ f.code = Prog[x.arg] /\ f.code \in Codes
         /\ f.pc \in Nat /\ f.pc > Len(f.code.steps)
<1> DEFINE s == slot[r]
<1>0. FlowInv /\ Stacked(s) /\ s.frames # <<>> /\ Walk(r, s, t)
  BY StepWorks, WalkNext DEF FreshInv, EffectInv, FlowInv
<1>1. /\ Height(s) = m + 1 /\ x.arg \in DOMAIN Prog /\ Up(s).code = Prog[x.arg]
      /\ \E v \in Val : Returns(r, s, v)
  BY <1>0, PastWaits
<1>2. Ended(Up(s))
  BY <1>0, <1>1, StraightReturns
<1>3. Up(s).pc \in Nat /\ Up(s).code \in Codes /\ Up(s) = Frm(s, Height(s)) /\ Height(s) \in 1 .. Height(s)
  BY <1>0, FrmTyped, TopTyped DEF Up
<1> QED BY <1>1, <1>2, <1>3 DEF Ended

\* A purge that comes after the change, by a frame no lower than the one that changed.
LEMMA PurgedPast ==
  ASSUME FreshInv, NEW r \in Slots, Step(r), ~Begin(r), NEW t, t = slot'[r], t.st # "idle",
         NEW m, Past(slot[r], t, m), NEW k \in scenario.purged, HasPurged(Now(Frm(slot[r], m)), k),
         NEW d \in 1 .. m, ChangedBefore(Frm(slot[r], d).code, Frm(slot[r], d).pc, scenario.touched), calm'
  PROVE  Cleared(k)'
<1> DEFINE s == slot[r]
           x == Now(Frm(s, m))
<1>0. IInv /\ Acknowledged(s) /\ PurgedAbove(s) /\ m \in 1 .. Height(s) /\ Stacked(s) /\ s.frames # <<>>
  BY StepWorks DEF FreshInv, EffectInv, FlowInv, EffectPart, FreshPart, FreshSlot, Past
<1>1. Height(s) \in Nat \ {0} /\ d \in 1 .. Height(s) /\ m \in Nat /\ d < m + 1
  <2>1. Height(s) \in Nat \ {0}
    BY <1>0, FrmTyped
  <2> QED BY <1>0, <2>1
<1>2. written /\ calm
  BY <1>0, <1>1, CalmFalls DEF Acknowledged
<1>3. CASE x.op \in {"Del", "Purge"} /\ x.arg = k
  <2>1. IInv /\ x = Now(Frm(slot[r], m))
    BY <1>0
  <2> HIDE DEF x
  <2> QED BY <1>3, <2>1, PurgeClears
<1>4. CASE Waits(x) /\ k \in Clearing[x.arg]
  <2> DEFINE f == Up(s)
  <2>1. x.arg \in DOMAIN Prog
    BY <1>4 DEF Waits, Calls
  <2>2. ClearingProgram(Prog[x.arg], k)
    BY <1>4, <2>1, EffectAssumption
  <2>3. /\ m + 1 \in 1 .. Height(s) /\ f = Frm(s, m + 1) /\ f.code = Prog[x.arg] /\ f.code \in Codes
        /\ f.pc \in Nat /\ f.pc > Len(f.code.steps)
    BY <1>4, <2>2, WaitedProgram DEF ClearingProgram
  <2>4. PurgedBefore(f.code, f.pc, k)
    <3>1. PurgedBefore(f.code, Len(f.code.steps) + 1, k)
      BY <2>2, <2>3 DEF ClearingProgram
    <3> HIDE DEF f
    <3> QED BY <2>3, <3>1, FreshLast
  <2>5. Cleared(k)
    BY <1>0, <1>1, <1>2, <2>3, <2>4 DEF PurgedAbove
  <2> QED BY <1>2, <2>5, ClearedStays
<1> QED BY <1>3, <1>4 DEF HasPurged

LEMMA RenewedPast ==
  ASSUME FreshInv, NEW r \in Slots, Step(r), ~Begin(r), NEW t, t = slot'[r], t.st # "idle", NEW m, Past(slot[r], t, m)
  PROVE  Renewed(Frm(t, m))'
<1> DEFINE s == slot[r]
           f == Frm(s, m)
           c == f.code
           n == f.pc
           x == Now(f)
           T == scenario.touched
<1>0. /\ IInv /\ Stacked(s) /\ s.frames # <<>> /\ scenario' = scenario /\ (written => written')
      /\ Acknowledged(s) /\ m \in 1 .. Height(s) /\ n \in 1 .. Len(c.steps)
      /\ Frm(t, m).code = c /\ Frm(t, m).pc = n + 1
  <2>1. IInv
    BY DEF FreshInv, EffectInv, FlowInv
  <2> QED BY <2>1, StepWorks, OthersStay, CalmFalls DEF FreshInv, EffectInv, EffectPart, Past
<1>1. c \in Codes /\ x = c.steps[n] /\ m \in 1 .. m
  <2>1. Height(s) \in Nat
    BY <1>0, FrmTyped
  <2> QED BY <1>0, <2>1, FrmTyped DEF Now
<1> SUFFICES ASSUME NEW k \in scenario.purged, RenewedBefore(c, n + 1, T, k)
             PROVE  written' /\ (calm' => Cleared(k)')
  BY <1>0 DEF Renewed
<1>2. \/ RenewedBefore(c, n, T, k)
      \/ HasPurged(x, k) /\ ChangedBefore(c, n, T)
      \/ Waits(x) /\ \E o \in T : <<o, k>> \in Renewing[x.arg]
  <2> HIDE DEF c, n, x, T
  <2> QED BY <1>0, <1>1, FreshNext
<1>3. ASSUME written, calm => Cleared(k)
      PROVE  written' /\ (calm' => Cleared(k)')
  BY <1>0, <1>3, StillCleared
<1>4. CASE RenewedBefore(c, n, T, k)
  <2>1. Renewed(f)
    BY <1>0 DEF FreshInv, FreshPart, FreshSlot
  <2> QED BY <1>3, <1>4, <2>1 DEF Renewed
<1>5. CASE HasPurged(x, k) /\ ChangedBefore(c, n, T)
  <2>1. written
    BY <1>0, <1>5 DEF Acknowledged
  <2>2. calm' => Cleared(k)'
    BY <1>1, <1>5, PurgedPast
  <2> QED BY <1>0, <2>1, <2>2
<1>6. CASE Waits(x) /\ \E o \in T : <<o, k>> \in Renewing[x.arg]
  <2> DEFINE g == Up(s)
  <2>1. x.arg \in DOMAIN Prog
    BY <1>6 DEF Waits, Calls
  <2>2. PICK o \in T : <<o, k>> \in Renewing[x.arg]
    BY <1>6
  <2>3. o \in Tracked /\ k \in DOMAIN Dims
    BY <1>0, ScenarioParts
  <2>4. RenewingProgram(Prog[x.arg], o, k)
    BY <2>1, <2>2, <2>3, EffectAssumption
  <2>5. /\ m + 1 \in 1 .. Height(s) /\ g = Frm(s, m + 1) /\ g.code = Prog[x.arg] /\ g.code \in Codes
        /\ g.pc \in Nat /\ g.pc > Len(g.code.steps)
    BY <1>6, <2>4, WaitedProgram DEF RenewingProgram
  <2>6. RenewedBefore(g.code, g.pc, T, k)
    <3>1. RenewedBefore(g.code, Len(g.code.steps) + 1, {o}, k) /\ {o} \subseteq T
      BY <2>2, <2>4, <2>5 DEF RenewingProgram
    <3> HIDE DEF g, T
    <3> QED BY <2>5, <3>1, FreshLast
  <2>7. Renewed(g)
    BY <2>5 DEF FreshInv, FreshPart, FreshSlot
  <2> QED BY <1>3, <2>6, <2>7 DEF Renewed
<1> QED BY <1>2, <1>4, <1>5, <1>6

-----------------------------------------------------------------------------
(* One handler moves.                                                      *)

\* A program that begins holds nothing and has done nothing.
LEMMA FrameFresh ==
  ASSUME NEW p \in DOMAIN Prog, NEW f, f = Frame(p)
  PROVE  Untainted(f) /\ UpToDate(f)' /\ Renewed(f)' /\ \A k : ~PurgedBefore(f.code, f.pc, k)
<1>1. f.pc = 1 /\ f.code \in Codes /\ f.val = Blank
  BY DEF Frame, Codes
<1>2. ~f.val.old
  BY <1>1 DEF Blank
<1>3. \A k, T : ~PurgedBefore(f.code, f.pc, k) /\ ~RenewedBefore(f.code, f.pc, T, k)
  BY <1>1, FreshFirst
<1> QED BY <1>2, <1>3 DEF Untainted, UpToDate, Renewed

\* A frame that stays, of the handler that moves.
LEMMA StayFresh ==
  ASSUME FreshInv, NEW r \in Slots, Step(r), NEW d \in 1 .. Height(slot[r]), NEW f, f = Frm(slot[r], d)
  PROVE  Untainted(f) /\ UpToDate(f)' /\ Renewed(f)'
<1>0. IInv
  BY DEF FreshInv, EffectInv, FlowInv
<1>1. scenario' = scenario /\ (calm' => calm) /\ (written => written')
  BY <1>0, OthersStay, CalmFalls
<1>2. Untainted(f) /\ UpToDate(f) /\ Renewed(f)
  BY DEF FreshInv, FreshPart, FreshSlot
<1>3. UpToDate(f)'
  BY <1>1, <1>2, ChangerFrames DEF UpToDate
<1>4. Renewed(f)'
  BY <1>1, <1>2, StillCleared DEF Renewed
<1> QED BY <1>2, <1>3, <1>4

LEMMA PurgedAboveStep ==
  ASSUME FreshInv, NEW r \in Slots, Step(r), ~Begin(r), NEW t, t = slot'[r], t.st # "idle"
  PROVE  PurgedAbove(t)'
<1> DEFINE s == slot[r]
           T == scenario.touched
<1>0. IInv /\ Stacked(s) /\ s.frames # <<>> /\ Walk(r, s, t) /\ scenario' = scenario /\ (calm' => calm)
  <2>1. IInv
    BY DEF FreshInv, EffectInv, FlowInv
  <2> QED BY <2>1, StepWorks, WalkNext, OthersStay, CalmFalls
<1> SUFFICES ASSUME NEW d \in 1 .. Height(t), NEW e \in 1 .. Height(t), NEW k \in scenario.purged, d < e,
                    ChangedBefore(Frm(t, d).code, Frm(t, d).pc, T),
                    PurgedBefore(Frm(t, e).code, Frm(t, e).pc, k), calm'
             PROVE  Cleared(k)'
  BY <1>0 DEF PurgedAbove
<1>1. Height(t) \in Nat \ {0} /\ Height(s) \in Nat \ {0}
  BY <1>0, WalkFrames
<1>2. d # Height(t)
  BY <1>1
<1>3. Frm(t, d) = Frm(s, d) /\ d \in 1 .. Height(s)
  BY <1>0, <1>2, WalkFrames
<1>4. written
  BY <1>3 DEF FreshInv, EffectInv, EffectPart, Acknowledged
<1>5. ASSUME e \in 1 .. Height(s), PurgedBefore(Frm(s, e).code, Frm(s, e).pc, k) PROVE Cleared(k)'
  <2>1. calm => Cleared(k)
    BY <1>3, <1>5 DEF FreshInv, FreshPart, FreshSlot, PurgedAbove
  <2> QED BY <1>4, <2>1, StillCleared
<1>6. CASE Frm(t, e) = Frm(s, e) /\ e \in 1 .. Height(s)
  BY <1>5, <1>6
<1>7. CASE e = Height(t) /\ Past(s, t, e)
  <2> DEFINE c == Frm(s, e).code
             n == Frm(s, e).pc
             x == Now(Frm(s, e))
  <2>1. e \in 1 .. Height(s) /\ n \in 1 .. Len(c.steps) /\ Frm(t, e).code = c /\ Frm(t, e).pc = n + 1
    BY <1>7 DEF Past
  <2>2. c \in Codes /\ x = c.steps[n]
    BY <1>0, <2>1, FrmTyped DEF Now
  <2>3. PurgedBefore(c, n + 1, k)
    BY <2>1
  <2>4. PurgedBefore(c, n, k) \/ HasPurged(x, k)
    <3> HIDE DEF c, n, x
    <3> QED BY <2>1, <2>2, <2>3, FreshNext
  <2>5. CASE PurgedBefore(c, n, k)
    BY <1>5, <2>1, <2>5
  <2>6. CASE HasPurged(x, k)
    <3>1. d \in 1 .. e
      BY <1>1
    <3> QED BY <1>3, <1>7, <2>6, <3>1, PurgedPast
  <2> QED BY <2>4, <2>5, <2>6
<1>8. CASE e = Height(t) /\ Deeper(s, t)
  <2>1. Frm(t, e) = Frame(Now(Up(s)).arg) /\ Now(Up(s)).arg \in DOMAIN Prog
    BY <1>8 DEF Deeper, Up, Calls
  <2> QED BY <2>1, FrameFresh
<1> QED BY <1>0, <1>6, <1>7, <1>8, WalkFrames

LEMMA NoneFresh ==
  ASSUME NEW t, t.frames = <<>>
  PROVE  FreshSlot(t) /\ FreshSlot(t)'
<1>1. Height(t) = 0
  BY DEF Height
<1>2. 1 .. 0 = {}
  OBVIOUS
<1> QED BY <1>1, <1>2 DEF FreshSlot, PurgedAbove, Height, Frm

LEMMA FreshSlotStep ==
  ASSUME FreshInv, NEW r \in Slots, Step(r), ~Begin(r), NEW t, t = slot'[r]
  PROVE  FreshSlot(t)'
<1> DEFINE s == slot[r]
<1>0. IInv /\ Stacked(s) /\ s.frames # <<>> /\ Walk(r, s, t)
  BY StepWorks, WalkNext DEF FreshInv, EffectInv, FlowInv
<1>1. CASE t.st = "idle"
  <2>1. t.frames = <<>>
    BY <1>0, <1>1 DEF Walk, Gone, Sunk, Deeper, Stepped, Resumed, Past
  <2> QED BY <2>1, NoneFresh
<1>2. CASE t.st # "idle"
  <2>1. ASSUME NEW d \in 1 .. Height(t), NEW g, g = Frm(t, d)
        PROVE  Untainted(g) /\ UpToDate(g)' /\ Renewed(g)'
    <3>1. CASE g = Frm(s, d) /\ d \in 1 .. Height(s)
      BY <3>1, StayFresh
    <3>2. CASE Past(s, t, d)
      <4>1. Untainted(g) /\ UpToDate(Frm(t, d))'
        BY <1>2, <2>1, <3>2, PastFresh
      <4>2. Renewed(Frm(t, d))'
        BY <1>2, <3>2, RenewedPast
      <4> QED BY <2>1, <4>1, <4>2
    <3>3. CASE d = Height(t) /\ Deeper(s, t)
      <4>1. g = Frame(Now(Up(s)).arg) /\ Now(Up(s)).arg \in DOMAIN Prog
        BY <2>1, <3>3 DEF Deeper, Up, Calls
      <4> QED BY <4>1, FrameFresh
    <3> QED BY <1>0, <1>2, <2>1, <3>1, <3>2, <3>3, WalkFrames
  <2>2. PurgedAbove(t)'
    BY <1>2, PurgedAboveStep
  <2> QED BY <2>1, <2>2 DEF FreshSlot, Untainted, UpToDate, Renewed, Height, Frm
<1> QED BY <1>1, <1>2

\* The other handlers: once the object changes in calm, they have no frames.
LEMMA OthersFresh ==
  ASSUME FreshInv, NEW r \in Slots, Step(r), NEW q \in Slots, q # r, NEW t, t = slot[q]
  PROVE  FreshSlot(t)'
<1>0. IInv /\ FreshSlot(t) /\ Resting(q) /\ Acknowledged(t)
  BY DEF FreshInv, EffectInv, EffectPart, FlowInv, FreshPart
<1>1. /\ scenario' = scenario /\ (calm' => calm) /\ (written => written')
      /\ written' /\ ~written => (calm' => t.st = "idle")
  BY <1>0, OthersStay, CalmFalls
<1>2. CASE t.frames = <<>>
  BY <1>2, NoneFresh
<1>3. CASE t.st # "idle"
  <2>1. ASSUME NEW d \in 1 .. Height(t), NEW f, f = Frm(t, d)
        PROVE  Untainted(f) /\ UpToDate(f)' /\ Renewed(f)'
    <3>1. Untainted(f) /\ UpToDate(f) /\ Renewed(f)
      BY <1>0, <2>1 DEF FreshSlot
    <3>2. UpToDate(f)'
      BY <1>1, <1>3, <3>1 DEF UpToDate
    <3>3. Renewed(f)'
      BY <1>1, <3>1, StillCleared DEF Renewed
    <3> QED BY <3>1, <3>2, <3>3
  <2>2. ASSUME NEW d \in 1 .. Height(t), NEW e \in 1 .. Height(t), NEW k \in scenario.purged, d < e,
               ChangedBefore(Frm(t, d).code, Frm(t, d).pc, scenario.touched),
               PurgedBefore(Frm(t, e).code, Frm(t, e).pc, k), calm'
        PROVE  Cleared(k)'
    <3>1. written
      BY <1>0, <2>2 DEF Acknowledged
    <3>2. calm => Cleared(k)
      BY <1>0, <2>2 DEF FreshSlot, PurgedAbove
    <3> QED BY <2>2, <3>1, <3>2, StillCleared
  <2>3. PurgedAbove(t)'
    BY <1>1, <2>2 DEF PurgedAbove, Height, Frm
  <2> QED BY <2>1, <2>3 DEF FreshSlot, Untainted, UpToDate, Renewed, Height, Frm
<1> QED BY <1>0, <1>2, <1>3 DEF Resting

\* What is stored under a steady namespace holds nothing old.
LEMMA StoredFresh ==
  ASSUME FreshInv, NEW r \in Slots, NEW e, Stores(r, e), e.key \in SteadyKeys
  PROVE  ~e.val.old
<1> DEFINE s == slot[r]
           f == Up(s)
           h == Height(s)
<1>0. IInv /\ Stacked(s) /\ s.frames # <<>>
  BY DEF FreshInv, EffectInv, FlowInv, IInv, Stacked, Stores
<1>1. h \in Nat \ {0} /\ h \in 1 .. h /\ f = Frm(s, h) /\ f.code \in Codes
  BY <1>0, FrmTyped DEF Up
<1>2. f.pc \in DOMAIN f.code.steps /\ e.key = Now(f).arg
  BY <1>1, CodeDomain DEF Stores
<1>3. CASE e.val = Blank
  BY <1>3 DEF Blank
<1>4. CASE Now(f).op \in {"Put", "PutWhole", "PutIfSome"} /\ e.val = f.val
  <2>1. Now(f).op \in Puts \ {"Nothing"}
    BY <1>4 DEF Puts
  <2>2. SteadyBefore(f.code, f.pc)
    BY <1>1, <1>2, <2>1, FreshAssumption DEF Codes, Now
  <2>3. Untainted(f)
    BY <1>1 DEF FreshInv, FreshPart, FreshSlot
  <2> QED BY <1>4, <2>2, <2>3 DEF Untainted
<1> QED BY <1>3, <1>4 DEF Stores

\* When the writer answers, every frame of it is past its last step.
LEMMA WriterFresh ==
  ASSUME FreshInv, NEW r \in Slots, Step(r), ~Begin(r), scenario.writer = r, Gone(r, slot[r], slot'[r]),
         slot'[r].kind = "ok", NEW k \in scenario.purged
  PROVE  written /\ (calm => Cleared(k))
<1> DEFINE s == slot[r]
           f == Up(s)
           c == f.code
           T == scenario.touched
<1>0. IInv /\ FlowInv /\ Stacked(s) /\ s.frames # <<>>
  BY StepWorks DEF FreshInv, EffectInv, FlowInv
<1>1. Height(s) = 1 /\ \E v : Returns(r, s, v)
  BY DEF Gone
<1>2. f = Frm(s, 1) /\ c = Prog[Program(r)] /\ 1 \in 1 .. Height(s)
  BY <1>0, <1>1, LinkedFrames DEF Up
<1>3. Straight(c) /\ RenewedBefore(c, Len(c.steps) + 1, T, k)
  BY <1>0, <1>2, ScenarioParts
<1>4. Ended(f)
  BY <1>0, <1>1, <1>3, StraightReturns
<1>5. c \in Codes /\ f.pc \in Nat /\ f.pc > Len(c.steps)
  BY <1>0, <1>2, <1>4, FrmTyped DEF Ended
<1>6. RenewedBefore(c, f.pc, T, k)
  <2> HIDE DEF f, T
  <2> QED BY <1>3, <1>5, FreshLast
<1>7. Renewed(f)
  BY <1>2 DEF FreshInv, FreshPart, FreshSlot
<1> QED BY <1>6, <1>7 DEF Renewed

LEMMA FreshStep ==
  ASSUME FreshInv, NEW r \in Slots, Step(r), ~Begin(r)
  PROVE  FreshPart'
<1>0. /\ IInv /\ Walk(r, slot[r], slot'[r]) /\ scenario' = scenario /\ (\A q \in Slots : q # r => slot'[q] = slot[q])
      /\ (written => written')
  <2>1. IInv
    BY DEF FreshInv, EffectInv, FlowInv
  <2> QED BY <2>1, WalkNext, OthersStay, CalmFalls
<1>1. ASSUME NEW q \in Slots PROVE FreshSlot(slot[q])'
  <2>1. PICK t : t = slot'[q]
    OBVIOUS
  <2>2. FreshSlot(t)'
    BY <1>0, <2>1, FreshSlotStep, OthersFresh
  <2> QED BY <2>1, <2>2
<1>2. ASSUME NEW e \in cache', e.key \in SteadyKeys PROVE ~e.val.old
  BY <1>0, <1>2, CachedBy, StoredFresh DEF FreshInv, FreshPart
<1>3. ASSUME scenario.writer \in Slots, slot'[scenario.writer].kind = "ok", NEW k \in scenario.purged
      PROVE  written' /\ (calm' => Cleared(k)')
  <2> DEFINE w == scenario.writer
  <2>1. CASE slot[w].kind = "ok"
    <3>1. written /\ (calm => Cleared(k))
      BY <1>3, <2>1 DEF FreshInv, FreshPart, Answered
    <3> QED BY <1>0, <3>1, StillCleared
  <2>2. CASE w = r /\ Gone(r, slot[r], slot'[r])
    <3>1. written /\ (calm => Cleared(k))
      BY <1>3, <2>2, WriterFresh
    <3> QED BY <1>0, <3>1, StillCleared
  <2> QED BY <1>0, <1>3, <2>1, <2>2 DEF Walk
<1>4. (scenario.writer \in Slots /\ Answered(scenario.writer) =>
         \A k \in scenario.purged : written /\ (calm => Cleared(k)))'
  BY <1>0, <1>3 DEF Answered
<1> QED BY <1>1, <1>2, <1>4 DEF FreshPart

-----------------------------------------------------------------------------
(* The steps that walk through no program.                                 *)
LEMMA BeginFresh ==
  ASSUME FreshInv, NEW r \in Slots, Begin(r)
  PROVE  FreshPart'
<1>0. IInv
  BY DEF FreshInv, EffectInv, FlowInv
<1>1. PICK t : t = slot'[r]
  OBVIOUS
<1>2. /\ Height(t) = 1 /\ Frm(t, 1) = Frame(Program(r)) /\ t.kind = None /\ Program(r) \in DOMAIN Prog
      /\ UNCHANGED <<scenario, cache, written, calm>> /\ \A q \in Slots : q # r => slot'[q] = slot[q]
  BY <1>0, <1>1, BeginShape
<1>3. FreshSlot(t)'
  <2>1. (\A d \in 1 .. 1 : d = 1) /\ ~ \E d, e \in 1 .. 1 : d < e
    OBVIOUS
  <2>2. PICK f : f = Frame(Program(r))
    OBVIOUS
  <2>3. Untainted(f) /\ UpToDate(f)' /\ Renewed(f)'
    BY <1>2, <2>2, FrameFresh
  <2>4. \A d \in 1 .. Height(t) : Frm(t, d) = f
    BY <1>2, <2>1, <2>2
  <2>5. ~ \E d, e \in 1 .. Height(t) : d < e
    BY <1>2, <2>1
  <2>6. PurgedAbove(t)'
    BY <2>5 DEF PurgedAbove, Height, Frm
  <2> QED BY <2>3, <2>4, <2>6 DEF FreshSlot, Untainted, UpToDate, Renewed, Height, Frm
<1>4. ASSUME NEW q \in Slots PROVE FreshSlot(slot[q])'
  <2>1. CASE q = r
    BY <1>1, <1>3, <2>1
  <2>2. CASE q # r
    <3>1. FreshSlot(slot[q]) /\ slot'[q] = slot[q]
      BY <1>2, <2>2 DEF FreshInv, FreshPart
    <3> QED BY <1>2, <3>1 DEF FreshSlot, Untainted, UpToDate, Renewed, PurgedAbove, Cleared, Height, Frm
  <2> QED BY <2>1, <2>2
<1>5. (scenario.writer \in Slots /\ Answered(scenario.writer) =>
         \A k \in scenario.purged : written /\ (calm => Cleared(k)))'
  BY <1>1, <1>2 DEF FreshInv, FreshPart, Answered, Cleared, None
<1> QED BY <1>2, <1>4, <1>5 DEF FreshInv, FreshPart

LEMMA RestFresh ==
  ASSUME FreshInv, Expire \/ CommandFails \/ Connect \/ Crash \/ UNCHANGED vars
  PROVE  FreshPart'
<1>0. IInv
  BY DEF FreshInv, EffectInv, FlowInv
<1>1. UNCHANGED <<scenario, written, calm>> /\ cache' \subseteq cache
  BY <1>0, AsideShape, CrashShape
<1>2. \A q \in Slots : slot'[q] = slot[q] \/ (slot'[q].frames = <<>> /\ slot'[q].kind = "lost")
  BY <1>0, AsideShape, CrashShape
<1>3. \A k : Cleared(k) => Cleared(k)'
  BY <1>1 DEF Cleared
<1>4. ASSUME NEW q \in Slots PROVE FreshSlot(slot[q])'
  <2>1. CASE slot'[q] = slot[q]
    <3>1. FreshSlot(slot[q])
      BY DEF FreshInv, FreshPart
    <3> QED BY <1>1, <1>3, <2>1, <3>1 DEF FreshSlot, Untainted, UpToDate, Renewed, PurgedAbove, Height, Frm
  <2>2. CASE slot'[q].frames = <<>>
    <3>1. PICK t : t = slot'[q]
      OBVIOUS
    <3>2. FreshSlot(t)'
      BY <2>2, <3>1, NoneFresh
    <3> QED BY <3>1, <3>2
  <2> QED BY <1>2, <2>1, <2>2
<1>5. (scenario.writer \in Slots /\ Answered(scenario.writer) =>
         \A k \in scenario.purged : written /\ (calm => Cleared(k)))'
  BY <1>1, <1>2, <1>3 DEF FreshInv, FreshPart, Answered
<1> QED BY <1>1, <1>4, <1>5 DEF FreshInv, FreshPart

LEMMA FreshInit == Init => FreshInv
<1> SUFFICES ASSUME Init PROVE FreshInv
  OBVIOUS
<1>1. EffectInv
  BY EffectInit
<1>2. ASSUME NEW r \in Slots PROVE FreshSlot(slot[r]) /\ ~Answered(r)
  <2>1. slot[r].frames = <<>> /\ slot[r].kind = None
    BY InitShape
  <2> QED BY <2>1, NoneFresh DEF Answered, None
<1>3. cache = {}
  BY DEF Init
<1> QED BY <1>1, <1>2, <1>3 DEF FreshInv, FreshPart

LEMMA FreshInvNext == FreshInv /\ [Next]_vars => FreshInv'
<1> SUFFICES ASSUME FreshInv, [Next]_vars PROVE FreshInv'
  OBVIOUS
<1>1. EffectInv'
  BY EffectNext DEF FreshInv
<1>2. ASSUME NEW r \in Slots, Step(r) PROVE FreshPart'
  BY <1>2, BeginFresh, FreshStep
<1>3. FreshPart'
  BY <1>2, RestFresh DEF Next
<1> QED BY <1>1, <1>3 DEF FreshInv

\* When the writer has answered, no purged namespace holds the object as it was before
\* its change, whoever stored there meanwhile, unless a read was in flight across the
\* change or a purge did not reach Valkey.
THEOREM PurgesLeaveFresh == Spec => []FreshUnlessRaced
<1>1. FreshInv => FreshUnlessRaced
  BY DEF FreshInv, FreshPart, FreshUnlessRaced, Cleared
<1> QED BY <1>1, FreshInit, FreshInvNext, PTL DEF Spec
=============================================================================
