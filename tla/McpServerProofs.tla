-------------------------- MODULE McpServerProofs --------------------------
(***************************************************************************)
(* Machine-checked proofs about McpServer, for any number of requests,     *)
(* clients' tokens, configurations, tasks and notes.                       *)
(***************************************************************************)
EXTENDS McpServer, FiniteSetTheorems, SequenceTheorems, TLAPS

\* What the proofs use of the constants.
LEMMA ServerConstants ==
    /\ Slots \subseteq Nat \ {0}
    /\ Callable \subseteq DOMAIN TOOLS /\ Ids \subseteq Nat
    /\ Width \in Nat \ {0} /\ LineCap \in Nat /\ Capacity \in Nat /\ MaxEvents \in Nat \ {0}
    /\ MaxTasks \in Nat
    /\ \A c \in Configs :
         c.policy \in {"none", "tag", "all"} /\ c.need \in Nat /\ c.telegram \in BOOLEAN
<1>1. Cardinality(Slots) \in Nat /\ Slots = 1..Cardinality(Slots)
  BY ServerAssumption, FS_CardinalityType DEF ServerAssumption
<1>2. Slots \subseteq Nat \ {0}
  BY <1>1
<1> QED
  BY <1>2, ServerAssumption, WidthAssumption, NotifyAssumption
     DEF ServerAssumption, WidthAssumption, NotifyAssumption

\* The writes of what is left of a program, and of its next step.
LEMMA WritesLeft ==
    ASSUME NEW p \in Seq(Steps), p # <<>>
    PROVE  /\ Tail(p) \in Seq(Steps) /\ Head(p) \in Steps
           /\ Writes(Tail(p)) \subseteq Writes(p)
           /\ Writes(<<Head(p)>>) \subseteq Writes(p)
<1>1. /\ Tail(p) \in Seq(Steps) /\ Head(p) \in Steps /\ Head(p) = p[1]
      /\ Len(p) \in Nat /\ Len(p) >= 1 /\ DOMAIN p = 1..Len(p)
      /\ DOMAIN Tail(p) = 1..(Len(p) - 1)
      /\ \A i \in 1..(Len(p) - 1) : Tail(p)[i] = p[i + 1]
  <2>1. Head(p) = p[1] /\ Head(p) \in Steps /\ Tail(p) \in Seq(Steps)
        /\ Len(Tail(p)) = Len(p) - 1 /\ \A i \in 1..Len(Tail(p)) : Tail(p)[i] = p[i + 1]
    BY HeadTailProperties
  <2> QED
    BY <2>1, LenProperties, EmptySeq
<1>2. Writes(Tail(p)) \subseteq Writes(p)
  <2> SUFFICES ASSUME NEW i \in 1..(Len(p) - 1), Tail(p)[i].do = "call",
                      Verb[Tail(p)[i].op] # "GET"
               PROVE  Tail(p)[i].op \in Writes(p)
    BY <1>1 DEF Writes
  <2>1. i + 1 \in DOMAIN p /\ Tail(p)[i] = p[i + 1]
    BY <1>1
  <2> QED
    BY <2>1 DEF Writes
<1>3. Writes(<<Head(p)>>) \subseteq Writes(p)
  <2> DEFINE q == <<Head(p)>>
  <2>1. DOMAIN q = {1} /\ q[1] = p[1] /\ 1 \in DOMAIN p
    BY <1>1
  <2> HIDE DEF q
  <2>2. Writes(q) \subseteq Writes(p)
    BY <2>1 DEF Writes
  <2> QED
    BY <2>2 DEF q
<1> QED
  BY <1>1, <1>2, <1>3

\* A tool that is run by the server itself powers a guest on at most.
LEMMA InlineHarmless ==
    ASSUME NEW t \in DOMAIN TOOLS \ Destructive, NEW p \in programs[t]
    PROVE  p \in Seq(Steps) /\ Writes(p) \subseteq Harmless
<1>1. p \in Seq(Steps)
  BY ProgramsAreSteps
<1>2. p \in UNION {programs[u] : u \in DOMAIN TOOLS \ Destructive}
  OBVIOUS
<1>3. Writes(p) \subseteq UNION {Writes(q) : q \in UNION {programs[u] : u \in DOMAIN TOOLS \ Destructive}}
  BY <1>2
<1>4. UNION {Writes(q) : q \in UNION {programs[u] : u \in DOMAIN TOOLS \ Destructive}} = Harmless
  BY OnlyPowerOnIsInline DEF OnlyPowerOnIsInline, Harmless
<1> QED
  BY <1>1, <1>3, <1>4

\* What is written are operations of the programs.
LEMMA WritesTyped ==
    ASSUME NEW p \in Seq(Steps)
    PROVE  Writes(p) \subseteq {s.op : s \in Steps}
<1>1. \A i \in DOMAIN p : p[i] \in Steps
  BY ElementOfSeq, LenProperties
<1> QED
  BY <1>1 DEF Writes

----------------------------------------------------------------------------
(* One request.                                                            *)

\* A request that was not made is one.
LEMMA NoCallOK ==
    /\ NoCall \in Calls /\ CallOK(NoCall) /\ NoCall.st = "free" /\ NoCall.ans = "none"
    /\ NoCall.after = 0 /\ NoCall.snap \in Snaps /\ NoCall.key = ""
    /\ NoCall.row = "none" /\ NoCall.asked = 0 /\ NoCall.sent = {} /\ NoCall.vmid = 0
    /\ NoCall.named = 0 /\ ~NoCall.ran
<1>1. <<>> \in Seq(Steps) /\ 0 \in 0..(Width - 1)
  BY EmptySeq, ServerConstants
<1>2. NoCall \in Calls
  BY <1>1 DEF NoCall, Calls, States, Snaps, Answers
<1>3. CallOK(NoCall)
  BY DEF NoCall, CallOK
<1> QED
  BY <1>2, <1>3 DEF NoCall, Snaps

\* What holds of a request wherever it is.
Sound(c) ==
    /\ c.vmid = c.named
    /\ c.sent \subseteq Harmless
    /\ c.row = "none" => c.asked = 0
    /\ c.asked # 0 => c.asked = c.require
    /\ c.ran => c.asked # 0

\* How a request ends.
LEMMA ClosedOK ==
    ASSUME NEW c \in Calls, Sound(c), NEW st \in {"done", "gone"}, NEW a \in Answers,
           a = "pending" => c.asked # 0,
           a = "refused" => c.row \in {"none", "failed"}
    PROVE  /\ Closed(c, st, a) \in Calls /\ CallOK(Closed(c, st, a))
           /\ Closed(c, st, a).st = st /\ Closed(c, st, a).ans = a
<1>1. st \in States /\ <<>> \in Seq(Steps)
  BY EmptySeq DEF States
<1>2. CASE c.row = "none" /\ c.sent = {}
  <2> DEFINE x == [NoCall EXCEPT !.st = st, !.ans = a, !.after = c.after]
  <2>1. Closed(c, st, a) = x
    BY <1>2 DEF Closed
  <2>2. /\ x \in Calls /\ x.st = st /\ x.ans = a /\ x.after = c.after /\ x.row = "none"
        /\ x.sent = {} /\ x.asked = 0 /\ x.vmid = 0 /\ x.named = 0 /\ x.ran = FALSE
    BY <1>1, NoCallOK DEF Calls, NoCall
  <2> HIDE DEF x
  <2>3. a # "pending"
    BY <1>2 DEF Sound
  <2>4. CallOK(x)
    BY <2>2, <2>3 DEF CallOK
  <2> QED
    BY <2>1, <2>2, <2>4
<1>3. CASE ~(c.row = "none" /\ c.sent = {})
  <2> DEFINE x == [c EXCEPT !.st = st, !.ans = a, !.todo = <<>>, !.snap = NoCall.snap,
                            !.fetched = FALSE]
  <2>1. Closed(c, st, a) = x
    BY <1>3 DEF Closed
  <2>2. /\ x \in Calls /\ x.st = st /\ x.ans = a /\ x.after = c.after /\ x.row = c.row
        /\ x.sent = c.sent /\ x.asked = c.asked /\ x.vmid = c.vmid /\ x.named = c.named
        /\ x.ran = c.ran /\ x.require = c.require
    BY <1>1, NoCallOK DEF Calls
  <2> HIDE DEF x
  <2>3. CallOK(x)
    BY <2>2 DEF CallOK, Sound
  <2> QED
    BY <2>1, <2>2, <2>3
<1> QED
  BY <1>2, <1>3

\* A request that only goes elsewhere keeps the rest.
LEMMA MovedTo ==
    ASSUME NEW c \in Calls, NEW v \in States
    PROVE  LET x == [c EXCEPT !.st = v]
           IN  /\ x \in Calls /\ x.st = v /\ x.after = c.after /\ x.key = c.key
               /\ x.snap = c.snap /\ x.tool = c.tool /\ x.named = c.named /\ x.vmid = c.vmid
               /\ x.todo = c.todo /\ x.sent = c.sent /\ x.row = c.row
               /\ x.require = c.require /\ x.asked = c.asked /\ x.ran = c.ran /\ x.ans = c.ans
  BY DEF Calls

\* The step of one request: where it may go, and what it may write to stdout.
Steps1(s, x) ==
    /\ x \in Calls /\ CallOK(x) /\ (x.ans # "none" <=> x.st = "done")
    /\ x.st = "go" /\ x.after = 0 /\ srv.require_token => x.key # ""
    /\ calls' = [calls EXCEPT ![s] = x]
    /\ out' = out \/ out' = Append(out, s)
    /\ srv.stdio =>
         \/ x.st = calls[s].st /\ out' = out
         \/ calls[s].st \in Working /\ x.st \in Working /\ out' = out
         \/ calls[s].st \in Working /\ x.st = "done"

Shape(s) == \E x : Steps1(s, x)

LEMMA AnswerShape ==
    ASSUME NEW s \in Slots, srv.stdio => calls[s].st \in Working,
           NEW c \in Calls, Sound(c), NEW a \in Answers \ {"none"},
           a = "pending" => c.asked # 0,
           a = "refused" => c.row \in {"none", "failed"},
           Answer1(s, c, a)
    PROVE  Shape(s)
<1> DEFINE x == Closed(c, "done", a)
<1>1. x \in Calls /\ CallOK(x) /\ x.st = "done" /\ x.ans = a
  BY ClosedOK
<1>2. calls' = [calls EXCEPT ![s] = x] /\ (out' = out \/ out' = Append(out, s))
  BY DEF Answer1, Told
<1> HIDE DEF x
<1>3. Steps1(s, x)
  BY <1>1, <1>2 DEF Steps1
<1> QED
  BY <1>3 DEF Shape

LEMMA GoesShape ==
    ASSUME NEW s \in Slots, srv.stdio => calls[s].st \in Working,
           NEW c \in Calls, CallOK(c), c.ans = "none", c.st \in Waiting, Goes(s, c)
    PROVE  Shape(s)
<1>1. c.st # "done" /\ c.st # "go" /\ c.st \in Working
  BY DEF Waiting, Working
<1>2. Steps1(s, c)
  BY <1>1 DEF Steps1, Goes
<1> QED
  BY <1>2 DEF Shape

\* A request that waits goes on to another wait.
LEMMA WaitsShape ==
    ASSUME NEW s \in Slots, srv.stdio => calls[s].st \in Working,
           NEW c \in Calls, Sound(c), c.row = "none", c.ans = "none",
           NEW v \in Waiting \ {"send", "run"}, Goes(s, [c EXCEPT !.st = v])
    PROVE  Shape(s)
<1> DEFINE x == [c EXCEPT !.st = v]
<1>1. v \in States /\ v \notin {"run", "behind", "send", "done", "gone"}
  BY DEF States, Waiting
<1>2. /\ x \in Calls /\ x.st = v /\ x.named = c.named /\ x.vmid = c.vmid
      /\ x.sent = c.sent /\ x.row = c.row /\ x.require = c.require /\ x.asked = c.asked
      /\ x.ran = c.ran /\ x.ans = c.ans
  BY <1>1, MovedTo
<1>3. Goes(s, x)
  OBVIOUS
<1> HIDE DEF x
<1>4. CallOK(x)
  BY <1>1, <1>2 DEF CallOK, Sound
<1> QED
  BY <1>2, <1>3, <1>4, GoesShape

\* What the invariant says of one request.
LEMMA OneCall ==
    ASSUME TypeOK, CallInv, StdioInv, NEW s \in Slots
    PROVE  /\ calls[s] \in Calls /\ CallOK(calls[s]) /\ Sound(calls[s])
           /\ (calls[s].ans # "none" <=> calls[s].st = "done")
           /\ calls[s].st \in Waiting \cup {"go"} =>
                calls[s].ans = "none" /\ (srv.stdio => calls[s].st \in Working)
           /\ calls[s].st \in {"layer", "handler", "behind"} =>
                calls[s].ans = "none" /\ ~srv.stdio
<1>1. calls[s] \in Calls /\ CallOK(calls[s]) /\ (calls[s].ans # "none" <=> calls[s].st = "done")
  BY DEF TypeOK, CallInv
<1>2. Sound(calls[s])
  BY <1>1 DEF CallOK, Sound
<1>3. srv.stdio => calls[s].st \in {"free", "queued", "done"} \cup Working
  BY DEF StdioInv
<1> QED
  BY <1>1, <1>2, <1>3 DEF Working, Waiting

LEMMA SnapTyped == TypeOK => config_snap \in Snaps
<1> SUFFICES ASSUME TypeOK PROVE config_snap \in Snaps
  OBVIOUS
<1> DEFINE p == cfg.policy
           n == cfg.need
           t == cfg.telegram
<1>1. p \in {"none", "tag", "all"} /\ n \in Nat /\ t \in BOOLEAN
  BY ServerConstants DEF TypeOK
<1>2. config_snap = [policy |-> p, need |-> n, telegram |-> t]
  BY DEF config_snap
<1> HIDE DEF p, n, t
<1> QED
  BY <1>1, <1>2 DEF Snaps

\* The head of a call: an accepted number is kept by the narrowing.
LEMMA DispatchShape ==
    ASSUME TypeOK, CallInv, StdioInv, NEW s \in Slots, Dispatch(s)
    PROVE  Shape(s)
<1>1. /\ calls[s] \in Calls /\ Sound(calls[s]) /\ CallOK(calls[s]) /\ calls[s].st = "go"
      /\ calls[s].ans = "none" /\ calls[s].row = "none"
      /\ srv.stdio => calls[s].st \in Working
  BY OneCall DEF Dispatch, CallOK
<1>2. ASSUME NEW a \in {"result", "error", "silent"}, Answer1(s, calls[s], a)
      PROVE  Shape(s)
  BY <1>1, <1>2, AnswerShape DEF Answers
<1>3. ASSUME NEW tool \in Callable, NEW n \in Ids \cup {0}, n \in 0..(Width - 1),
             Gate(s, [calls[s] EXCEPT !.tool = tool, !.snap = config_snap, !.key = "",
                        !.named = n, !.vmid = Narrow(n)])
      PROVE  Shape(s)
  <2> DEFINE c == [calls[s] EXCEPT !.tool = tool, !.snap = config_snap, !.key = "",
                     !.named = n, !.vmid = Narrow(n)]
  <2>1. tool \in DOMAIN TOOLS /\ n \in Nat /\ Narrow(n) = n /\ config_snap \in Snaps
    <3>1. tool \in DOMAIN TOOLS /\ n \in Nat
      BY <1>3, ServerConstants
    <3>2. n % Width = n
      BY <1>3, ServerConstants
    <3> QED
      BY <3>1, <3>2, SnapTyped DEF Narrow
  <2>2. /\ c \in Calls /\ c.st = "go" /\ c.tool = tool /\ c.named = n /\ c.vmid = n
        /\ c.row = "none" /\ c.ans = "none" /\ c.sent = calls[s].sent
        /\ c.require = calls[s].require /\ c.asked = calls[s].asked /\ c.ran = calls[s].ran
    BY <1>1, <1>3, <2>1 DEF Calls
  <2>3. Gate(s, c)
    BY <1>3
  <2> HIDE DEF c
  <2>4. Sound(c)
    BY <1>1, <2>2 DEF Sound
  <2>5. ASSUME tool \notin Destructive, NEW p \in programs[tool], Runs(s, c, p)
        PROVE  Shape(s)
    <3> DEFINE x == [c EXCEPT !.st = "run", !.todo = p, !.snap = NoCall.snap]
    <3>1. p \in Seq(Steps) /\ Writes(p) \subseteq Harmless
      BY <2>1, <2>5, InlineHarmless
    <3>2. /\ x \in Calls /\ x.st = "run" /\ x.named = c.named /\ x.vmid = c.vmid
          /\ x.sent = c.sent /\ x.row = c.row /\ x.require = c.require /\ x.asked = c.asked
          /\ x.ran = c.ran /\ x.ans = c.ans /\ x.todo = p
      BY <2>2, <3>1, NoCallOK DEF Calls, States, Waiting
    <3>3. Goes(s, x)
      BY <2>5 DEF Runs
    <3> HIDE DEF x
    <3>4. CallOK(x)
      BY <2>2, <2>4, <3>1, <3>2 DEF CallOK, Sound
    <3> QED
      BY <1>1, <2>2, <3>2, <3>3, <3>4, GoesShape DEF Waiting
  <2>6. ASSUME Answer1(s, c, "refused")
        PROVE  Shape(s)
    BY <1>1, <2>2, <2>4, <2>6, AnswerShape DEF Answers
  <2>7. ASSUME NEW v \in {"channel", "tags"}, Goes(s, [c EXCEPT !.st = v])
        PROVE  Shape(s)
    BY <1>1, <2>2, <2>4, <2>7, WaitsShape DEF Waiting
  <2> QED
    BY <2>2, <2>3, <2>5, <2>6, <2>7 DEF Gate
<1>4. ASSUME CallTool(s)
      PROVE  Shape(s)
  <2>0. PICK tool \in Callable :
          \E given \in Givings(tool), n \in IF "guest_id" \in TOOLS[tool].needs THEN Ids ELSE {0} :
            \E bad \in {{}} \cup {{p} : p \in given} :
              LET c == [calls[s] EXCEPT !.tool = tool, !.snap = config_snap, !.key = "",
                          !.named = n, !.vmid = Narrow(n)]
              IN  IF Accepts(tool, given, bad, n) THEN Gate(s, c)
                  ELSE Answer1(s, calls[s], "error")
    BY <1>4 DEF CallTool
  <2>1. PICK given \in Givings(tool), n \in IF "guest_id" \in TOOLS[tool].needs THEN Ids ELSE {0} :
          \E bad \in {{}} \cup {{p} : p \in given} :
            LET c == [calls[s] EXCEPT !.tool = tool, !.snap = config_snap, !.key = "",
                        !.named = n, !.vmid = Narrow(n)]
            IN  IF Accepts(tool, given, bad, n) THEN Gate(s, c)
                ELSE Answer1(s, calls[s], "error")
    BY <2>0
  <2>2. n \in Ids \cup {0}
    BY <2>1
  <2>3. \/ Answer1(s, calls[s], "error")
        \/ /\ n \in 0..(Width - 1)
           /\ Gate(s, [calls[s] EXCEPT !.tool = tool, !.snap = config_snap, !.key = "",
                         !.named = n, !.vmid = Narrow(n)])
    BY <2>1 DEF Accepts
  <2> QED
    BY <1>2, <1>3, <2>2, <2>3
<1> QED
  BY <1>2, <1>4 DEF Dispatch

\* store.insert: the row waits for as many approvals as the message will ask.
LEMMA RecordShape ==
    ASSUME NEW s \in Slots, srv.stdio => calls[s].st \in Working,
           NEW c \in Calls, Sound(c), c.row = "none", c.ans = "none", Record(s, c)
    PROVE  Shape(s)
<1>1. ASSUME Answer1(s, c, "error")
      PROVE  Shape(s)
  BY <1>1, AnswerShape DEF Answers
<1>2. ASSUME Goes(s, Recorded(c))
      PROVE  Shape(s)
  <2> DEFINE x == Recorded(c)
  <2>1. /\ x \in Calls /\ x.st = "send" /\ x.row = "pending" /\ x.require = x.snap.need
        /\ x.named = c.named /\ x.vmid = c.vmid /\ x.sent = c.sent /\ x.asked = c.asked
        /\ x.ran = c.ran /\ x.ans = c.ans
    BY DEF Recorded, Calls, Snaps, States, Waiting
  <2>2. Goes(s, x)
    BY <1>2
  <2> HIDE DEF x
  <2>3. CallOK(x)
    BY <2>1 DEF CallOK, Sound
  <2> QED
    BY <2>1, <2>2, <2>3, GoesShape DEF Waiting
<1> QED
  BY <1>1, <1>2 DEF Record

LEMMA ResolvedShape ==
    ASSUME NEW s \in Slots, srv.stdio => calls[s].st \in Working,
           NEW c \in Calls, Sound(c), c.row = "none", c.ans = "none", Resolved(s, c)
    PROVE  Shape(s)
<1>1. ASSUME Goes(s, [c EXCEPT !.st = "risk"])
      PROVE  Shape(s)
  BY <1>1, WaitsShape DEF Waiting
<1> QED
  BY <1>1, RecordShape DEF Resolved

\* Up to the row nothing was recorded; a failed wait is an answer.
LEMMA AskingShape ==
    ASSUME TypeOK, CallInv, StdioInv, NEW s \in Slots,
           TagsRead(s) \/ ChannelReady(s) \/ GuestFound(s) \/ RiskAssessed(s)
    PROVE  Shape(s)
<1> DEFINE c == calls[s]
<1>1. /\ c \in Calls /\ Sound(c) /\ c.ans = "none" /\ c.row = "none"
      /\ srv.stdio => calls[s].st \in Working
  BY OneCall DEF TagsRead, ChannelReady, GuestFound, RiskAssessed, CallOK, Waiting
<1>2. ASSUME NEW a \in {"refused", "error"}, Answer1(s, c, a)
      PROVE  Shape(s)
  BY <1>1, <1>2, AnswerShape DEF Answers
<1>3. ASSUME Record(s, c)
      PROVE  Shape(s)
  BY <1>1, <1>3, RecordShape
<1>4. ASSUME Resolved(s, c)
      PROVE  Shape(s)
  BY <1>1, <1>4, ResolvedShape
<1>5. ASSUME Goes(s, [c EXCEPT !.st = "find"])
      PROVE  Shape(s)
  BY <1>1, <1>5, WaitsShape DEF Waiting
<1>6. ASSUME Goes(s, [c EXCEPT !.st = "channel", !.fetched = TRUE])
      PROVE  Shape(s)
  <2> DEFINE d == [c EXCEPT !.fetched = TRUE]
  <2>1. /\ d \in Calls /\ d.named = c.named /\ d.vmid = c.vmid /\ d.sent = c.sent
        /\ d.asked = c.asked /\ d.require = c.require /\ d.row = c.row
        /\ d.ran = c.ran /\ d.ans = c.ans
    BY <1>1 DEF Calls
  <2>2. [c EXCEPT !.st = "channel", !.fetched = TRUE] = [d EXCEPT !.st = "channel"]
    BY <1>1 DEF Calls
  <2>3. Goes(s, [d EXCEPT !.st = "channel"])
    BY <1>6, <2>2
  <2> HIDE DEF d
  <2>4. Sound(d)
    BY <1>1, <2>1 DEF Sound
  <2> QED
    BY <1>1, <2>1, <2>3, <2>4, WaitsShape DEF Waiting
<1>7. CASE TagsRead(s)
  BY <1>2, <1>6, <1>7 DEF TagsRead
<1>8. CASE ChannelReady(s)
  BY <1>2, <1>3, <1>4, <1>5, <1>8 DEF ChannelReady
<1>9. CASE GuestFound(s)
  BY <1>2, <1>4, <1>9 DEF GuestFound
<1>10. CASE RiskAssessed(s)
  BY <1>2, <1>3, <1>10 DEF RiskAssessed
<1> QED
  BY <1>7, <1>8, <1>9, <1>10

\* The message, and what became of it.
LEMMA SendShape ==
    ASSUME TypeOK, CallInv, StdioInv, NEW s \in Slots,
           SendAnswered(s) \/ SendFailed(s) \/ Timeout(s)
    PROVE  Shape(s)
<1> DEFINE c == calls[s]
           f == [c EXCEPT !.row = "failed"]
<1>1. /\ c \in Calls /\ Sound(c)
      /\ srv.stdio => calls[s].st \in Working
  BY OneCall DEF SendAnswered, SendFailed, Timeout, Waiting
<1>2. ASSUME NEW a \in {"error", "timeout"}, Answer1(s, c, a)
      PROVE  Shape(s)
  BY <1>1, <1>2, AnswerShape DEF Answers
<1>3. ASSUME c.asked # 0, Answer1(s, c, "pending")
      PROVE  Shape(s)
  BY <1>1, <1>3, AnswerShape DEF Answers
<1>4. ASSUME Answer1(s, f, "refused")
      PROVE  Shape(s)
  <2>1. /\ f \in Calls /\ f.row = "failed" /\ f.named = c.named /\ f.vmid = c.vmid
        /\ f.sent = c.sent /\ f.asked = c.asked /\ f.require = c.require /\ f.ran = c.ran
    BY <1>1 DEF Calls
  <2>2. Answer1(s, f, "refused")
    BY <1>4
  <2> HIDE DEF f
  <2>3. Sound(f)
    BY <1>1, <2>1 DEF Sound
  <2> QED
    BY <1>1, <2>1, <2>2, <2>3, AnswerShape DEF Answers
<1> QED
  BY <1>2, <1>3, <1>4 DEF SendAnswered, SendFailed, Timeout

\* A step of a tool the server runs itself.
LEMMA RunShape ==
    ASSUME TypeOK, CallInv, StdioInv, NEW s \in Slots, RunStep(s)
    PROVE  Shape(s)
<1> DEFINE c == calls[s]
           does == [c EXCEPT !.todo = Tail(@), !.sent = @ \cup Writes(<<Head(c.todo)>>)]
<1>1. /\ c \in Calls /\ Sound(c) /\ CallOK(c) /\ c.st = "run" /\ c.ans = "none"
      /\ srv.stdio => calls[s].st \in Working
  BY OneCall DEF RunStep, Waiting
<1>2. ASSUME Answer1(s, c, "result")
      PROVE  Shape(s)
  BY <1>1, <1>2, AnswerShape DEF Answers
<1>3. ASSUME c.todo # <<>>, Goes(s, does) \/ Answer1(s, does, "error")
      PROVE  Shape(s)
  <2>1. c.todo \in Seq(Steps) /\ Writes(c.todo) \subseteq Harmless
    BY <1>1 DEF Calls, CallOK
  <2>2. /\ Tail(c.todo) \in Seq(Steps)
        /\ Writes(Tail(c.todo)) \subseteq Harmless
        /\ Writes(<<Head(c.todo)>>) \subseteq Harmless
        /\ Writes(<<Head(c.todo)>>) \subseteq {t.op : t \in Steps}
    BY <1>3, <2>1, WritesLeft, WritesTyped
  <2> DEFINE W == Writes(<<Head(c.todo)>>)
             T == Tail(c.todo)
  <2>3. does = [c EXCEPT !.todo = T, !.sent = c.sent \cup W]
    BY <1>1 DEF Calls
  <2>4. T \in Seq(Steps) /\ Writes(T) \subseteq Harmless /\ W \subseteq Harmless
        /\ W \subseteq {t.op : t \in Steps}
    BY <2>2
  <2>6. Goes(s, does) \/ Answer1(s, does, "error")
    BY <1>3
  <2> HIDE DEF W, T, does
  <2>5. /\ does \in Calls /\ does.st = "run" /\ does.ans = "none" /\ does.todo = T
        /\ does.sent = c.sent \cup W /\ does.named = c.named /\ does.vmid = c.vmid
        /\ does.row = c.row /\ does.asked = c.asked /\ does.require = c.require
        /\ does.ran = c.ran
    BY <1>1, <2>3, <2>4 DEF Calls
  <2>7. Sound(does) /\ CallOK(does)
    BY <1>1, <2>4, <2>5 DEF Sound, CallOK
  <2>8. CASE Goes(s, does)
    BY <1>1, <2>5, <2>7, <2>8, GoesShape DEF Waiting
  <2>9. CASE Answer1(s, does, "error")
    BY <1>1, <2>5, <2>7, <2>9, AnswerShape DEF Answers
  <2> QED
    BY <2>6, <2>8, <2>9
<1> QED
  BY <1>2, <1>3 DEF RunStep

\* What happens to a row elsewhere: Telegram shows it, the daemon runs it.
LEMMA RowShape ==
    ASSUME TypeOK, CallInv, StdioInv, NEW s \in Slots, Deliver(s) \/ Execute(s)
    PROVE  Shape(s)
<1> DEFINE c == calls[s]
<1>1. /\ c \in Calls /\ CallOK(c) /\ c.row = "pending"
      /\ (c.ans # "none" <=> c.st = "done")
      /\ c.st \in {"send", "done", "gone"}
  BY OneCall DEF Deliver, Execute, CallOK
<1>2. CASE Deliver(s)
  <2> DEFINE x == [c EXCEPT !.asked = c.snap.need]
  <2>1. calls' = [calls EXCEPT ![s] = x] /\ out' = out /\ c.st = "send" /\ c.asked = 0
    BY <1>1, <1>2 DEF Deliver, Calls
  <2>2. /\ x \in Calls /\ x.st = c.st /\ x.ans = c.ans /\ x.asked = c.snap.need
        /\ x.snap = c.snap /\ x.sent = c.sent /\ x.named = c.named /\ x.vmid = c.vmid
        /\ x.row = c.row /\ x.require = c.require /\ x.ran = c.ran
    BY <1>1 DEF Calls, Snaps
  <2> HIDE DEF x
  <2>3. CallOK(x)
    BY <1>1, <2>1, <2>2 DEF CallOK
  <2>4. Steps1(s, x)
    BY <1>1, <2>1, <2>2, <2>3 DEF Steps1
  <2> QED
    BY <2>4 DEF Shape
<1>3. CASE Execute(s)
  <2>1. PICK r \in BOOLEAN : calls' = [calls EXCEPT ![s].row = "executed", ![s].ran = r]
    BY <1>3 DEF Execute
  <2> DEFINE x == [c EXCEPT !.row = "executed", !.ran = r]
  <2>2. calls' = [calls EXCEPT ![s] = x] /\ out' = out /\ c.asked # 0
    BY <1>1, <1>3, <2>1 DEF Execute, TypeOK
  <2>3. /\ x \in Calls /\ x.st = c.st /\ x.ans = c.ans /\ x.asked = c.asked
        /\ x.snap = c.snap /\ x.sent = c.sent /\ x.named = c.named /\ x.vmid = c.vmid
        /\ x.row = "executed" /\ x.require = c.require
    BY <1>1 DEF Calls, Snaps
  <2> HIDE DEF x
  <2>4. CallOK(x)
    BY <1>1, <2>2, <2>3 DEF CallOK
  <2>5. Steps1(s, x)
    BY <1>1, <2>2, <2>3, <2>4 DEF Steps1
  <2> QED
    BY <2>5 DEF Shape
<1> QED
  BY <1>2, <1>3

\* Behind the token: the handler's check, and the place in a batch.
LEMMA AdmitShape ==
    ASSUME TypeOK, CallInv, StdioInv, NEW s \in Slots, Authorize(s) \/ NextOfBatch(s)
    PROVE  Shape(s)
<1> DEFINE c == calls[s]
<1>1. /\ c \in Calls /\ Sound(c) /\ CallOK(c) /\ ~srv.stdio /\ c.ans = "none"
      /\ c.row = "none" /\ c.st \in {"layer", "handler", "behind"}
  BY OneCall DEF Authorize, NextOfBatch, CallOK
<1>2. ASSUME Answer1(s, c, "denied")
      PROVE  Shape(s)
  BY <1>1, <1>2, AnswerShape DEF Answers
<1>3. ASSUME NEW v \in {"handler", "go"}, Goes(s, [c EXCEPT !.st = v]),
             v = "go" /\ c.after = 0 /\ srv.require_token => c.key # ""
      PROVE  Shape(s)
  <2> DEFINE x == [c EXCEPT !.st = v]
  <2>1. /\ x \in Calls /\ x.st = v /\ x.after = c.after /\ x.key = c.key
        /\ x.named = c.named /\ x.vmid = c.vmid /\ x.sent = c.sent /\ x.row = c.row
        /\ x.require = c.require /\ x.asked = c.asked /\ x.ran = c.ran /\ x.ans = c.ans
    <3>1. v \in States
      BY <1>3 DEF States
    <3> QED
      BY <1>1, <3>1, MovedTo
  <2>2. Goes(s, x)
    BY <1>3
  <2> HIDE DEF x
  <2>3. CallOK(x)
    BY <1>1, <2>1 DEF CallOK, Sound
  <2>4. Steps1(s, x)
    BY <1>1, <1>3, <2>1, <2>2, <2>3 DEF Steps1, Goes
  <2> QED
    BY <2>4 DEF Shape
<1>4. CASE Authorize(s)
  <2>1. auth_ok(c.key) /\ srv.require_token => c.key # ""
    BY DEF auth_ok, token_gate
  <2>2. ASSUME auth_ok(c.key), Goes(s, [c EXCEPT !.st = IF @ = "layer" THEN "handler" ELSE "go"])
        PROVE  Shape(s)
    <3> DEFINE v == IF c.st = "layer" THEN "handler" ELSE "go"
    <3>1. v \in {"handler", "go"} /\ Goes(s, [c EXCEPT !.st = v])
      BY <2>2
    <3> HIDE DEF v
    <3> QED
      BY <1>3, <2>1, <2>2, <3>1
  <2> QED
    BY <1>2, <1>4, <2>2 DEF Authorize
<1>5. CASE NextOfBatch(s)
  <2>1. c.after # 0
    BY <1>1, <1>5 DEF NextOfBatch, CallOK
  <2> QED
    BY <1>2, <1>3, <1>5, <2>1 DEF NextOfBatch
<1> QED
  BY <1>4, <1>5

----------------------------------------------------------------------------
(* The invariant, part by part.                                            *)

NoteInv == NotifyTypeOK /\ LossIsAnnounced /\ NewsInv /\ TaskNewsInOrder

LEMMA NotesKept ==
    ASSUME NoteInv, ev' \in 0..MaxEvents, UNCHANGED notevars
    PROVE  NoteInv'
  BY DEF NoteInv, NotifyTypeOK, LossIsAnnounced, NewsInv, TaskNewsInOrder, notevars, Ended

\* What every part of the server's state has as its type.
FrameOK ==
    /\ srv \in Servers /\ cfg \in Configs
    /\ pipe \in Seq({0} \cup Slots) /\ lines \in Seq({0} \cup Slots)
    /\ out \in Seq(Slots) /\ bearer \in {""} \cup Keys
    /\ Len(lines) <= LineCap

\* Every request is well-formed.
CallsOK ==
    /\ calls \in [Slots -> Calls]
    /\ \A s \in Slots : CallOK(calls[s]) /\ (calls[s].ans # "none" <=> calls[s].st = "done")

Inv == NoteInv /\ FrameOK /\ CallsOK /\ ExposedIsGuarded /\ StdioInv

LEMMA InvIs == Inv <=> TypeOK /\ ServerInv
  BY DEF Inv, TypeOK, ServerInv, NoteInv, FrameOK, CallsOK, CallInv

LEMMA CallsFrom ==
    ASSUME calls' \in [Slots -> Calls],
           \A s \in Slots : /\ CallOK(calls'[s])
                            /\ calls'[s].ans # "none" <=> calls'[s].st = "done"
    PROVE  CallsOK'
<1>1. \A s \in Slots : CallOK(calls[s])' <=> CallOK(calls'[s])
  BY DEF CallOK
<1> QED
  BY <1>1 DEF CallsOK

\* The requests that did not move are as they were.
LEMMA ShapeCalls ==
    ASSUME Inv, NEW s \in Slots, Shape(s), UNCHANGED srv
    PROVE  /\ CallsOK' /\ out' \in Seq(Slots)
           /\ \A t \in Slots \ {s} : calls'[t] = calls[t]
           /\ calls'[s].st = "go" /\ calls'[s].after = 0 /\ srv.require_token
                => calls'[s].key # ""
           /\ srv.stdio =>
                \/ calls'[s].st = calls[s].st /\ out' = out
                \/ calls[s].st \in Working /\ calls'[s].st \in Working /\ out' = out
                \/ /\ calls[s].st \in Working /\ calls'[s].st = "done"
                   /\ out' = out \/ out' = Append(out, s)
<1>1. PICK x : Steps1(s, x)
  BY DEF Shape
<1>2. calls \in [Slots -> Calls] /\ out \in Seq(Slots)
  BY DEF Inv, CallsOK, FrameOK
<1>3. calls' = [calls EXCEPT ![s] = x] /\ x \in Calls
  BY <1>1 DEF Steps1
<1>4. /\ calls' \in [Slots -> Calls] /\ calls'[s] = x
      /\ \A t \in Slots \ {s} : calls'[t] = calls[t]
  BY <1>2, <1>3
<1>5. CallsOK'
  <2>1. CallOK(x) /\ (x.ans # "none" <=> x.st = "done")
    BY <1>1 DEF Steps1
  <2>2. \A t \in Slots : CallOK(calls'[t]) /\ (calls'[t].ans # "none" <=> calls'[t].st = "done")
    BY <1>4, <2>1 DEF Inv, CallsOK
  <2> QED
    BY <1>4, <2>2, CallsFrom
<1>6. out' \in Seq(Slots)
  BY <1>1, <1>2, AppendProperties DEF Steps1
<1> QED
  BY <1>1, <1>4, <1>5, <1>6 DEF Steps1

\* Stdout grows by the request under way, which is behind all that are done.
LEMMA ShapeKeeps ==
    ASSUME Inv, NEW s \in Slots, Shape(s), ev' \in 0..MaxEvents,
           UNCHANGED <<notevars, srv, cfg, pipe, lines, bearer>>,
           srv.phase = "ended" => calls'[s].st = calls[s].st
    PROVE  Inv'
<1>1. /\ CallsOK' /\ out' \in Seq(Slots)
      /\ \A t \in Slots \ {s} : calls'[t] = calls[t]
      /\ calls'[s].st = "go" /\ calls'[s].after = 0 /\ srv.require_token
           => calls'[s].key # ""
      /\ srv.stdio =>
           \/ calls'[s].st = calls[s].st /\ out' = out
           \/ calls[s].st \in Working /\ calls'[s].st \in Working /\ out' = out
           \/ /\ calls[s].st \in Working /\ calls'[s].st = "done"
              /\ out' = out \/ out' = Append(out, s)
  BY ShapeCalls
<1>2. NoteInv'
  BY NotesKept DEF Inv
<1>3. FrameOK'
  BY <1>1 DEF Inv, FrameOK
<1>4. ExposedIsGuarded'
  <2>1. sub' = sub
    BY DEF notevars
  <2>2. \A t \in Slots : srv.require_token /\ calls'[t].st = "go" /\ calls'[t].after = 0
          => calls'[t].key # ""
    BY <1>1 DEF Inv, ExposedIsGuarded
  <2> QED
    BY <2>1, <2>2 DEF Inv, ExposedIsGuarded
<1>5. ASSUME srv.stdio
      PROVE  StdioInv'
  <2>1. \A t \in Slots : calls'[t].st = calls[t].st \/ (t = s /\ calls[t].st \in Working
                           /\ calls'[t].st \in Working \cup {"done"})
    BY <1>1, <1>5
  <2>2. StdioInv
    BY DEF Inv
  <2>3. "free" \notin Working /\ "queued" \notin Working /\ "done" \notin Working
    BY DEF Working, Waiting
  <2>4. \A t \in Slots : calls'[t].st \in {"free", "queued", "done"} \cup Working
    BY <1>5, <2>1, <2>2 DEF StdioInv
  <2>5. \A t, u \in Slots : t < u =>
           /\ calls'[t].st = "free" => calls'[u].st = "free"
           /\ calls'[t].st = "queued" => calls'[u].st \in {"free", "queued"}
           /\ calls'[t].st \in Working => calls'[u].st \in {"free", "queued"}
    <3> SUFFICES ASSUME NEW t \in Slots, NEW u \in Slots, t < u
                 PROVE  /\ calls'[t].st = "free" => calls'[u].st = "free"
                        /\ calls'[t].st = "queued" => calls'[u].st \in {"free", "queued"}
                        /\ calls'[t].st \in Working => calls'[u].st \in {"free", "queued"}
      OBVIOUS
    <3>1. /\ calls[t].st = "free" => calls[u].st = "free"
          /\ calls[t].st = "queued" => calls[u].st \in {"free", "queued"}
          /\ calls[t].st \in Working => calls[u].st \in {"free", "queued"}
      BY <1>5, <2>2 DEF StdioInv
    <3>2. /\ calls'[t].st = "free" => calls[t].st = "free"
          /\ calls'[t].st = "queued" => calls[t].st = "queued"
          /\ calls'[t].st \in Working => calls[t].st \in Working
      BY <2>1, <2>3
    <3>3. calls[u].st \in {"free", "queued"} => calls'[u].st = calls[u].st
      BY <2>1, <2>3
    <3> QED
      BY <3>1, <3>2, <3>3
  <2>6. QueueInv'
    <3>1. QueueInv
      BY <1>5, <2>2 DEF StdioInv
    <3>2. \A t \in Slots : calls'[t].st = "queued" <=> calls[t].st = "queued"
      BY <2>1, <2>3
    <3> QED
      BY <3>1, <3>2 DEF QueueInv, Lines, Line
  <2>7. srv.phase = "ended" => \A t \in Slots : calls'[t].st \in {"free", "done"}
    BY <1>1, <1>5, <2>2 DEF StdioInv
  <2>8. /\ \A i \in 1..Len(out) : calls'[out[i]].st = "done"
        /\ \A i, j \in 1..Len(out) : i < j => out[i] < out[j]
    <3>1. \A i \in 1..Len(out) : out[i] \in Slots /\ calls[out[i]].st = "done"
      <4>1. out \in Seq(Slots)
        BY DEF Inv, FrameOK
      <4>2. \A i \in 1..Len(out) : out[i] \in Slots
        BY <4>1, ElementOfSeq
      <4> QED
        BY <1>5, <2>2, <4>2 DEF StdioInv
    <3> QED
      BY <1>5, <2>1, <2>2, <2>3, <3>1 DEF StdioInv
  <2>9. /\ \A i \in 1..Len(out') : calls'[out'[i]].st = "done"
        /\ \A i, j \in 1..Len(out') : i < j => out'[i] < out'[j]
    <3>1. CASE out' = out
      BY <2>8, <3>1
    <3>2. CASE out' # out
      <4>1. calls[s].st \in Working /\ calls'[s].st = "done" /\ out' = Append(out, s)
        BY <1>1, <1>5, <3>2
      <4>2. out \in Seq(Slots)
        BY DEF Inv, FrameOK
      <4>3. Len(out) \in Nat /\ \A i \in 1..Len(out) : out[i] \in Slots
        BY <4>2, ElementOfSeq, LenProperties
      <4>4. Len(out') = Len(out) + 1 /\ out'[Len(out) + 1] = s
            /\ \A i \in 1..Len(out) : out'[i] = out[i]
        BY <4>1, <4>2, AppendProperties
      <4>5. \A i \in 1..Len(out) : out[i] < s
        <5> SUFFICES ASSUME NEW i \in 1..Len(out) PROVE out[i] < s
          OBVIOUS
        <5>1. out[i] \in Slots /\ calls[out[i]].st = "done"
          BY <1>5, <2>2, <4>3 DEF StdioInv
        <5>2. ~(s < out[i])
          BY <1>5, <2>2, <4>1, <5>1 DEF StdioInv
        <5>3. out[i] # s
          BY <2>3, <4>1, <5>1
        <5> QED
          <6>1. out[i] \in Nat /\ s \in Nat
            BY <5>1, ServerConstants
          <6> QED
            BY <5>2, <5>3, <6>1
      <4> QED
        BY <2>8, <4>1, <4>3, <4>4, <4>5
    <3> QED
      BY <3>1, <3>2
  <2> QED
    BY <1>5, <2>2, <2>4, <2>5, <2>6, <2>7, <2>9 DEF StdioInv
<1>6. StdioInv'
  BY <1>5 DEF StdioInv
<1> QED
  BY <1>1, <1>2, <1>3, <1>4, <1>6 DEF Inv

----------------------------------------------------------------------------
(* Notes.                                                                  *)

LEMMA OneMoreNote ==
    ASSUME NEW T, NEW s \in Seq(T), NEW o \in T
    PROVE  /\ s \o <<o>> \in Seq(T) /\ Len(s) \in Nat /\ Len(s \o <<o>>) = Len(s) + 1
           /\ \A i \in 1..Len(s) : (s \o <<o>>)[i] = s[i]
           /\ (s \o <<o>>)[Len(s) + 1] = o
<1> DEFINE q == <<o>>
<1>1. q \in Seq(T) /\ Len(q) = 1 /\ q[1] = o
  OBVIOUS
<1> HIDE DEF q
<1>2. /\ s \o q \in Seq(T) /\ Len(s \o q) = Len(s) + Len(q)
      /\ \A i \in 1 .. Len(s) + Len(q) :
           (s \o q)[i] = IF i <= Len(s) THEN s[i] ELSE q[i - Len(s)]
  BY <1>1, ConcatProperties
<1>3. Len(s) \in Nat
  OBVIOUS
<1>4. /\ s \o q \in Seq(T) /\ Len(s \o q) = Len(s) + 1
      /\ \A i \in 1..Len(s) : (s \o q)[i] = s[i]
      /\ (s \o q)[Len(s) + 1] = o
  <2> DEFINE n == Len(s)
  <2>1. /\ s \o q \in Seq(T) /\ Len(s \o q) = n + 1 /\ n \in Nat
        /\ \A i \in 1 .. n + 1 : (s \o q)[i] = IF i <= n THEN s[i] ELSE q[i - n]
    BY <1>1, <1>2, <1>3
  <2> HIDE DEF n
  <2>2. /\ \A i \in 1..n : (s \o q)[i] = s[i]
        /\ (s \o q)[n + 1] = o
    BY <1>1, <2>1
  <2> QED
    BY <2>1, <2>2 DEF n
<1> QED
  BY <1>3, <1>4 DEF q

\* Whatever is in the map, the note about a listed task says what it is now.
LEMMA NotesSayWhatIs ==
    ASSUME NEW listed \in SUBSET Tasks, NEW t \in listed
    PROVE  \/ Notes(listed)[t] = <<>>
           \/ \E o \in {"started", "completed", "failed"} :
                Notes(listed)[t] = <<o>> /\ (o = "started" <=> ~Ended(t))
<1>1. Outcome(t) \in {"completed", "failed"}
  BY DEF Outcome
<1>2. Notes(listed)[t] = CASE t \notin seen.running \cup seen.ended ->
                                <<IF Ended(t) THEN Outcome(t) ELSE "started">>
                           [] t \in seen.running /\ Ended(t) -> <<Outcome(t)>>
                           [] OTHER -> <<>>
  BY DEF Notes
<1> DEFINE o == IF Ended(t) THEN Outcome(t) ELSE "started"
<1>3. o \in {"started", "completed", "failed"} /\ (o = "started" <=> ~Ended(t))
  BY <1>1
<1>4. CASE t \notin seen.running \cup seen.ended
  BY <1>2, <1>3, <1>4
<1>5. CASE t \in seen.running /\ Ended(t)
  <2>1. Notes(listed)[t] = <<o>>
    BY <1>2, <1>5
  <2> QED
    BY <1>3, <2>1
<1>6. CASE t \in seen.running \cup seen.ended /\ ~(t \in seen.running /\ Ended(t))
  BY <1>2, <1>6
<1> QED
  BY <1>4, <1>5, <1>6

\* One reading of the task list: a task is announced once as started and
\* once as ended, in that order, unless it was pruned.
LEMMA PollTasksKeeps ==
    ASSUME NoteInv, PollTasks
    PROVE  NoteInv'
<1> DEFINE Kinds == {"started", "completed", "failed"}
<1>1. PICK gone \in SUBSET {t \in Tasks : Ended(t)} :
        LET listed == {t \in Tasks : task[t] # "none"} \ gone
            notes == Notes(listed)
            run == (seen.running \ listed) \cup {t \in listed : ~Ended(t)}
            end == (seen.ended \ listed) \cup {t \in listed : Ended(t)}
            kept == Kept(run \cup end)
        IN  /\ news' = [t \in Tasks |-> IF t \in listed THEN news[t] \o notes[t] ELSE news[t]]
            /\ pub' = pub + Cardinality({t \in listed : notes[t] # <<>>})
            /\ seen' = [running |-> run \cap kept, ended |-> end \cap kept,
                        pruned |-> seen.pruned \cup ((run \cup end) \ kept)]
  BY DEF PollTasks
<1> DEFINE listed == {t \in Tasks : task[t] # "none"} \ gone
           notes == Notes(listed)
           run == (seen.running \ listed) \cup {t \in listed : ~Ended(t)}
           end == (seen.ended \ listed) \cup {t \in listed : Ended(t)}
           kept == Kept(run \cup end)
<1>2. /\ news' = [t \in Tasks |-> IF t \in listed THEN news[t] \o notes[t] ELSE news[t]]
      /\ pub' = pub + Cardinality({t \in listed : notes[t] # <<>>})
      /\ seen' = [running |-> run \cap kept, ended |-> end \cap kept,
                  pruned |-> seen.pruned \cup ((run \cup end) \ kept)]
      /\ listed \subseteq Tasks
  BY <1>1
<1>3. /\ NotifyTypeOK /\ NewsInv /\ TaskNewsInOrder /\ UNCHANGED <<ev, task, lock, sub>>
  BY DEF NoteInv, PollTasks
<1> HIDE DEF kept
<1>4. /\ run \subseteq Tasks /\ end \subseteq Tasks /\ run \cap end = {}
      /\ seen'.running = run \cap kept /\ seen'.ended = end \cap kept
      /\ seen'.pruned = seen.pruned \cup ((run \cup end) \ kept)
      /\ seen' \in [running : SUBSET Tasks, ended : SUBSET Tasks, pruned : SUBSET Tasks]
  <2>1. /\ run \subseteq Tasks /\ end \subseteq Tasks /\ run \cap end = {}
        /\ seen.pruned \subseteq Tasks
    BY <1>2, <1>3 DEF NotifyTypeOK
  <2> HIDE DEF run, end
  <2> QED
    BY <1>2, <2>1
<1>5. pub' \in Nat /\ pub <= pub'
  <2> DEFINE N == {t \in listed : notes[t] # <<>>}
  <2>1. N \subseteq Tasks /\ IsFiniteSet(Tasks)
    BY <1>2, FS_Interval, ServerConstants DEF Tasks
  <2>2. Cardinality(N) \in Nat
    BY <2>1, FS_Subset, FS_CardinalityType
  <2>3. pub' = pub + Cardinality(N)
    BY <1>2
  <2> HIDE DEF N
  <2> QED
    BY <1>3, <2>2, <2>3 DEF NotifyTypeOK
<1>r. ASSUME NEW t \in Tasks
      PROVE  /\ news'[t] \in Seq(Kinds)
             /\ t \in end => Ended(t)
             /\ \A i \in 1..Len(news'[t]) : news'[t][i] # "started" => Ended(t)
             /\ \A i, j \in 1..Len(news'[t]) :
                  i < j /\ news'[t][j] = "started" => news'[t][i] = "started"
  <2>1. /\ news[t] \in Seq(Kinds)
        /\ t \in seen.ended => Ended(t)
        /\ \A i \in 1..Len(news[t]) : news[t][i] # "started" => Ended(t)
        /\ \A i, j \in 1..Len(news[t]) :
             i < j /\ news[t][j] = "started" => news[t][i] = "started"
    BY <1>3 DEF NotifyTypeOK, NewsInv, TaskNewsInOrder
  <2>2. t \in end => Ended(t)
    BY <2>1
  <2>3. CASE news'[t] = news[t]
    BY <2>1, <2>2, <2>3
  <2>4. ASSUME NEW o \in Kinds, news'[t] = news[t] \o <<o>>, o = "started" <=> ~Ended(t)
        PROVE  /\ news'[t] \in Seq(Kinds)
               /\ \A i \in 1..Len(news'[t]) : news'[t][i] # "started" => Ended(t)
               /\ \A i, j \in 1..Len(news'[t]) :
                    i < j /\ news'[t][j] = "started" => news'[t][i] = "started"
    <3> DEFINE old == news[t]
               new == news'[t]
               n == Len(news[t])
    <3> HIDE DEF Kinds
    <3>1. /\ new \in Seq(Kinds) /\ n \in Nat /\ Len(new) = n + 1
          /\ \A i \in 1..n : new[i] = old[i]
          /\ new[n + 1] = o
      BY <2>1, <2>4, OneMoreNote
    <3>2. /\ \A i \in 1..n : old[i] # "started" => Ended(t)
          /\ \A i, j \in 1..n : i < j /\ old[j] = "started" => old[i] = "started"
      BY <2>1
    <3> HIDE DEF old, new, n
    <3>3. \A i \in 1..Len(new) : i \in 1..n \/ i = n + 1
      BY <3>1
    <3>4. \A i \in 1..Len(new) : new[i] # "started" => Ended(t)
      BY <2>4, <3>1, <3>2, <3>3
    <3>5. \A i, j \in 1..Len(new) : i < j /\ new[j] = "started" => new[i] = "started"
      <4> SUFFICES ASSUME NEW i \in 1..Len(new), NEW j \in 1..Len(new), i < j,
                          new[j] = "started"
                   PROVE  new[i] = "started"
        OBVIOUS
      <4>1. i \in 1..n
        BY <3>1
      <4>2. CASE j \in 1..n
        BY <3>1, <3>2, <4>1, <4>2
      <4>3. CASE j = n + 1
        <5>1. ~Ended(t)
          BY <2>4, <3>1, <4>3
        <5> QED
          BY <3>1, <3>2, <4>1, <5>1
      <4> QED
        BY <3>3, <4>2, <4>3
    <3> QED
      BY <3>1, <3>4, <3>5 DEF new
  <2>5. CASE t \notin listed
    BY <1>2, <2>3, <2>5
  <2>6. CASE t \in listed
    <3>1. news'[t] = news[t] \o notes[t]
      BY <1>2, <2>6
    <3>2. notes[t] = <<>> \/ \E o \in Kinds : notes[t] = <<o>> /\ (o = "started" <=> ~Ended(t))
      BY <1>2, <2>6, NotesSayWhatIs
    <3> HIDE DEF listed, notes, Kinds
    <3>3. CASE notes[t] = <<>>
      BY <2>1, <2>3, <3>1, <3>3, ConcatEmptySeq
    <3>4. CASE \E o \in Kinds : notes[t] = <<o>> /\ (o = "started" <=> ~Ended(t))
      <4>1. PICK o \in Kinds : notes[t] = <<o>> /\ (o = "started" <=> ~Ended(t))
        BY <3>4
      <4> QED
        BY <2>2, <2>4, <3>1, <4>1
    <3> QED
      BY <3>2, <3>3, <3>4
  <2> QED
    BY <2>5, <2>6
<1>6. ASSUME NEW t \in Tasks, t \notin seen.pruned
      PROVE  /\ news'[t] \in Seq(Kinds)
             /\ t \notin run \cup end => news'[t] = <<>>
             /\ t \in run => news'[t] \in {<<>>, <<"started">>}
             /\ t \in end => Ended(t)
             /\ \/ Len(news'[t]) <= 1
                \/ Len(news'[t]) = 2 /\ news'[t][1] = "started" /\ news'[t][2] # "started"
  <2>1. /\ news[t] \in Seq(Kinds)
        /\ t \notin seen.running \cup seen.ended => news[t] = <<>>
        /\ t \in seen.running => news[t] \in {<<>>, <<"started">>}
        /\ t \in seen.ended => Ended(t)
        /\ ~(t \in seen.running /\ t \in seen.ended)
        /\ \/ Len(news[t]) <= 1
           \/ Len(news[t]) = 2 /\ news[t][1] = "started" /\ news[t][2] # "started"
    BY <1>3, <1>6 DEF NotifyTypeOK, NewsInv, TaskNewsInOrder
  <2>2. Outcome(t) \in {"completed", "failed"}
    BY DEF Outcome
  <2>3. CASE t \notin listed
    <3>1. news'[t] = news[t] /\ (t \in run <=> t \in seen.running) /\ (t \in end <=> t \in seen.ended)
      BY <1>2, <2>3
    <3> HIDE DEF listed, run, end
    <3> QED
      BY <2>1, <3>1
  <2>4. CASE t \in listed
    <3>1. news'[t] = news[t] \o notes[t] /\ (t \in run <=> ~Ended(t)) /\ (t \in end <=> Ended(t))
      BY <1>2, <2>4
    <3>2. notes[t] = CASE t \notin seen.running \cup seen.ended ->
                            <<IF Ended(t) THEN Outcome(t) ELSE "started">>
                       [] t \in seen.running /\ Ended(t) -> <<Outcome(t)>>
                       [] OTHER -> <<>>
      BY <2>4 DEF Notes
    <3> HIDE DEF listed, run, end, notes
    <3>3. CASE t \notin seen.running \cup seen.ended
      <4> DEFINE o == IF Ended(t) THEN Outcome(t) ELSE "started"
      <4>1. notes[t] = <<o>> /\ news[t] = <<>> /\ o \in Kinds /\ (~Ended(t) => o = "started")
        BY <2>1, <2>2, <3>2, <3>3
      <4> HIDE DEF o
      <4>2. news'[t] = <<o>>
        BY <3>1, <4>1
      <4> QED
        BY <3>1, <4>1, <4>2
    <3>4. CASE t \in seen.running /\ Ended(t)
      <4> DEFINE o == Outcome(t)
      <4>1. notes[t] = <<o>> /\ news[t] \in {<<>>, <<"started">>}
        BY <2>1, <3>2, <3>4
      <4>2. o \in {"completed", "failed"}
        BY <2>2
      <4> HIDE DEF o
      <4>3. CASE news[t] = <<>>
        <5>1. news'[t] = <<o>>
          BY <3>1, <4>1, <4>3
        <5> QED
          BY <3>1, <3>4, <4>2, <5>1
      <4>4. CASE news[t] = <<"started">>
        <5> DEFINE p == <<"started">>
                   q == <<o>>
        <5>1. news'[t] = p \o q
          BY <3>1, <4>1, <4>4
        <5>2. "started" \in Kinds /\ o \in Kinds /\ o # "started"
          BY <4>2
        <5>3. /\ p \in Seq(Kinds) /\ q \in Seq(Kinds) /\ Len(p) = 1 /\ Len(q) = 1
              /\ p[1] = "started" /\ q[1] = o
          BY <5>2
        <5>4. t \notin run /\ t \in end
          BY <3>1, <3>4
        <5> HIDE DEF Kinds, p, q
        <5>5. /\ p \o q \in Seq(Kinds) /\ Len(p \o q) = Len(p) + Len(q)
              /\ \A i \in 1 .. Len(p) + Len(q) :
                   (p \o q)[i] = IF i <= Len(p) THEN p[i] ELSE q[i - Len(p)]
          BY <5>3, ConcatProperties
        <5>6. Len(p \o q) = 2 /\ (p \o q)[1] = "started" /\ (p \o q)[2] = o
          BY <5>3, <5>5
        <5> QED
          BY <3>4, <5>1, <5>2, <5>4, <5>5, <5>6
      <4> QED
        BY <4>1, <4>3, <4>4
    <3>5. CASE t \in seen.running \cup seen.ended /\ ~(t \in seen.running /\ Ended(t))
      <4>1. notes[t] = <<>>
        BY <3>2, <3>5
      <4>2. news'[t] = news[t]
        BY <2>1, <3>1, <4>1, ConcatEmptySeq
      <4> QED
        BY <2>1, <3>1, <3>5, <4>2
    <3> QED
      BY <3>3, <3>4, <3>5
  <2> QED
    BY <2>3, <2>4
<1> HIDE DEF listed, notes, run, end
<1>7. news' \in [Tasks -> Seq(Kinds)]
  <2>1. DOMAIN news' = Tasks /\ news' = [t \in Tasks |-> news'[t]]
    BY <1>2
  <2> QED
    BY <1>r, <2>1
<1>8. NotifyTypeOK'
  BY <1>3, <1>4, <1>5, <1>7 DEF NotifyTypeOK
<1>9. NewsInv' /\ TaskNewsInOrder'
  <2>1. \A t \in Tasks : Ended(t)' <=> Ended(t)
    BY <1>3 DEF Ended
  <2>2. ASSUME NEW t \in Tasks
        PROVE  /\ t \notin seen'.running \cup seen'.ended \cup seen'.pruned => news'[t] = <<>>
               /\ t \in seen'.running \ seen'.pruned => news'[t] \in {<<>>, <<"started">>}
               /\ t \in seen'.ended => Ended(t)
               /\ t \notin seen'.pruned =>
                    \/ Len(news'[t]) <= 1
                    \/ Len(news'[t]) = 2 /\ news'[t][1] = "started" /\ news'[t][2] # "started"
    BY <1>4, <1>6, <1>r
  <2> QED
    BY <1>r, <2>1, <2>2 DEF NewsInv, TaskNewsInOrder
<1>10. LossIsAnnounced'
  BY <1>3 DEF NoteInv, LossIsAnnounced
<1> QED
  BY <1>8, <1>9, <1>10 DEF NoteInv

\* What happens to the cluster, the lock and the drift report, and the
\* pollers of the last two.
LEMMA WorldKeeps ==
    ASSUME NoteInv, TaskMoves \/ LockMoves \/ DriftReported \/ PollIncident \/ PollDrift
    PROVE  NoteInv'
<1>1. NotifyTypeOK /\ NewsInv /\ TaskNewsInOrder /\ LossIsAnnounced
  BY DEF NoteInv
<1>2. /\ seen' = seen /\ news' = news /\ sub' = sub /\ ev' \in 0..MaxEvents /\ lock' \in Locks
      /\ pub' \in Nat /\ pub <= pub'
  BY <1>1, ServerConstants DEF NotifyTypeOK, TaskMoves, LockMoves, DriftReported, PollIncident,
       PollDrift, Happens, Happen
<1>3. /\ task' \in [Tasks -> {"none", "running", "ok", "failed"}]
      /\ \A t \in Tasks : Ended(t) => Ended(t)'
  <2>1. CASE task' = task
    BY <1>1, <2>1 DEF NotifyTypeOK, Ended
  <2>2. CASE TaskMoves
    <3>1. PICK t \in Tasks : /\ task[t] \in {"none", "running"}
                             /\ \E v \in {"running", "ok", "failed"} : task' = [task EXCEPT ![t] = v]
      BY <2>2 DEF TaskMoves
    <3> QED
      BY <1>1, <3>1 DEF NotifyTypeOK, Ended
  <2> QED
    BY <2>1, <2>2 DEF LockMoves, DriftReported, PollIncident, PollDrift
<1>4. NotifyTypeOK'
  BY <1>1, <1>2, <1>3 DEF NotifyTypeOK
<1>5. NewsInv' /\ TaskNewsInOrder' /\ LossIsAnnounced'
  BY <1>1, <1>2, <1>3 DEF NewsInv, TaskNewsInOrder, LossIsAnnounced
<1> QED
  BY <1>4, <1>5 DEF NoteInv

\* The subscriber: opened where the channel is, one note or a count of lost
\* ones at a time, closed.
LEMMA SubKeeps ==
    ASSUME NoteInv, ev' \in 0..MaxEvents, Alone,
           Subscribed \/ Unsubscribed \/ Receive \/ UNCHANGED sub
    PROVE  NoteInv'
<1>1. NotifyTypeOK /\ NewsInv /\ TaskNewsInOrder /\ LossIsAnnounced
  BY DEF NoteInv
<1> DEFINE Subs == [open : BOOLEAN, from : Nat, next : Nat, heard : Nat, missed : Nat]
<1>2. /\ sub' \in Subs /\ sub'.from <= sub'.next /\ sub'.next <= pub
      /\ sub'.heard + sub'.missed = sub'.next - sub'.from
  <2>1. sub \in Subs /\ pub \in Nat /\ sub.from <= sub.next /\ sub.next <= pub
        /\ sub.heard + sub.missed = sub.next - sub.from
    BY <1>1 DEF NotifyTypeOK, LossIsAnnounced
  <2>2. CASE Subscribed
    <3>1. sub' = [open |-> TRUE, from |-> pub, next |-> pub, heard |-> 0, missed |-> 0]
      BY <2>2 DEF Subscribed, NoSub
    <3> QED
      BY <2>1, <3>1
  <2>3. CASE Unsubscribed
    BY <2>1, <2>3 DEF Unsubscribed
  <2>4. CASE Receive
    <3> DEFINE lost == (pub - sub.next) - Capacity
    <3>1. lost \in Int /\ sub.next < pub /\ Capacity \in Nat
      BY <2>1, <2>4, ServerConstants DEF Receive
    <3>2. CASE lost > 0
      <4>1. sub' = [sub EXCEPT !.next = @ + lost, !.missed = @ + lost]
        BY <2>4, <3>2 DEF Receive
      <4>2. lost \in Nat /\ sub.next + lost <= pub
        BY <2>1, <3>1, <3>2
      <4> HIDE DEF lost
      <4>3. /\ sub' \in Subs /\ sub'.from = sub.from /\ sub'.next = sub.next + lost
            /\ sub'.heard = sub.heard /\ sub'.missed = sub.missed + lost
        <5> DEFINE a == sub.next + lost
                   b == sub.missed + lost
        <5>1. a \in Nat /\ b \in Nat
          BY <2>1, <4>2
        <5>2. sub' = [sub EXCEPT !.next = a, !.missed = b]
          BY <2>1, <4>1
        <5> HIDE DEF a, b
        <5>3. sub' \in Subs /\ sub'.from = sub.from /\ sub'.next = a
              /\ sub'.heard = sub.heard /\ sub'.missed = b
          BY <2>1, <5>1, <5>2
        <5> QED
          BY <5>3 DEF a, b
      <4>4. sub.from \in Nat /\ sub.next \in Nat /\ sub.heard \in Nat /\ sub.missed \in Nat
        BY <2>1
      <4> QED
        BY <2>1, <4>2, <4>3, <4>4
    <3>3. CASE ~(lost > 0)
      <4>1. sub' = [sub EXCEPT !.next = @ + 1, !.heard = @ + 1]
        BY <2>4, <3>3 DEF Receive
      <4>2. /\ sub' \in Subs /\ sub'.from = sub.from /\ sub'.next = sub.next + 1
            /\ sub'.heard = sub.heard + 1 /\ sub'.missed = sub.missed
        <5> DEFINE a == sub.next + 1
                   b == sub.heard + 1
        <5>1. a \in Nat /\ b \in Nat
          BY <2>1
        <5>2. sub' = [sub EXCEPT !.next = a, !.heard = b]
          BY <2>1, <4>1
        <5> HIDE DEF a, b
        <5>3. sub' \in Subs /\ sub'.from = sub.from /\ sub'.next = a
              /\ sub'.heard = b /\ sub'.missed = sub.missed
          BY <2>1, <5>1, <5>2
        <5> QED
          BY <5>3 DEF a, b
      <4>3. sub.from \in Nat /\ sub.next \in Nat /\ sub.heard \in Nat /\ sub.missed \in Nat
        BY <2>1
      <4> QED
        BY <2>1, <3>1, <4>2, <4>3
    <3> QED
      BY <3>2, <3>3
  <2>5. CASE sub' = sub
    BY <2>1, <2>5
  <2> QED
    BY <2>2, <2>3, <2>4, <2>5
<1>3. UNCHANGED <<task, lock, seen, news, pub>>
  BY DEF Alone
<1>4. NotifyTypeOK'
  BY <1>1, <1>2, <1>3 DEF NotifyTypeOK
<1>5. NewsInv' /\ TaskNewsInOrder' /\ LossIsAnnounced'
  BY <1>1, <1>2, <1>3 DEF NewsInv, TaskNewsInOrder, LossIsAnnounced, Ended
<1> QED
  BY <1>4, <1>5 DEF NoteInv

----------------------------------------------------------------------------
(* The server.                                                             *)

\* Something happened from outside.
LEMMA Counted ==
    ASSUME Inv, (\E n \in {1, 2} : Happen(n)) \/ UNCHANGED ev
    PROVE  ev' \in 0..MaxEvents
<1>1. ev \in 0..MaxEvents
  BY DEF Inv, NoteInv, NotifyTypeOK
<1> QED
  BY <1>1, ServerConstants DEF Happen

\* A step that leaves the requests, the pipe and stdout alone.
LEMMA SameRequests ==
    ASSUME Inv, UNCHANGED <<calls, pipe, lines, out>>,
           srv' \in Servers, srv'.stdio = srv.stdio, srv'.eof = srv.eof,
           srv'.require_token = srv.require_token,
           srv.stdio => srv'.phase \notin {"stopping", "ended"} \/ srv'.phase = srv.phase,
           cfg' \in Configs, bearer' \in {""} \cup Keys,
           NoteInv', srv.require_token /\ sub'.open => bearer' # ""
    PROVE  Inv'
<1>1. FrameOK' /\ CallsOK'
  <2>1. calls' \in [Slots -> Calls]
        /\ \A s \in Slots : /\ CallOK(calls'[s])
                            /\ calls'[s].ans # "none" <=> calls'[s].st = "done"
    BY DEF Inv, CallsOK
  <2> QED
    BY <2>1, CallsFrom DEF Inv, FrameOK
<1>2. ExposedIsGuarded'
  BY DEF Inv, ExposedIsGuarded
<1>3. StdioInv'
  <2>1. QueueInv => QueueInv'
    BY DEF QueueInv, Lines, Line
  <2> QED
    BY <2>1 DEF Inv, StdioInv
<1> QED
  BY <1>1, <1>2, <1>3 DEF Inv

LEMMA QuietServerSteps ==
    ASSUME Inv,
           \/ Start \/ Reload \/ OpenStream \/ ClientTurns \/ WriteNote \/ StreamNote \/ Recheck \/ Signal
           \/ (TaskMoves \/ LockMoves \/ DriftReported) /\ UNCHANGED servervars
           \/ Polls /\ UNCHANGED servervars
    PROVE  Inv'
<1>0. /\ srv \in Servers /\ cfg \in Configs /\ bearer \in {""} \cup Keys /\ NoteInv
      /\ srv.require_token /\ sub.open => bearer # ""
      /\ srv.stdio => ~srv.require_token
      /\ ev \in 0..MaxEvents
  BY DEF Inv, FrameOK, ExposedIsGuarded, StdioInv, NoteInv, NotifyTypeOK
<1>t. sub \in [open : BOOLEAN, from : Nat, next : Nat, heard : Nat, missed : Nat]
  BY <1>0 DEF NoteInv, NotifyTypeOK
<1>u. Unsubscribed => ~sub'.open
  BY <1>t DEF Unsubscribed
<1>1. CASE Start
  <2>1. /\ srv' \in Servers /\ srv'.stdio = srv.stdio /\ srv'.eof = srv.eof
        /\ srv'.require_token = srv.require_token /\ srv'.phase \in {"refused", "serving"}
    BY <1>0, <1>1 DEF Start, Servers
  <2>2. Alone /\ ev' = ev /\ (Subscribed \/ UNCHANGED sub)
        /\ (sub' = sub \/ srv.stdio) /\ UNCHANGED <<cfg, calls, pipe, lines, out, bearer>>
    BY <1>1 DEF Start
  <2>3. NoteInv'
    BY <1>0, <2>2, SubKeeps
  <2> QED
    BY <1>0, <2>1, <2>2, <2>3, SameRequests
<1>2. CASE Reload
  <2>1. /\ cfg' \in Configs /\ UNCHANGED <<notevars, srv, calls, pipe, lines, out, bearer>>
        /\ Happen(1)
    BY <1>2 DEF Reload, Happens
  <2>2. ev' \in 0..MaxEvents
    BY <2>1, Counted
  <2>3. NoteInv'
    BY <1>0, <2>1, <2>2, NotesKept
  <2>4. sub' = sub
    BY <2>1 DEF notevars
  <2> QED
    BY <1>0, <2>1, <2>3, <2>4, SameRequests
<1>3. CASE OpenStream
  <2>1. /\ Subscribed /\ Alone /\ UNCHANGED <<srv, cfg, calls, pipe, lines, out>> /\ Happen(1)
        /\ bearer' \in Keys /\ auth_ok(bearer')
    BY <1>3 DEF OpenStream, Happens
  <2>2. ev' \in 0..MaxEvents
    BY <2>1, Counted
  <2>3. NoteInv'
    BY <1>0, <2>1, <2>2, SubKeeps
  <2>4. srv.require_token => bearer' # ""
    BY <2>1 DEF auth_ok, token_gate
  <2> QED
    BY <1>0, <2>1, <2>3, <2>4, SameRequests
<1>4. CASE WriteNote \/ StreamNote \/ Recheck
  <2>1. Alone /\ ev' = ev /\ UNCHANGED <<srv, cfg, calls, pipe, lines, out, bearer>>
        /\ (Receive \/ Unsubscribed)
    BY <1>4 DEF WriteNote, StreamNote, Recheck, servervars
  <2>2. NoteInv'
    BY <1>0, <2>1, SubKeeps
  <2>3. sub'.open => sub.open
    BY <1>t, <1>u, <2>1 DEF Receive
  <2> QED
    BY <1>0, <2>1, <2>2, <2>3, SameRequests
<1>5. CASE Signal
  <2>1. /\ srv' \in Servers /\ srv'.stdio = srv.stdio /\ srv'.eof = srv.eof
        /\ srv'.require_token = srv.require_token /\ ~srv.stdio
    BY <1>0, <1>5 DEF Signal, Servers
  <2>2. Alone /\ Happen(1) /\ Unsubscribed /\ UNCHANGED <<cfg, calls, pipe, lines, out, bearer>>
    BY <1>5 DEF Signal, Happens
  <2>3. ev' \in 0..MaxEvents
    BY <2>2, Counted
  <2>4. NoteInv'
    BY <1>0, <2>2, <2>3, SubKeeps
  <2> QED
    BY <1>0, <1>u, <2>1, <2>2, <2>4, SameRequests
<1>6. CASE (TaskMoves \/ LockMoves \/ DriftReported \/ Polls) /\ UNCHANGED servervars
  <2>1. UNCHANGED <<srv, cfg, calls, pipe, lines, out, bearer>> /\ sub' = sub
    BY <1>6 DEF servervars, TaskMoves, LockMoves, DriftReported, Polls, PollTasks, PollIncident,
         PollDrift
  <2>2. NoteInv'
    BY <1>0, <1>6, WorldKeeps, PollTasksKeeps DEF Polls
  <2> QED
    BY <1>0, <2>1, <2>2, SameRequests
<1>7. CASE ClientTurns
  <2>1. /\ srv' = [srv EXCEPT !.reads = ~@] /\ Happen(1)
        /\ UNCHANGED <<notevars, cfg, calls, pipe, lines, out, bearer>>
    BY <1>7 DEF ClientTurns, Happens
  <2>2. /\ srv' \in Servers /\ srv'.stdio = srv.stdio /\ srv'.eof = srv.eof
        /\ srv'.require_token = srv.require_token /\ srv'.phase = srv.phase
    BY <1>0, <2>1 DEF Servers
  <2>3. ev' \in 0..MaxEvents
    BY <2>1, Counted
  <2>4. NoteInv'
    BY <1>0, <2>1, <2>3, NotesKept
  <2>5. sub' = sub
    BY <2>1 DEF notevars
  <2> QED
    BY <1>0, <2>1, <2>2, <2>4, <2>5, SameRequests
<1> QED
  BY <1>1, <1>2, <1>3, <1>4, <1>5, <1>6, <1>7

\* HTTP: several requests may change at a time.
LEMMA HttpKeeps ==
    ASSUME Inv, ~srv.stdio, srv' \in Servers, ~srv'.stdio,
           srv'.require_token = srv.require_token,
           calls' \in [Slots -> Calls],
           \A s \in Slots :
             \/ calls'[s] = calls[s]
             \/ /\ CallOK(calls'[s]) /\ calls'[s].st # "go"
                /\ calls'[s].ans # "none" <=> calls'[s].st = "done",
           ev' \in 0..MaxEvents, UNCHANGED <<notevars, cfg, pipe, lines, out, bearer>>
    PROVE  Inv'
<1>1. NoteInv'
  BY NotesKept DEF Inv
<1>2. FrameOK'
  BY DEF Inv, FrameOK
<1>3. CallsOK'
  <2>1. \A s \in Slots : /\ CallOK(calls'[s])
                         /\ calls'[s].ans # "none" <=> calls'[s].st = "done"
    BY DEF Inv, CallsOK
  <2> QED
    BY <2>1, CallsFrom
<1>4. ExposedIsGuarded'
  BY DEF Inv, ExposedIsGuarded, notevars
<1>5. StdioInv'
  BY DEF StdioInv
<1> QED
  BY <1>1, <1>2, <1>3, <1>4, <1>5 DEF Inv

LEMMA HttpSteps ==
    ASSUME Inv, Post \/ PostBatch \/ HangUp \/ Exit
    PROVE  Inv'
<1>0. /\ srv \in Servers /\ calls \in [Slots -> Calls]
      /\ \A s \in Slots : calls[s] \in Calls /\ CallOK(calls[s]) /\ Sound(calls[s])
      /\ ev \in 0..MaxEvents
  BY DEF Inv, FrameOK, CallsOK, NoteInv, NotifyTypeOK, CallOK, Sound
<1>1. ASSUME NEW k \in Keys
      PROVE  LET x == [NoCall EXCEPT !.st = "layer", !.key = k]
             IN  x \in Calls /\ CallOK(x) /\ x.st = "layer" /\ x.ans = "none"
  <2> DEFINE x == [NoCall EXCEPT !.st = "layer", !.key = k]
  <2>1. /\ x \in Calls /\ x.st = "layer" /\ x.ans = "none" /\ x.row = "none" /\ x.asked = 0
        /\ x.sent = {} /\ x.vmid = 0 /\ x.named = 0 /\ x.ran = FALSE
    BY NoCallOK DEF Calls, States, NoCall
  <2> HIDE DEF x
  <2>2. CallOK(x)
    BY <2>1 DEF CallOK
  <2> QED
    BY <2>1, <2>2 DEF x
<1>2. CASE Post
  <2>1. PICK s \in Free, k \in Keys :
          \/ Answer1(s, NoCall, "denied")
          \/ Goes(s, [NoCall EXCEPT !.st = "layer", !.key = k])
    BY <1>2 DEF Post
  <2>2. s \in Slots /\ ~srv.stdio /\ srv.phase = "serving" /\ Happen(1)
        /\ UNCHANGED <<notevars, srv, cfg, pipe, lines, bearer>>
    BY <1>2 DEF Free, Post, Serving, Happens
  <2>3. Shape(s)
    <3>1. CASE Answer1(s, NoCall, "denied")
      <4>1. Sound(NoCall)
        BY NoCallOK DEF Sound, CallOK
      <4> QED
        BY <2>2, <3>1, <4>1, NoCallOK, AnswerShape DEF Answers
    <3>2. CASE Goes(s, [NoCall EXCEPT !.st = "layer", !.key = k])
      <4> DEFINE x == [NoCall EXCEPT !.st = "layer", !.key = k]
      <4>1. x \in Calls /\ CallOK(x) /\ x.st = "layer" /\ x.ans = "none" /\ Goes(s, x)
        BY <1>1, <3>2
      <4> HIDE DEF x
      <4>2. Steps1(s, x)
        BY <2>2, <4>1 DEF Steps1, Goes
      <4> QED
        BY <4>2 DEF Shape
    <3> QED
      BY <2>1, <3>1, <3>2
  <2>4. ev' \in 0..MaxEvents
    BY <2>2, Counted
  <2> QED
    BY <2>2, <2>3, <2>4, ShapeKeeps
<1>3. CASE PostBatch
  <2>1. PICK s \in Free, k \in Keys :
          /\ s + 1 \in Slots
          /\ calls' = [calls EXCEPT ![s] = [NoCall EXCEPT !.st = "layer", !.key = k],
                                    ![s + 1] = [NoCall EXCEPT !.st = "behind", !.after = s]]
    BY <1>3 DEF PostBatch
  <2>2. s \in Slots /\ s # 0 /\ s # s + 1 /\ ~srv.stdio /\ Happen(2)
        /\ UNCHANGED <<notevars, srv, cfg, pipe, lines, out, bearer>>
    <3>1. s \in Slots
      BY DEF Free
    <3>2. s \in Nat \ {0}
      BY <3>1, ServerConstants
    <3>3. s # s + 1
      BY <3>2
    <3> QED
      BY <1>3, <3>1, <3>2, <3>3 DEF PostBatch
  <2> DEFINE x == [NoCall EXCEPT !.st = "layer", !.key = k]
             y == [NoCall EXCEPT !.st = "behind", !.after = s]
  <2>3. x \in Calls /\ CallOK(x) /\ x.st = "layer" /\ x.ans = "none"
    BY <1>1
  <2>4. /\ y \in Calls /\ y.st = "behind" /\ y.after = s /\ y.ans = "none" /\ y.row = "none"
        /\ y.asked = 0 /\ y.sent = {} /\ y.vmid = 0 /\ y.named = 0 /\ y.ran = FALSE
    BY <2>2, NoCallOK DEF Calls, States, NoCall
  <2>5. calls' = [calls EXCEPT ![s] = x, ![s + 1] = y]
    BY <2>1
  <2> HIDE DEF x, y
  <2>6. CallOK(y)
    BY <2>2, <2>4 DEF CallOK
  <2>7. /\ calls' \in [Slots -> Calls]
        /\ \A t \in Slots : calls'[t] = calls[t] \/ calls'[t] = x \/ calls'[t] = y
    BY <1>0, <2>1, <2>3, <2>4, <2>5
  <2>8. ev' \in 0..MaxEvents
    BY <2>2, Counted
  <2> QED
    BY <1>0, <2>2, <2>3, <2>4, <2>6, <2>7, <2>8, HttpKeeps
<1>4. ASSUME NEW S \in SUBSET Slots, ~srv.stdio, srv' \in Servers, ~srv'.stdio,
             srv'.require_token = srv.require_token, ev' \in 0..MaxEvents,
             UNCHANGED <<notevars, cfg, pipe, lines, out, bearer>>,
             calls' = [t \in Slots |->
               IF t \in S THEN Closed(calls[t], "gone", "none") ELSE calls[t]]
      PROVE  Inv'
  <2>1. \A t \in Slots : LET x == Closed(calls[t], "gone", "none")
                         IN  x \in Calls /\ CallOK(x) /\ x.st = "gone" /\ x.ans = "none"
    BY <1>0, ClosedOK DEF Answers
  <2>2. calls' \in [Slots -> Calls]
    BY <1>0, <1>4, <2>1
  <2>3. \A t \in Slots :
          \/ calls'[t] = calls[t]
          \/ /\ CallOK(calls'[t]) /\ calls'[t].st # "go"
             /\ calls'[t].ans # "none" <=> calls'[t].st = "done"
    BY <1>4, <2>1
  <2> QED
    BY <1>4, <2>2, <2>3, HttpKeeps
<1>5. CASE HangUp
  <2>1. PICK s \in Slots :
          calls' = [t \in Slots |->
            IF t = s \/ (calls[t].after = s /\ calls[t].st = "behind")
            THEN Closed(calls[t], "gone", "none")
            ELSE calls[t]]
    BY <1>5 DEF HangUp
  <2> DEFINE S == {t \in Slots : t = s \/ (calls[t].after = s /\ calls[t].st = "behind")}
  <2>2. calls' = [t \in Slots |-> IF t \in S THEN Closed(calls[t], "gone", "none") ELSE calls[t]]
    BY <2>1
  <2>3. ~srv.stdio /\ Happen(1) /\ UNCHANGED <<notevars, srv, cfg, pipe, lines, out, bearer>>
    BY <1>5 DEF HangUp, Happens
  <2>4. ev' \in 0..MaxEvents
    BY <2>3, Counted
  <2>5. S \subseteq Slots
    OBVIOUS
  <2> HIDE DEF S
  <2> QED
    BY <1>0, <1>4, <2>2, <2>3, <2>4, <2>5
<1>6. CASE Exit
  <2>1. calls' = [t \in Slots |->
          IF t \in Open THEN Closed(calls[t], "gone", "none") ELSE calls[t]]
    BY <1>6 DEF Exit
  <2>2. ~srv.stdio
    BY <1>6 DEF Exit, Inv, StdioInv
  <2>3. srv' \in Servers /\ ~srv'.stdio /\ srv'.require_token = srv.require_token
    BY <1>0, <1>6, <2>2 DEF Exit, Servers
  <2>4. ev' = ev /\ UNCHANGED <<notevars, cfg, pipe, lines, out, bearer>>
    BY <1>6 DEF Exit, Alone, notevars
  <2>5. Open \subseteq Slots
    BY DEF Open
  <2> QED
    BY <1>0, <1>4, <2>1, <2>2, <2>3, <2>4, <2>5
<1> QED
  BY <1>2, <1>3, <1>5, <1>6

----------------------------------------------------------------------------
(* stdio.                                                                  *)

\* The lines on their way, and what writing, reading and taking one does.
LEMMA LineTypes ==
    ASSUME FrameOK
    PROVE  /\ Len(lines) \in Nat /\ Len(pipe) \in Nat /\ Lines \in Nat
           /\ \A k \in 1..Lines : Line(k) \in {0} \cup Slots
<1>1. lines \in Seq({0} \cup Slots) /\ pipe \in Seq({0} \cup Slots)
  BY DEF FrameOK
<1>2. Len(lines) \in Nat /\ Len(pipe) \in Nat
  BY <1>1, LenProperties
<1>3. \A i \in 1..Len(lines) : lines[i] \in {0} \cup Slots
  BY <1>1, ElementOfSeq
<1>4. \A i \in 1..Len(pipe) : pipe[i] \in {0} \cup Slots
  BY <1>1, ElementOfSeq
<1>5. ASSUME NEW k \in 1..Lines
      PROVE  Line(k) \in {0} \cup Slots
  <2>1. k \in 1..(Len(lines) + Len(pipe))
    BY DEF Lines
  <2>2. k \in 1..Len(lines) \/ (~(k <= Len(lines)) /\ k - Len(lines) \in 1..Len(pipe))
    BY <1>2, <2>1
  <2> QED
    BY <1>2, <1>3, <1>4, <2>2 DEF Line
<1> QED
  BY <1>2, <1>5 DEF Lines

LEMMA WriteView ==
    ASSUME FrameOK, NEW v \in {0} \cup Slots, pipe' = Append(pipe, v), lines' = lines
    PROVE  /\ pipe' \in Seq({0} \cup Slots) /\ Lines' = Lines + 1
           /\ \A k \in 1..Lines : Line(k)' = Line(k)
           /\ \A k : k = Lines + 1 => Line(k)' = v
<1>1. pipe \in Seq({0} \cup Slots)
  BY DEF FrameOK
<1>2. Len(lines) \in Nat /\ Len(pipe) \in Nat
  BY LineTypes
<1>3. /\ pipe' \in Seq({0} \cup Slots) /\ Len(pipe') = Len(pipe) + 1
      /\ \A i \in 1..Len(pipe) : pipe'[i] = pipe[i]
      /\ pipe'[Len(pipe) + 1] = v
  BY <1>1, AppendProperties
<1>4. ASSUME NEW k \in 1..(Len(lines) + Len(pipe))
      PROVE  Line(k)' = Line(k)
  <2>1. ~(k <= Len(lines)) => k - Len(lines) \in 1..Len(pipe)
    BY <1>2
  <2> QED
    BY <1>3, <2>1 DEF Line
<1>5. ASSUME NEW k, k = Lines + 1
      PROVE  Line(k)' = v
  <2>1. ~(k <= Len(lines)) /\ k - Len(lines) = Len(pipe) + 1
    BY <1>2, <1>5 DEF Lines
  <2> QED
    BY <1>3, <2>1 DEF Line
<1> QED
  BY <1>2, <1>3, <1>4, <1>5 DEF Lines

LEMMA ReadView ==
    ASSUME FrameOK, ReadLine
    PROVE  FrameOK' /\ Lines' = Lines /\ \A k \in 1..Lines : Line(k)' = Line(k)
<1>1. /\ pipe \in Seq({0} \cup Slots) /\ lines \in Seq({0} \cup Slots) /\ pipe # <<>>
      /\ lines' = Append(lines, Head(pipe)) /\ pipe' = Tail(pipe) /\ Len(lines) < LineCap
  BY DEF FrameOK, ReadLine
<1>2. Len(lines) \in Nat /\ Len(pipe) \in Nat /\ LineCap \in Nat
  BY LineTypes, ServerConstants
<1>3. /\ Head(pipe) \in {0} \cup Slots /\ Head(pipe) = pipe[1]
      /\ pipe' \in Seq({0} \cup Slots) /\ Len(pipe') = Len(pipe) - 1
      /\ \A i \in 1..Len(pipe') : pipe'[i] = pipe[i + 1]
  BY <1>1, HeadTailProperties
<1>4. /\ lines' \in Seq({0} \cup Slots) /\ Len(lines') = Len(lines) + 1
      /\ \A i \in 1..Len(lines) : lines'[i] = lines[i]
      /\ lines'[Len(lines) + 1] = pipe[1]
  BY <1>1, <1>3, AppendProperties
<1>5. FrameOK'
  <2>1. Len(lines') <= LineCap
    BY <1>1, <1>2, <1>4
  <2> QED
    BY <1>3, <1>4, <2>1 DEF FrameOK, ReadLine
<1>6. ASSUME NEW k \in 1..(Len(lines) + Len(pipe))
      PROVE  Line(k)' = Line(k)
  <2>1. CASE k <= Len(lines)
    <3>1. k \in 1..Len(lines) /\ k <= Len(lines')
      BY <1>2, <1>4, <2>1
    <3> QED
      BY <1>4, <2>1, <3>1 DEF Line
  <2>2. CASE k = Len(lines) + 1
    <3>1. k <= Len(lines') /\ ~(k <= Len(lines)) /\ k - Len(lines) = 1
      BY <1>2, <1>4, <2>2
    <3> QED
      BY <1>4, <2>2, <3>1 DEF Line
  <2>3. CASE k > Len(lines) + 1
    <3>1. /\ ~(k <= Len(lines')) /\ ~(k <= Len(lines))
          /\ k - Len(lines') \in 1..Len(pipe') /\ (k - Len(lines')) + 1 = k - Len(lines)
      BY <1>2, <1>3, <1>4, <2>3
    <3> QED
      BY <1>3, <3>1 DEF Line
  <2> QED
    BY <1>2, <2>1, <2>2, <2>3
<1> QED
  BY <1>2, <1>3, <1>4, <1>5, <1>6 DEF Lines

LEMMA TakeView ==
    ASSUME FrameOK, lines # <<>>, lines' = Tail(lines), pipe' = pipe
    PROVE  /\ lines' \in Seq({0} \cup Slots) /\ Len(lines') <= LineCap
           /\ Lines >= 1 /\ Lines' = Lines - 1 /\ Line(1) = Head(lines)
           /\ \A k \in 1..(Lines - 1) : Line(k)' = Line(k + 1)
<1>1. lines \in Seq({0} \cup Slots) /\ Len(lines) <= LineCap
  BY DEF FrameOK
<1>2. Len(lines) \in Nat /\ Len(pipe) \in Nat /\ LineCap \in Nat
  BY LineTypes, ServerConstants
<1>3. /\ Head(lines) = lines[1] /\ lines' \in Seq({0} \cup Slots)
      /\ Len(lines') = Len(lines) - 1
      /\ \A i \in 1..Len(lines') : lines'[i] = lines[i + 1]
  BY <1>1, HeadTailProperties
<1>4. Len(lines) >= 1
  BY <1>1, <1>2, EmptySeq
<1>5. ASSUME NEW k \in 1..(Len(lines) + Len(pipe) - 1)
      PROVE  Line(k)' = Line(k + 1)
  <2>1. CASE k <= Len(lines) - 1
    <3>1. k \in 1..Len(lines') /\ k <= Len(lines') /\ k + 1 <= Len(lines)
      BY <1>2, <1>3, <2>1
    <3> QED
      BY <1>3, <3>1 DEF Line
  <2>2. CASE ~(k <= Len(lines) - 1)
    <3>1. ~(k <= Len(lines')) /\ ~(k + 1 <= Len(lines)) /\ k - Len(lines') = (k + 1) - Len(lines)
      BY <1>2, <1>3, <2>2
    <3> QED
      BY <3>1 DEF Line
  <2> QED
    BY <2>1, <2>2
<1> QED
  BY <1>1, <1>2, <1>3, <1>4, <1>5 DEF Lines, Line

\* A request that is only moved by the queue.
LEMMA QueueMoves ==
    ASSUME Inv, NEW s \in Slots, NEW v \in {"queued", "go"},
           calls[s].st \in {"free", "queued"},
           calls' = [calls EXCEPT ![s].st = v]
    PROVE  /\ CallsOK' /\ calls'[s].st = v
           /\ \A t \in Slots \ {s} : calls'[t] = calls[t]
<1> DEFINE c == calls[s]
           x == [c EXCEPT !.st = v]
<1>1. /\ calls \in [Slots -> Calls] /\ c \in Calls /\ CallOK(c)
      /\ (c.ans # "none" <=> c.st = "done") /\ v \in States
  BY DEF Inv, CallsOK, States
<1>2. /\ x \in Calls /\ x.st = v /\ x.named = c.named /\ x.vmid = c.vmid
      /\ x.sent = c.sent /\ x.row = c.row /\ x.require = c.require /\ x.asked = c.asked
      /\ x.ran = c.ran /\ x.ans = c.ans
  BY <1>1, MovedTo
<1>3. calls' = [calls EXCEPT ![s] = x]
  BY <1>1
<1>4. c.st \notin {"send", "done", "gone"}
  OBVIOUS
<1> HIDE DEF x
<1>5. CallOK(x) /\ x.ans = "none" /\ x.st # "done"
  BY <1>1, <1>2, <1>4 DEF CallOK
<1>6. /\ calls' \in [Slots -> Calls] /\ calls'[s] = x
      /\ \A t \in Slots \ {s} : calls'[t] = calls[t]
  BY <1>1, <1>2, <1>3
<1>7. \A t \in Slots : /\ CallOK(calls'[t])
                       /\ calls'[t].ans # "none" <=> calls'[t].st = "done"
  BY <1>5, <1>6 DEF Inv, CallsOK
<1> QED
  BY <1>2, <1>6, <1>7, CallsFrom

\* What the invariant says while the server reads stdin.
LEMMA StdioFacts ==
    ASSUME Inv, srv.stdio
    PROVE  /\ ~srv.require_token /\ srv.phase # "stopping" /\ QueueInv
           /\ \A s \in Slots : calls[s].st \in {"free", "queued", "done"} \cup Working
           /\ \A s, t \in Slots : s < t =>
                /\ calls[s].st = "free" => calls[t].st = "free"
                /\ calls[s].st = "queued" => calls[t].st \in {"free", "queued"}
                /\ calls[s].st \in Working => calls[t].st \in {"free", "queued"}
           /\ \A i \in 1..Len(out) : out[i] \in Slots /\ calls[out[i]].st = "done"
           /\ \A i, j \in 1..Len(out) : i < j => out[i] < out[j]
           /\ "free" \notin Working /\ "queued" \notin Working /\ "done" \notin Working
           /\ FrameOK
<1>1. out \in Seq(Slots) /\ FrameOK /\ StdioInv
  BY DEF Inv, FrameOK
<1>2. \A i \in 1..Len(out) : out[i] \in Slots
  BY <1>1, ElementOfSeq
<1>3. "free" \notin Working /\ "queued" \notin Working /\ "done" \notin Working
  BY DEF Working, Waiting
<1> QED
  BY <1>1, <1>2, <1>3 DEF StdioInv

\* A line is written behind those that wait.
LEMMA WriteLineKeeps ==
    ASSUME Inv, WriteLine
    PROVE  Inv'
<1>1. PICK s \in Free : calls' = [calls EXCEPT ![s].st = "queued"] /\ pipe' = Append(pipe, s)
  BY DEF WriteLine
<1>2. /\ s \in Slots /\ calls[s].st = "free" /\ \A t \in Slots : t < s => calls[t].st # "free"
      /\ srv.stdio /\ srv.phase = "serving" /\ ~srv.eof /\ Happen(1)
      /\ UNCHANGED <<notevars, srv, cfg, lines, out, bearer>>
  BY DEF Free, WriteLine, Serving, Happens
<1>3. /\ CallsOK' /\ calls'[s].st = "queued" /\ \A t \in Slots \ {s} : calls'[t] = calls[t]
  BY <1>1, <1>2, QueueMoves
<1>4. ev' \in 0..MaxEvents
  BY <1>2, Counted
<1>5. NoteInv'
  BY <1>2, <1>4, NotesKept DEF Inv
<1>6. /\ ~srv.require_token /\ QueueInv /\ FrameOK
      /\ \A t \in Slots : calls[t].st \in {"free", "queued", "done"} \cup Working
      /\ \A t, u \in Slots : t < u =>
           /\ calls[t].st = "free" => calls[u].st = "free"
           /\ calls[t].st = "queued" => calls[u].st \in {"free", "queued"}
           /\ calls[t].st \in Working => calls[u].st \in {"free", "queued"}
      /\ \A i \in 1..Len(out) : out[i] \in Slots /\ calls[out[i]].st = "done"
      /\ \A i, j \in 1..Len(out) : i < j => out[i] < out[j]
      /\ "free" \notin Working /\ "queued" \notin Working /\ "done" \notin Working
  BY <1>2, StdioFacts
<1>7. /\ pipe' \in Seq({0} \cup Slots) /\ Lines' = Lines + 1
      /\ \A k \in 1..Lines : Line(k)' = Line(k)
      /\ \A k : k = Lines + 1 => Line(k)' = s
  BY <1>1, <1>2, <1>6, WriteView
<1>8. FrameOK'
  BY <1>2, <1>6, <1>7 DEF FrameOK
<1>9. ExposedIsGuarded'
  BY <1>2, <1>6 DEF ExposedIsGuarded
<1>10. Lines \in Nat /\ \A k \in 1..Lines : Line(k) \in {0} \cup Slots
  BY <1>6, LineTypes
<1>11. \A k \in 1..Lines : Line(k) \in Slots /\ calls[Line(k)].st = "queued" /\ Line(k) # s
  BY <1>2, <1>6 DEF QueueInv
<1>12. \A k \in 1..Lines : Line(k) < s /\ Line(k) # 0
  <2> SUFFICES ASSUME NEW k \in 1..Lines PROVE Line(k) < s /\ Line(k) # 0
    OBVIOUS
  <2>1. Line(k) \in Slots /\ calls[Line(k)].st = "queued" /\ Line(k) # s
    BY <1>11
  <2>2. ~(s < Line(k))
    BY <1>2, <1>6, <2>1
  <2>3. Line(k) \in Nat \ {0} /\ s \in Nat
    BY <1>2, <2>1, ServerConstants
  <2> QED
    BY <2>1, <2>2, <2>3
<1>13. QueueInv'
  <2>1. \A k \in 1..Lines' : k \in 1..Lines \/ k = Lines + 1
    BY <1>7, <1>10
  <2>2. ASSUME NEW k \in 1..Lines'
        PROVE  Line(k)' \in Slots /\ calls'[Line(k)'].st = "queued"
    BY <1>2, <1>3, <1>7, <1>11, <2>1
  <2>3. ASSUME NEW j \in 1..Lines', NEW k \in 1..Lines', j < k
        PROVE  Line(j)' < Line(k)'
    <3>1. CASE k \in 1..Lines
      <4>1. j \in 1..Lines
        BY <1>7, <1>10, <2>3, <3>1
      <4>2. Line(k) # 0
        BY <1>12, <3>1
      <4> QED
        BY <1>6, <1>7, <2>3, <3>1, <4>1, <4>2 DEF QueueInv
    <3>2. CASE k = Lines + 1
      <4>1. j \in 1..Lines
        BY <1>7, <1>10, <2>3, <3>2
      <4> QED
        BY <1>7, <1>12, <3>2, <4>1
    <3> QED
      BY <2>1, <3>1, <3>2
  <2>4. ASSUME NEW t \in Slots, calls'[t].st = "queued"
        PROVE  \E k \in 1..Lines' : Line(k)' = t
    <3>1. CASE t = s
      <4>1. Lines + 1 \in 1..Lines'
        BY <1>7, <1>10
      <4> QED
        BY <1>7, <3>1, <4>1
    <3>2. CASE t # s
      <4>1. PICK k \in 1..Lines : Line(k) = t
        BY <1>3, <1>6, <2>4, <3>2 DEF QueueInv
      <4>2. k \in 1..Lines'
        BY <1>7, <1>10
      <4> QED
        BY <1>7, <4>1, <4>2
    <3> QED
      BY <3>1, <3>2
  <2> QED
    BY <2>2, <2>3, <2>4 DEF QueueInv
<1>14. \A t, u \in Slots : t < u =>
         /\ calls'[t].st = "free" => calls'[u].st = "free"
         /\ calls'[t].st = "queued" => calls'[u].st \in {"free", "queued"}
         /\ calls'[t].st \in Working => calls'[u].st \in {"free", "queued"}
  BY <1>2, <1>3, <1>6
<1>15. StdioInv'
  <2>1. \A i \in 1..Len(out) : calls'[out[i]].st = "done"
    BY <1>2, <1>3, <1>6
  <2>2. \A t \in Slots : calls'[t].st \in {"free", "queued", "done"} \cup Working
    BY <1>3, <1>6
  <2> QED
    BY <1>2, <1>6, <1>13, <1>14, <2>1, <2>2 DEF StdioInv
<1> QED
  BY <1>3, <1>5, <1>8, <1>9, <1>15 DEF Inv

\* The end of the input is behind every line.
LEMMA CloseInputKeeps ==
    ASSUME Inv, CloseInput
    PROVE  Inv'
<1>1. /\ srv.stdio /\ srv.phase = "serving" /\ ~srv.eof /\ Happen(1) /\ pipe' = Append(pipe, 0)
      /\ srv' = [srv EXCEPT !.eof = TRUE]
      /\ UNCHANGED <<notevars, cfg, calls, lines, out, bearer>>
  BY DEF CloseInput, Serving, Happens
<1>2. /\ srv \in Servers /\ FrameOK /\ QueueInv /\ ~srv.require_token
  BY <1>1, StdioFacts DEF FrameOK
<1>3. /\ srv' \in Servers /\ srv'.stdio /\ srv'.eof /\ ~srv'.require_token /\ srv'.phase = srv.phase
  BY <1>1, <1>2 DEF Servers
<1>4. ev' \in 0..MaxEvents
  BY <1>1, Counted
<1>5. NoteInv'
  BY <1>1, <1>4, NotesKept DEF Inv
<1>6. /\ pipe' \in Seq({0} \cup Slots) /\ Lines' = Lines + 1
      /\ \A k \in 1..Lines : Line(k)' = Line(k)
      /\ \A k : k = Lines + 1 => Line(k)' = 0
  BY <1>1, <1>2, WriteView
<1>7. FrameOK'
  BY <1>1, <1>2, <1>3, <1>6 DEF FrameOK
<1>8. ExposedIsGuarded'
  BY <1>3 DEF ExposedIsGuarded
<1>9. CallsOK'
  <2>1. /\ calls' \in [Slots -> Calls]
        /\ \A s \in Slots : /\ CallOK(calls'[s])
                            /\ calls'[s].ans # "none" <=> calls'[s].st = "done"
    BY <1>1 DEF Inv, CallsOK
  <2> QED
    BY <2>1, CallsFrom
<1>10. Lines \in Nat
  BY <1>2, LineTypes
<1>11. QueueInv'
  <2>1. \A k \in 1..Lines' : k \in 1..Lines \/ k = Lines + 1
    BY <1>6, <1>10
  <2>2. ASSUME NEW k \in 1..Lines'
        PROVE  \/ Line(k)' = 0 /\ k = Lines' /\ srv'.eof
               \/ Line(k)' \in Slots /\ calls'[Line(k)'].st = "queued"
    <3>1. CASE k \in 1..Lines
      <4>1. Line(k) \in Slots /\ calls[Line(k)].st = "queued"
        BY <1>1, <1>2, <3>1 DEF QueueInv
      <4> QED
        BY <1>1, <1>6, <3>1, <4>1
    <3>2. CASE k = Lines + 1
      BY <1>3, <1>6, <3>2
    <3> QED
      BY <2>1, <3>1, <3>2
  <2>3. ASSUME NEW j \in 1..Lines', NEW k \in 1..Lines', j < k, Line(k)' # 0
        PROVE  Line(j)' < Line(k)'
    <3>1. k \in 1..Lines
      BY <1>6, <2>1, <2>3
    <3>2. j \in 1..Lines
      BY <1>6, <1>10, <2>3, <3>1
    <3> QED
      BY <1>2, <1>6, <2>3, <3>1, <3>2 DEF QueueInv
  <2>4. ASSUME NEW t \in Slots, calls'[t].st = "queued"
        PROVE  \E k \in 1..Lines' : Line(k)' = t
    <3>1. PICK k \in 1..Lines : Line(k) = t
      BY <1>1, <1>2, <2>4 DEF QueueInv
    <3>2. k \in 1..Lines'
      BY <1>6, <1>10
    <3> QED
      BY <1>6, <3>1, <3>2
  <2> QED
    BY <2>2, <2>3, <2>4 DEF QueueInv
<1>12. StdioInv'
  BY <1>1, <1>3, <1>11 DEF Inv, StdioInv
<1> QED
  BY <1>5, <1>7, <1>8, <1>9, <1>12 DEF Inv

\* The reader moves a line from the pipe to the channel: none overtakes.
LEMMA ReadLineKeeps ==
    ASSUME Inv, ReadLine
    PROVE  Inv'
<1>1. /\ srv.stdio /\ UNCHANGED <<ev, notevars, srv, cfg, calls, out, bearer>>
  BY DEF ReadLine
<1>2. FrameOK /\ QueueInv
  BY <1>1, StdioFacts
<1>3. FrameOK' /\ Lines' = Lines /\ \A k \in 1..Lines : Line(k)' = Line(k)
  BY <1>2, ReadView
<1>4. NoteInv'
  <2>1. ev' \in 0..MaxEvents
    BY <1>1, Counted
  <2> QED
    BY <1>1, <2>1, NotesKept DEF Inv
<1>5. CallsOK'
  <2>1. /\ calls' \in [Slots -> Calls]
        /\ \A s \in Slots : /\ CallOK(calls'[s])
                            /\ calls'[s].ans # "none" <=> calls'[s].st = "done"
    BY <1>1 DEF Inv, CallsOK
  <2> QED
    BY <2>1, CallsFrom
<1>6. ExposedIsGuarded'
  BY <1>1 DEF Inv, ExposedIsGuarded, notevars
<1>7. QueueInv'
  BY <1>1, <1>2, <1>3 DEF QueueInv
<1>8. StdioInv'
  BY <1>1, <1>7 DEF Inv, StdioInv
<1> QED
  BY <1>3, <1>4, <1>5, <1>6, <1>8 DEF Inv

\* The loop takes the first line: every request before it is done.
LEMMA TakeLineKeeps ==
    ASSUME Inv, TakeLine
    PROVE  Inv'
<1>1. /\ srv.stdio /\ srv.phase = "serving" /\ lines # <<>> /\ lines' = Tail(lines) /\ ~Busy
      /\ Alone /\ UNCHANGED <<ev, cfg, pipe, out, bearer>>
      /\ Unsubscribed \/ UNCHANGED sub
  BY DEF TakeLine, Serving
<1>2. /\ ~srv.require_token /\ QueueInv /\ FrameOK /\ srv \in Servers
      /\ \A t \in Slots : calls[t].st \in {"free", "queued", "done"} \cup Working
      /\ \A t, u \in Slots : t < u =>
           /\ calls[t].st = "free" => calls[u].st = "free"
           /\ calls[t].st = "queued" => calls[u].st \in {"free", "queued"}
           /\ calls[t].st \in Working => calls[u].st \in {"free", "queued"}
      /\ \A i \in 1..Len(out) : out[i] \in Slots /\ calls[out[i]].st = "done"
      /\ \A i, j \in 1..Len(out) : i < j => out[i] < out[j]
      /\ "free" \notin Working /\ "queued" \notin Working /\ "done" \notin Working
  BY <1>1, StdioFacts DEF FrameOK
<1>3. \A t \in Slots : calls[t].st \in {"free", "queued", "done"}
  BY <1>1, <1>2 DEF Busy, Working
<1>4. /\ lines' \in Seq({0} \cup Slots) /\ Len(lines') <= LineCap
      /\ Lines >= 1 /\ Lines' = Lines - 1 /\ Line(1) = Head(lines)
      /\ \A k \in 1..(Lines - 1) : Line(k)' = Line(k + 1)
  BY <1>1, <1>2, TakeView
<1>5. Lines \in Nat /\ Line(1) \in {0} \cup Slots /\ 1 \in 1..Lines
  BY <1>2, <1>4, LineTypes
<1>6. NoteInv'
  <2>1. ev' \in 0..MaxEvents
    BY <1>1, Counted
  <2> QED
    BY <1>1, <2>1, SubKeeps DEF Inv
<1>7. CASE Head(lines) = 0
  <2>1. /\ srv' = [srv EXCEPT !.phase = "ended"] /\ calls' = calls
    BY <1>7 DEF TakeLine
  <2>2. /\ srv' \in Servers /\ srv'.stdio /\ ~srv'.require_token /\ srv'.phase = "ended"
        /\ srv'.eof = srv.eof
    BY <1>1, <1>2, <2>1 DEF Servers
  <2>3. Lines = 1
    BY <1>2, <1>4, <1>5, <1>7, ServerConstants DEF QueueInv
  <2>4. \A t \in Slots : calls[t].st # "queued"
    <3> SUFFICES ASSUME NEW t \in Slots, calls[t].st = "queued" PROVE FALSE
      OBVIOUS
    <3>1. PICK k \in 1..Lines : Line(k) = t
      BY <1>2 DEF QueueInv
    <3>2. k = 1
      BY <2>3
    <3> QED
      BY <1>4, <1>7, <3>1, <3>2, ServerConstants
  <2>5. FrameOK'
    BY <1>1, <1>2, <1>4, <2>2 DEF FrameOK
  <2>6. CallsOK'
    <3>1. /\ calls' \in [Slots -> Calls]
          /\ \A s \in Slots : /\ CallOK(calls'[s])
                              /\ calls'[s].ans # "none" <=> calls'[s].st = "done"
      BY <2>1 DEF Inv, CallsOK
    <3> QED
      BY <3>1, CallsFrom
  <2>7. ExposedIsGuarded'
    BY <2>2 DEF ExposedIsGuarded
  <2>8. QueueInv'
    <3>1. Lines' = 0
      BY <1>4, <2>3
    <3>2. 1..Lines' = {}
      BY <3>1
    <3> QED
      BY <2>1, <2>4, <3>2 DEF QueueInv
  <2>9. StdioInv'
    BY <1>1, <1>2, <1>3, <2>1, <2>2, <2>4, <2>8 DEF StdioInv
  <2> QED
    BY <1>6, <2>5, <2>6, <2>7, <2>9 DEF Inv
<1>8. CASE Head(lines) # 0
  <2> DEFINE s == Line(1)
  <2>1. /\ calls' = [calls EXCEPT ![s].st = "go"] /\ srv' = srv
    BY <1>4, <1>8 DEF TakeLine
  <2>2. s \in Slots /\ calls[s].st = "queued" /\ s \in Nat
    BY <1>2, <1>4, <1>5, <1>8, ServerConstants DEF QueueInv
  <2>3. \A k \in 2..Lines : Line(k) # 0 => s < Line(k)
    <3> SUFFICES ASSUME NEW k \in 2..Lines, Line(k) # 0 PROVE s < Line(k)
      OBVIOUS
    <3>1. k \in 1..Lines /\ 1 < k
      BY <1>5
    <3> QED
      BY <1>2, <1>5, <3>1 DEF QueueInv
  <2> HIDE DEF s
  <2>4. /\ CallsOK' /\ calls'[s].st = "go" /\ \A t \in Slots \ {s} : calls'[t] = calls[t]
    BY <2>1, <2>2, QueueMoves
  <2>5. ASSUME NEW t \in Slots, calls[t].st = "queued", t # s
        PROVE  s < t /\ \E k \in 1..(Lines - 1) : Line(k + 1) = t
    <3>1. PICK k \in 1..Lines : Line(k) = t
      BY <1>2, <2>5 DEF QueueInv
    <3>2. k # 1
      BY <2>5, <3>1 DEF s
    <3>3. k \in 2..Lines /\ k - 1 \in 1..(Lines - 1) /\ (k - 1) + 1 = k /\ t # 0
      BY <1>5, <3>2, ServerConstants
    <3> QED
      BY <2>3, <3>1, <3>3
  <2>6. QueueInv'
    <3>1. ASSUME NEW k \in 1..(Lines - 1)
          PROVE  /\ k + 1 \in 1..Lines /\ k + 1 \in 2..Lines
                 /\ Line(k)' = Line(k + 1)
                 /\ \/ Line(k + 1) = 0 /\ k + 1 = Lines /\ srv.eof
                    \/ Line(k + 1) \in Slots /\ calls[Line(k + 1)].st = "queued"
      <4>1. k + 1 \in 1..Lines /\ k + 1 \in 2..Lines
        BY <1>5
      <4> QED
        BY <1>2, <1>4, <4>1 DEF QueueInv
    <3>2. ASSUME NEW k \in 1..(Lines - 1)
          PROVE  \/ Line(k)' = 0 /\ k = Lines - 1 /\ srv'.eof
                 \/ Line(k)' \in Slots /\ calls'[Line(k)'].st = "queued"
      <4>1. CASE Line(k + 1) = 0 /\ k + 1 = Lines /\ srv.eof
        <5>1. k = Lines - 1
          BY <1>5, <4>1
        <5> QED
          BY <2>1, <3>1, <4>1, <5>1
      <4>2. CASE Line(k + 1) \in Slots /\ calls[Line(k + 1)].st = "queued"
        <5>1. s < Line(k + 1)
          BY <2>3, <3>1, <4>2, ServerConstants
        <5>2. Line(k + 1) \in Nat
          BY <4>2, ServerConstants
        <5>3. Line(k + 1) # s
          BY <2>2, <5>1, <5>2
        <5> QED
          BY <2>4, <3>1, <4>2, <5>3
      <4> QED
        BY <3>1, <4>1, <4>2
    <3>3. ASSUME NEW j \in 1..(Lines - 1), NEW k \in 1..(Lines - 1), j < k, Line(k)' # 0
          PROVE  Line(j)' < Line(k)'
      <4>1. j + 1 < k + 1
        BY <1>5, <3>3
      <4>2. Line(k)' = Line(k + 1) /\ Line(j)' = Line(j + 1)
            /\ k + 1 \in 1..Lines /\ j + 1 \in 1..Lines
        BY <3>1
      <4> QED
        BY <1>2, <3>3, <4>1, <4>2 DEF QueueInv
    <3>4. ASSUME NEW t \in Slots, calls'[t].st = "queued"
          PROVE  \E k \in 1..(Lines - 1) : Line(k)' = t
      <4>1. t # s /\ calls[t].st = "queued"
        BY <2>4, <3>4
      <4> QED
        BY <2>5, <3>1, <4>1
    <3> QED
      BY <1>4, <3>2, <3>3, <3>4 DEF QueueInv
  <2>7. \A t, u \in Slots : t < u =>
          /\ calls'[t].st = "free" => calls'[u].st = "free"
          /\ calls'[t].st = "queued" => calls'[u].st \in {"free", "queued"}
          /\ calls'[t].st \in Working => calls'[u].st \in {"free", "queued"}
    <3> SUFFICES ASSUME NEW t \in Slots, NEW u \in Slots, t < u
                 PROVE  /\ calls'[t].st = "free" => calls'[u].st = "free"
                        /\ calls'[t].st = "queued" => calls'[u].st \in {"free", "queued"}
                        /\ calls'[t].st \in Working => calls'[u].st \in {"free", "queued"}
      OBVIOUS
    <3>1. t \in Nat /\ u \in Nat
      BY ServerConstants
    <3>2. CASE t = s
      BY <1>2, <2>2, <2>4, <3>1, <3>2 DEF Working
    <3>3. CASE u = s
      <4>1. calls'[t] = calls[t] /\ t # s
        BY <2>4, <3>1, <3>3
      <4>2. calls[t].st # "queued"
        BY <2>2, <2>5, <3>1, <3>3, <4>1
      <4>3. calls[t].st # "free"
        BY <1>2, <2>2, <3>3
      <4> QED
        BY <1>2, <1>3, <4>1, <4>2, <4>3
    <3>4. CASE t # s /\ u # s
      BY <1>2, <2>4, <3>4
    <3> QED
      BY <3>2, <3>3, <3>4
  <2>8. FrameOK'
    BY <1>1, <1>2, <1>4, <2>1 DEF FrameOK
  <2>9. ExposedIsGuarded'
    BY <1>2, <2>1 DEF ExposedIsGuarded
  <2>10. StdioInv'
    <3>1. \A i \in 1..Len(out) : calls'[out[i]].st = "done"
      BY <1>2, <2>2, <2>4
    <3>2. \A t \in Slots : calls'[t].st \in {"free", "queued", "done"} \cup Working
      BY <1>2, <2>4 DEF Working
    <3> QED
      BY <1>1, <1>2, <2>1, <2>6, <2>7, <3>1, <3>2 DEF StdioInv
  <2> QED
    BY <1>6, <2>4, <2>8, <2>9, <2>10 DEF Inv
<1> QED
  BY <1>7, <1>8

----------------------------------------------------------------------------
(* The specification.                                                      *)

LEMMA InitInv == Init => Inv
<1> SUFFICES ASSUME Init PROVE Inv
  OBVIOUS
<1>1. /\ calls = [s \in Slots |-> NoCall] /\ pipe = <<>> /\ lines = <<>> /\ out = <<>>
      /\ bearer = "" /\ cfg \in Configs
      /\ srv \in Servers /\ srv.phase = "start" /\ (srv.stdio => ~srv.require_token)
  <2>1. PICK io \in BOOLEAN, exposed \in BOOLEAN, t \in {""} \cup Keys :
          /\ srv = [phase |-> "start", stdio |-> io, require_token |-> exposed,
                    cli |-> t, eof |-> FALSE, reads |-> TRUE]
          /\ io => ~exposed
    BY DEF Init
  <2>2. srv \in Servers /\ srv.phase = "start" /\ (srv.stdio => ~srv.require_token)
    <3>1. srv \in Servers
      BY <2>1 DEF Servers
    <3>2. srv.phase = "start" /\ srv.stdio = io /\ srv.require_token = exposed
      BY <2>1
    <3> QED
      BY <2>1, <3>1, <3>2
  <2> QED
    BY <2>2 DEF Init
<1>2. \A s \in Slots : calls[s] = NoCall
  BY <1>1
<1>3. NoteInv
  <2>1. /\ pub = 0 /\ lock = "none" /\ sub = NoSub
        /\ task = [t \in Tasks |-> IF t = 1 THEN "running" ELSE "none"]
        /\ news = [t \in Tasks |-> <<>>]
    BY DEF Init, NotifyInit
  <2>2. /\ ev \in 0..MaxEvents /\ seen.ended = {}
        /\ seen \in [running : SUBSET Tasks, ended : SUBSET Tasks, pruned : SUBSET Tasks]
    <3>1. PICK known \in SUBSET {t \in Tasks : task[t] = "running"} :
            /\ ev = IF known = {} THEN 1 ELSE 0
            /\ seen = [running |-> known, ended |-> {}, pruned |-> {}]
      BY DEF Init, NotifyInit
    <3>2. known \subseteq Tasks
      OBVIOUS
    <3> QED
      BY <3>1, <3>2, ServerConstants
  <2>3. \A t \in Tasks : news[t] = <<>> /\ Len(news[t]) = 0
    BY <2>1
  <2>4. NotifyTypeOK
    BY <2>1, <2>2 DEF NotifyTypeOK, Locks, NoSub
  <2>5. LossIsAnnounced
    BY <2>1 DEF LossIsAnnounced, NoSub
  <2>6. NewsInv /\ TaskNewsInOrder
    BY <2>2, <2>3 DEF NewsInv, TaskNewsInOrder
  <2> QED
    BY <2>4, <2>5, <2>6 DEF NoteInv
<1>4. FrameOK
  <2>1. <<>> \in Seq({0} \cup Slots) /\ <<>> \in Seq(Slots) /\ Len(<<>>) = 0
    OBVIOUS
  <2>2. LineCap \in Nat /\ 0 <= LineCap
    BY ServerConstants
  <2> QED
    BY <1>1, <2>1, <2>2 DEF FrameOK
<1>5. CallsOK
  BY <1>1, <1>2, NoCallOK DEF CallsOK
<1>6. ExposedIsGuarded
  <2>1. sub.open = FALSE
    BY DEF Init, NotifyInit, NoSub
  <2>2. \A s \in Slots : calls[s].st # "go"
    BY <1>2, NoCallOK
  <2> QED
    BY <2>1, <2>2 DEF ExposedIsGuarded
<1>7. StdioInv
  <2>1. Len(lines) = 0 /\ Len(pipe) = 0 /\ Len(out) = 0
    BY <1>1
  <2>2. Lines = 0 /\ 1..Lines = {} /\ 1..Len(out) = {}
    BY <2>1 DEF Lines
  <2>3. QueueInv
    BY <1>2, <2>2, NoCallOK DEF QueueInv
  <2> QED
    BY <1>1, <1>2, <2>2, <2>3, NoCallOK DEF StdioInv, Working, Waiting
<1> QED
  BY <1>3, <1>4, <1>5, <1>6, <1>7 DEF Inv

LEMMA NextInv == Inv /\ [Next]_vars => Inv'
<1> SUFFICES ASSUME Inv, [Next]_vars PROVE Inv'
  OBVIOUS
<1>0. TypeOK /\ CallInv /\ StdioInv
  BY InvIs DEF Inv, ServerInv
<1>1. CASE Start \/ Reload \/ OpenStream \/ ClientTurns \/ WriteNote \/ StreamNote \/ Recheck \/ Signal
  BY <1>1, QuietServerSteps
<1>2. CASE Post \/ PostBatch \/ HangUp \/ Exit
  BY <1>2, HttpSteps
<1>3. CASE WriteLine \/ CloseInput \/ ReadLine \/ TakeLine
  BY <1>3, WriteLineKeeps, CloseInputKeeps, ReadLineKeeps, TakeLineKeeps
<1>4. ASSUME NEW s \in Slots, ~Over /\ (Proceed(s) \/ Replied(s) \/ Timeout(s))
      PROVE  Inv'
  <2>1. Shape(s)
    BY <1>0, <1>4, AdmitShape, DispatchShape, AskingShape, SendShape, RunShape
       DEF Proceed, Replied
  <2>2. UNCHANGED <<ev, notevars, srv, cfg, pipe, lines, bearer>>
    BY <1>4 DEF Proceed, Replied, Timeout, Authorize, NextOfBatch, Dispatch, TagsRead,
         ChannelReady, GuestFound, RiskAssessed, SendAnswered, SendFailed, RunStep, Quiet
  <2>3. srv.phase # "ended"
    BY <1>4 DEF Over
  <2>4. ev' \in 0..MaxEvents
    BY <2>2, Counted
  <2> QED
    BY <2>1, <2>2, <2>3, <2>4, ShapeKeeps
<1>5. ASSUME NEW s \in Slots, Deliver(s) \/ Execute(s)
      PROVE  Inv'
  <2>1. Shape(s)
    BY <1>0, <1>5, RowShape
  <2>2. UNCHANGED <<ev, notevars, srv, cfg, pipe, lines, bearer>>
    BY <1>5 DEF Deliver, Execute, Quiet
  <2>3. calls'[s].st = calls[s].st
    <3>1. calls \in [Slots -> Calls] /\ calls[s] \in Calls
      BY <1>0 DEF TypeOK
    <3>2. CASE Deliver(s)
      BY <3>1, <3>2 DEF Deliver, Calls
    <3>3. CASE Execute(s)
      <4>1. PICK r \in BOOLEAN : calls' = [calls EXCEPT ![s].row = "executed", ![s].ran = r]
        BY <3>3 DEF Execute
      <4> QED
        BY <3>1, <4>1 DEF Calls
    <3> QED
      BY <1>5, <3>2, <3>3
  <2>4. ev' \in 0..MaxEvents
    BY <2>2, Counted
  <2> QED
    BY <2>1, <2>2, <2>3, <2>4, ShapeKeeps
<1>6. CASE (TaskMoves \/ LockMoves \/ DriftReported \/ Polls) /\ UNCHANGED servervars
  BY <1>6, QuietServerSteps
<1>7. CASE UNCHANGED vars
  <2>1. /\ UNCHANGED <<ev, notevars, sub, srv, cfg, calls, pipe, lines, out, bearer>>
    BY <1>7 DEF vars, servervars, notevars
  <2>2. ev' \in 0..MaxEvents
    BY <2>1, Counted
  <2>3. NoteInv'
    BY <2>1, <2>2, NotesKept DEF Inv
  <2>4. srv \in Servers /\ cfg \in Configs /\ bearer \in {""} \cup Keys
        /\ (srv.require_token /\ sub.open => bearer # "")
    BY DEF Inv, FrameOK, ExposedIsGuarded
  <2> QED
    BY <2>1, <2>3, <2>4, SameRequests
<1> QED
  BY <1>1, <1>2, <1>3, <1>4, <1>5, <1>6, <1>7 DEF Next

(***************************************************************************)
(* The inductive invariant of the server.                                  *)
(***************************************************************************)
THEOREM ServerInvariant == Spec => [](TypeOK /\ ServerInv)
<1>1. Init => Inv
  BY InitInv
<1>2. Inv /\ [Next]_vars => Inv'
  BY NextInv
<1>3. Inv => TypeOK /\ ServerInv
  BY InvIs
<1> QED
  BY <1>1, <1>2, <1>3, PTL DEF Spec

(***************************************************************************)
(* The destructive tools (mcp/dispatch.rs handle_tool_call): nothing is    *)
(* run unasked, "pending" and "refused" are the truth, the message asks    *)
(* for what the row waits for, and the guest is the one the client named;  *)
(* for any number of requests, any numbers, reloads, failures and          *)
(* timeouts.                                                               *)
(***************************************************************************)
THEOREM ServerAsks == Spec => []CallsAreAsked
<1>1. TypeOK /\ ServerInv => CallsAreAsked
  <2> SUFFICES ASSUME TypeOK, ServerInv PROVE CallsAreAsked
    OBVIOUS
  <2>1. \A s \in Slots : CallOK(calls[s]) /\ calls[s].asked \in Nat
    BY DEF ServerInv, CallInv, TypeOK, Calls
  <2>2. NothingRunsUnasked /\ PendingIsAsked
    BY <2>1 DEF NothingRunsUnasked, PendingIsAsked, CallOK, Harmless
  <2>3. AskedAsRecorded /\ GuestIsTheNamed
    BY <2>1 DEF AskedAsRecorded, GuestIsTheNamed, CallOK
  <2> QED
    BY <2>2, <2>3 DEF CallsAreAsked
<1> QED
  BY <1>1, ServerInvariant, PTL

(***************************************************************************)
(* The transports (mcp/server.rs, mcp/http_server.rs, notifications.rs):   *)
(* an exposed server lets nobody in without a token, answers on stdout     *)
(* come in the order of the lines and the server ends after the last of    *)
(* them, and a subscriber's notes are in order with every loss announced.  *)
(***************************************************************************)
THEOREM ServerInOrder == Spec => []ClientsAreServedInOrder
<1>1. TypeOK /\ ServerInv => ClientsAreServedInOrder
  BY DEF ServerInv, StdioInv, ClientsAreServedInOrder, StdioInOrder
<1> QED
  BY <1>1, ServerInvariant, PTL

(***************************************************************************)
(* The SSE stream (mcp/http_server.rs): no note is sent to a stream whose  *)
(* token no longer opens the server, whatever the reloads in between.      *)
(***************************************************************************)
THEOREM ServerRevokes == Spec => RevokedHearsNothing
<1> DEFINE A == ~srv.stdio /\ (sub'.heard # sub.heard \/ sub'.missed # sub.missed) /\ sub.open
                  => auth_ok(bearer)
<1>1. TypeOK /\ [Next]_vars => [A]_vars
  <2> SUFFICES ASSUME TypeOK, Next, ~srv.stdio, sub.open,
                      sub'.heard # sub.heard \/ sub'.missed # sub.missed
               PROVE  auth_ok(bearer)
    OBVIOUS
  <2>1. sub \in [open : BOOLEAN, from : Nat, next : Nat, heard : Nat, missed : Nat]
    BY DEF TypeOK, NotifyTypeOK
  <2>2. ~Unsubscribed /\ sub' # sub
    BY <2>1 DEF Unsubscribed
  <2>3. ~(Start \/ Reload \/ WriteLine \/ CloseInput \/ ReadLine \/ TakeLine \/ WriteNote
          \/ Recheck \/ Signal \/ OpenStream \/ ClientTurns)
    BY <2>2 DEF Start, Reload, WriteLine, CloseInput, ReadLine, TakeLine, WriteNote,
         Recheck, Signal, OpenStream, ClientTurns, notevars
  <2>4. ~(Post \/ PostBatch \/ HangUp \/ Exit)
    BY <2>2 DEF Post, PostBatch, HangUp, Exit, notevars
  <2>5. \A s \in Slots : ~(Proceed(s) \/ Replied(s) \/ Timeout(s) \/ Deliver(s) \/ Execute(s))
    BY <2>2 DEF Proceed, Replied, Timeout, Authorize, NextOfBatch, Dispatch, TagsRead,
         ChannelReady, GuestFound, RiskAssessed, SendAnswered, SendFailed, RunStep, Deliver,
         Execute, Quiet, notevars
  <2>6. ~(TaskMoves \/ LockMoves \/ DriftReported \/ Polls)
    BY <2>2 DEF TaskMoves, LockMoves, DriftReported, Polls, PollTasks, PollIncident, PollDrift
  <2>7. StreamNote
    BY <2>3, <2>4, <2>5, <2>6 DEF Next
  <2> QED
    BY <2>2, <2>7 DEF StreamNote
<1>2. Spec => []TypeOK
  BY ServerInvariant, PTL
<1> QED
  BY <1>1, <1>2, PTL DEF Spec, RevokedHearsNothing
=============================================================================
