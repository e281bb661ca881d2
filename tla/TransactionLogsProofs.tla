------------------------- MODULE TransactionLogsProofs -------------------------
(***************************************************************************)
(* What is proved of the logs of a transaction: which bytes are telemetry, *)
(* that the telemetry read out of a log is the telemetry written to it,    *)
(* that each row of the program log card is of its instruction, and that   *)
(* each attack is shown with its own event, however many programs invoke   *)
(* each other and wherever the log is cut; and that the replay of a combat *)
(* tells the shots that were fired, whatever their damages.                *)
(***************************************************************************)
EXTENDS TransactionLogs, TLAPS, SequenceTheorems, FiniteSetTheorems, WellFoundedInduction

(* The lengths the code lists by hand are those of what it reads: in no    *)
(* version does the reader run out of bytes, or have any left.             *)
LEMMA LengthsAreRead ==
  \A kind \in {Fleet, Starbase}, version \in Version :
    /\ expectedLength(kind, version) = eventBytes(kind, version)
    /\ expectedLength(kind, version) \in SUPPORTED_LENGTHS
BY DEF Fleet, Starbase, Version, expectedLength, eventBytes, SUPPORTED_LENGTHS,
       headerBytes, combatantBytes, shotBytes, apBytes, identityBytes

(* "Decode the exact v1/v2/v3 Borsh payload" (combat-telemetry.ts:326):    *)
(* bytes are accepted exactly when they are of a known kind and version,   *)
(* have the length of that kind and version, and hold legal values.        *)
THEOREM DecodesExactly ==
  ASSUME NEW bytes
  PROVE  parses(bytes) <=>
           /\ bytes.kind \in {Fleet, Starbase}
           /\ bytes.version \in Version
           /\ bytes.length = eventBytes(bytes.kind, bytes.version)
           /\ bytes.values
BY LengthsAreRead, Zenon DEF parses

(* The length tells the kind and the version: no bytes are telemetry of    *)
(* two of them.                                                            *)
THEOREM LengthsDiffer ==
  \A k1, k2 \in {Fleet, Starbase}, v1, v2 \in Version :
    eventBytes(k1, v1) = eventBytes(k2, v2) => k1 = k2 /\ v1 = v2
BY DEF Fleet, Starbase, Version, eventBytes, headerBytes, combatantBytes, shotBytes,
       apBytes, identityBytes

-------------------------------------------------------------------------------
(* Induction over the naturals, on a set in place of a predicate.          *)
LEMMA Induction ==
  ASSUME NEW S, 0 \in S, \A n \in Nat : n \in S => n + 1 \in S
  PROVE  Nat \subseteq S
<1>1. SUFFICES ASSUME Nat \ S # {} PROVE FALSE
  OBVIOUS
<1>2. PICK x \in Nat \ S : \A y \in Nat \ S : ~ (<<y, x>> \in OpToRel(<, Nat))
  BY <1>1, WFMin, NatLessThanWellFounded, Zenon
<1>3. \A y \in Nat \ S : ~ (y < x)
  BY <1>2 DEF OpToRel
<1>4. x - 1 \in Nat
  OBVIOUS
<1>5. x - 1 \in S
  BY <1>3, <1>4
<1>6. (x - 1) + 1 \in S
  BY <1>4, <1>5
<1>. QED
  BY <1>6

(* The states of the loop over the lines are those its turns define.       *)
LEMMA FramesAreDefined ==
  ASSUME NEW logs, Len(logs) \in Nat, NEW p, NEW slot
  PROVE  framesRead(logs, p, slot) =
           [n \in 0 .. Len(logs) |->
              IF n = 0 THEN NoFrames
              ELSE ReadFrame(framesRead(logs, p, slot)[n-1], logs[n], p, slot)]
<1>. DEFINE Is(f, N) == f = [n \in 0 .. N |-> IF n = 0 THEN NoFrames
                                              ELSE ReadFrame(f[n-1], logs[n], p, slot)]
            S == {N \in Nat : \E f : Is(f, N)}
<1>1. 0 \in S
  <2>1. Is([n \in 0 .. 0 |-> NoFrames], 0)
    OBVIOUS
  <2>. QED
    BY <2>1
<1>2. ASSUME NEW N \in Nat, N \in S PROVE N + 1 \in S
  <2>1. PICK f : Is(f, N)
    BY <1>2
  <2>. DEFINE g == [n \in 0 .. N + 1 |-> IF n = N + 1 THEN ReadFrame(f[N], logs[N + 1], p, slot)
                                         ELSE f[n]]
  <2>2. ASSUME NEW n \in 0 .. N + 1
        PROVE  g[n] = IF n = 0 THEN NoFrames ELSE ReadFrame(g[n-1], logs[n], p, slot)
    <3>1. CASE n = N + 1
      <4>1. g[n - 1] = f[N]
        BY <3>1
      <4>. QED
        BY <3>1, <4>1
    <3>2. CASE n \in 1 .. N
      <4>1. g[n] = f[n] /\ g[n - 1] = f[n - 1]
        BY <3>2
      <4>. QED
        BY <3>2, <4>1, <2>1
    <3>3. CASE n = 0
      BY <3>3, <2>1
    <3>. QED
      BY <3>1, <3>2, <3>3
  <2>3. Is(g, N + 1)
    BY <2>2
  <2>. HIDE DEF g, Is
  <2>4. \E h : Is(h, N + 1)
    BY <2>3
  <2>. QED
    BY <2>4
<1>. HIDE DEF S
<1>3. Len(logs) \in S
  BY <1>1, <1>2, Induction
<1>4. PICK f : Is(f, Len(logs))
  BY <1>3 DEF S
<1>. QED
  BY <1>4, Zenon DEF framesRead
(* What was read of a log stays as it was when a line is added.            *)
LEMMA FramesOfPrefix ==
  ASSUME NEW Lines, NEW logs \in Seq(Lines), NEW line \in Lines, NEW p, NEW slot
  PROVE  /\ \A n \in 0 .. Len(logs) :
              framesRead(Append(logs, line), p, slot)[n] = framesRead(logs, p, slot)[n]
         /\ framesRead(Append(logs, line), p, slot)[Len(logs) + 1] =
              ReadFrame(framesRead(logs, p, slot)[Len(logs)], line, p, slot)
<1>. DEFINE more == Append(logs, line)
            f == framesRead(logs, p, slot)
            g == framesRead(more, p, slot)
            S == {n \in Nat : n <= Len(logs) => g[n] = f[n]}
<1>1. /\ Len(logs) \in Nat /\ Len(more) = Len(logs) + 1 /\ more[Len(logs) + 1] = line
      /\ \A n \in 1 .. Len(logs) : more[n] = logs[n]
  OBVIOUS
<1>2. f = [n \in 0 .. Len(logs) |-> IF n = 0 THEN NoFrames ELSE ReadFrame(f[n-1], logs[n], p, slot)]
  BY <1>1, FramesAreDefined
<1>3. g = [n \in 0 .. Len(more) |-> IF n = 0 THEN NoFrames ELSE ReadFrame(g[n-1], more[n], p, slot)]
  <2>1. Len(more) \in Nat
    BY <1>1
  <2>. HIDE DEF more
  <2>. QED
    BY <2>1, FramesAreDefined
<1>. HIDE DEF f, g, more
<1>4. g[0] = f[0]
  BY <1>1, <1>2, <1>3
<1>5. \A n \in 1 .. Len(logs) : f[n] = ReadFrame(f[n-1], logs[n], p, slot)
  BY <1>1, <1>2
<1>6. ASSUME NEW n \in 1 .. Len(logs) + 1
      PROVE  g[n] = ReadFrame(g[n-1], more[n], p, slot)
  <2>1. n \in 0 .. Len(more) /\ n # 0
    BY <1>1
  <2>. QED
    BY <1>3, <2>1
<1>7. 0 \in S
  BY <1>4
<1>8. ASSUME NEW n \in Nat, n \in S PROVE n + 1 \in S
  <2>1. CASE n + 1 <= Len(logs)
    <3>1. /\ n + 1 \in 1 .. Len(logs) /\ n + 1 \in 1 .. Len(logs) + 1 /\ (n + 1) - 1 = n
      BY <1>1, <2>1
    <3>2. g[n + 1] = ReadFrame(g[n], logs[n + 1], p, slot)
      BY <1>1, <1>6, <3>1
    <3>3. f[n + 1] = ReadFrame(f[n], logs[n + 1], p, slot)
      BY <1>5, <3>1
    <3>4. g[n] = f[n]
      BY <1>1, <1>8, <2>1
    <3>. QED
      BY <3>2, <3>3, <3>4
  <2>2. CASE ~ (n + 1 <= Len(logs))
    BY <2>2
  <2>. QED
    BY <2>1, <2>2
<1>. HIDE DEF S
<1>9. Nat \subseteq S
  BY <1>7, <1>8, Induction
<1>10. \A n \in 0 .. Len(logs) : g[n] = f[n]
  BY <1>1, <1>9 DEF S
<1>11. g[Len(logs) + 1] = ReadFrame(f[Len(logs)], line, p, slot)
  <2>1. Len(logs) + 1 \in 1 .. Len(logs) + 1 /\ (Len(logs) + 1) - 1 = Len(logs)
    BY <1>1
  <2>2. g[Len(logs) + 1] = ReadFrame(g[Len(logs)], line, p, slot)
    BY <1>1, <1>6, <2>1
  <2>3. g[Len(logs)] = f[Len(logs)]
    BY <1>1, <1>10
  <2>. QED
    BY <2>2, <2>3
<1>. QED
  BY <1>10, <1>11 DEF f, g, more

(* The telemetry told by n lines is as defined.                            *)
LEMMA TelemetryIsDefined ==
  ASSUME Len(log) \in Nat, NEW p
  PROVE  telemetryOf(p) =
           [n \in 0 .. Len(log) |->
              IF n = 0 THEN <<>>
              ELSE IF IsTelemetryOf(log[n], p) THEN Append(telemetryOf(p)[n-1], log[n])
              ELSE telemetryOf(p)[n-1]]
<1>. DEFINE Is(f, N) == f = [n \in 0 .. N |-> IF n = 0 THEN <<>>
                                              ELSE IF IsTelemetryOf(log[n], p) THEN Append(f[n-1], log[n])
                                              ELSE f[n-1]]
            S == {N \in Nat : \E f : Is(f, N)}
<1>1. 0 \in S
  <2>1. Is([n \in 0 .. 0 |-> <<>>], 0)
    OBVIOUS
  <2>. QED
    BY <2>1
<1>2. ASSUME NEW N \in Nat, N \in S PROVE N + 1 \in S
  <2>1. PICK f : Is(f, N)
    BY <1>2
  <2>. DEFINE next == IF IsTelemetryOf(log[N + 1], p) THEN Append(f[N], log[N + 1]) ELSE f[N]
              g == [n \in 0 .. N + 1 |-> IF n = N + 1 THEN next ELSE f[n]]
  <2>2. ASSUME NEW n \in 0 .. N + 1
        PROVE  g[n] = IF n = 0 THEN <<>>
                      ELSE IF IsTelemetryOf(log[n], p) THEN Append(g[n-1], log[n]) ELSE g[n-1]
    <3>1. CASE n = N + 1
      <4>1. g[n - 1] = f[N]
        BY <3>1
      <4>. QED
        BY <3>1, <4>1
    <3>2. CASE n \in 1 .. N
      <4>1. g[n] = f[n] /\ g[n - 1] = f[n - 1]
        BY <3>2
      <4>2. n # 0 /\ n \in 0 .. N
        BY <3>2
      <4>3. f[n] = IF IsTelemetryOf(log[n], p) THEN Append(f[n-1], log[n]) ELSE f[n-1]
        BY <4>2, <2>1, Zenon
      <4>. QED
        BY <4>1, <4>2, <4>3, Zenon
    <3>3. CASE n = 0
      BY <3>3, <2>1
    <3>. QED
      BY <3>1, <3>2, <3>3
  <2>3. Is(g, N + 1)
    BY <2>2
  <2>. HIDE DEF g, Is
  <2>4. \E h : Is(h, N + 1)
    BY <2>3
  <2>. QED
    BY <2>4
<1>. HIDE DEF S
<1>3. Len(log) \in S
  BY <1>1, <1>2, Induction
<1>4. PICK f : Is(f, Len(log))
  BY <1>3 DEF S
<1>. QED
  BY <1>4, Zenon DEF telemetryOf
-------------------------------------------------------------------------------
(* The states of the loop, over a log of the runtime. *)
Program == Logging \cup Native \cup {NoData}
Frames == [programStack : Seq(Program), events : Seq(LogEntry)]

(* What the kind of a line tells of the rest of it.                        *)
LEMMA LinesSay ==
  ASSUME NEW line \in LogEntry
  PROVE  /\ line.kind = "invoke" => line.program \in Logging /\ line.depth \in Nat \ {0}
         /\ line.kind = "data" => line.program \in Logging
         /\ line.kind = "truncated" <=> line = Truncated
BY DEF LogEntry, Truncated

LEMMA FrameIsTyped ==
  ASSUME NEW s \in Frames, NEW line \in LogEntry, NEW p, NEW slot
  PROVE  ReadFrame(s, line, p, slot) \in Frames
<1>1. CASE line.kind = "invoke"
  <2>1. ReadFrame(s, line, p, slot) = Invoked(s, line)
    BY <1>1 DEF ReadFrame
  <2>2. line.program \in Program /\ line.depth \in Nat /\ NoData \in Program
    BY <1>1, LinesSay DEF Program
  <2>. DEFINE cell(i) == IF i = line.depth THEN line.program
                         ELSE IF i <= Len(s.programStack) THEN s.programStack[i] ELSE NoData
              stack == [i \in 1 .. line.depth |-> cell(i)]
  <2>3. s.programStack \in Seq(Program)
    BY DEF Frames
  <2>4. \A i \in 1 .. line.depth : cell(i) \in Program
    BY <2>2, <2>3
  <2>5. stack \in Seq(Program)
    <3>. HIDE DEF cell
    <3>. QED
      BY <2>2, <2>4
  <2>6. Invoked(s, line) = [s EXCEPT !.programStack = stack]
    BY DEF Invoked
  <2>. HIDE DEF stack
  <2>7. Invoked(s, line) \in Frames
    BY <2>5, <2>6 DEF Frames
  <2>. QED
    BY <2>1, <2>7
<1>2. CASE line.kind \in {"success", "failed"}
  <2>1. ReadFrame(s, line, p, slot) = Completed(s, line)
    BY <1>2 DEF ReadFrame
  <2>2. s.programStack \in Seq(Program)
    BY DEF Frames
  <2>3. s.programStack # <<>> => Front(s.programStack) \in Seq(Program)
    BY <2>2 DEF Front
  <2>4. Completed(s, line) \in Frames
    BY <2>2, <2>3 DEF Completed, Frames
  <2>. QED
    BY <2>1, <2>4
<1>3. CASE line.kind \notin {"invoke", "success", "failed"}
  <2>1. \/ ReadFrame(s, line, p, slot) = [s EXCEPT !.events = Append(@, line)]
        \/ ReadFrame(s, line, p, slot) = s
    BY <1>3, Zenon DEF ReadFrame
  <2>2. /\ s.events \in Seq(LogEntry)
        /\ [s EXCEPT !.events = Append(s.events, line)] = [s EXCEPT !.events = Append(@, line)]
    BY DEF Frames
  <2>3. Append(s.events, line) \in Seq(LogEntry)
    BY <2>2
  <2>4. [s EXCEPT !.events = Append(@, line)] \in Frames
    BY <2>2, <2>3 DEF Frames
  <2>. QED
    BY <2>1, <2>4
<1>. QED
  BY <1>1, <1>2, <1>3

LEMMA FramesAreTyped ==
  ASSUME NEW logs \in Seq(LogEntry), NEW p, NEW slot
  PROVE  \A n \in 0 .. Len(logs) : framesRead(logs, p, slot)[n] \in Frames
<1>. DEFINE f == framesRead(logs, p, slot)
            S == {n \in Nat : n <= Len(logs) => f[n] \in Frames}
<1>1. Len(logs) \in Nat
  OBVIOUS
<1>2. f = [n \in 0 .. Len(logs) |-> IF n = 0 THEN NoFrames ELSE ReadFrame(f[n-1], logs[n], p, slot)]
  BY <1>1, FramesAreDefined
<1>. HIDE DEF f
<1>3. NoFrames \in Frames
  BY DEF NoFrames, Frames
<1>4. 0 \in S
  BY <1>1, <1>2, <1>3
<1>5. ASSUME NEW n \in Nat, n \in S PROVE n + 1 \in S
  <2>1. CASE n + 1 <= Len(logs)
    <3>1. f[n + 1] = ReadFrame(f[n], logs[n + 1], p, slot)
      BY <1>1, <1>2, <2>1
    <3>2. f[n] \in Frames /\ logs[n + 1] \in LogEntry
      BY <1>1, <1>5, <2>1
    <3>. QED
      BY <3>1, <3>2, FrameIsTyped
  <2>2. CASE ~ (n + 1 <= Len(logs))
    BY <2>2
  <2>. QED
    BY <2>1, <2>2
<1>. HIDE DEF S
<1>6. Nat \subseteq S
  BY <1>4, <1>5, Induction
<1>. QED
  BY <1>1, <1>6 DEF S, f

-------------------------------------------------------------------------------
(* Each data line is read while the program that logged it is on top.      *)
DataIsOwn(logs) ==
  \A p \in Sage, n \in 1 .. Len(logs) :
    logs[n].kind = "data" =>
      /\ framesRead(logs, p, Slot)[n-1].programStack # <<>>
      /\ Last(framesRead(logs, p, Slot)[n-1].programStack) = logs[n].program

(* Then what is taken for telemetry of a program is its telemetry.         *)
LEMMA EventsAreTelemetry ==
  ASSUME log \in Seq(LogEntry), DataIsOwn(log), NEW p \in Sage
  PROVE  framesRead(log, p, Slot)[Len(log)].events = telemetryOf(p)[Len(log)]
<1>. DEFINE f == framesRead(log, p, Slot)
            t == telemetryOf(p)
            S == {n \in Nat : n <= Len(log) => f[n].events = t[n]}
<1>1. Len(log) \in Nat
  OBVIOUS
<1>2. f = [n \in 0 .. Len(log) |-> IF n = 0 THEN NoFrames ELSE ReadFrame(f[n-1], log[n], p, Slot)]
  BY <1>1, FramesAreDefined
<1>3. t = [n \in 0 .. Len(log) |->
             IF n = 0 THEN <<>>
             ELSE IF IsTelemetryOf(log[n], p) THEN Append(t[n-1], log[n]) ELSE t[n-1]]
  BY <1>1, TelemetryIsDefined
<1>4. \A n \in 0 .. Len(log) : f[n] \in Frames
  BY FramesAreTyped
<1>5. \A n \in 1 .. Len(log) :
        log[n].kind = "data" => f[n-1].programStack # <<>> /\ Last(f[n-1].programStack) = log[n].program
  BY DEF DataIsOwn
<1>. HIDE DEF f, t
<1>6. 0 \in S
  <2>1. f[0] = NoFrames /\ t[0] = <<>>
    BY <1>1, <1>2, <1>3
  <2>. QED
    BY <2>1 DEF NoFrames
<1>7. ASSUME NEW n \in Nat, n \in S PROVE n + 1 \in S
  <2>1. CASE n + 1 <= Len(log)
    <3>. DEFINE line == log[n + 1]
    <3>1. n + 1 \in 1 .. Len(log) /\ (n + 1) - 1 = n /\ n \in 0 .. Len(log) /\ n + 1 \in 0 .. Len(log)
          /\ n + 1 # 0
      BY <1>1, <2>1
    <3>2. f[n + 1] = ReadFrame(f[n], line, p, Slot)
      BY <1>2, <3>1, Zenon
    <3>3. t[n + 1] = IF IsTelemetryOf(line, p) THEN Append(t[n], line) ELSE t[n]
      BY <1>3, <3>1, Zenon
    <3>4. f[n] \in Frames /\ line \in LogEntry
      BY <1>4, <3>1
    <3>5. f[n].events = t[n]
      BY <1>1, <1>7, <2>1
    <3>6. line.kind = "data" => f[n].programStack # <<>> /\ Last(f[n].programStack) = line.program
      BY <1>5, <3>1
    <3>. HIDE DEF line
    <3>7. isEvent(f[n], line, p, Slot) <=> IsTelemetryOf(line, p)
      <4>1. parses(line.bytes) /\ line.bytes.slot = Slot <=> Canonical(line.bytes)
        BY DecodesExactly, Zenon DEF Canonical
      <4>. QED
        BY <3>6, <4>1, Zenon DEF isEvent, IsTelemetryOf
    <3>8. CASE IsTelemetryOf(line, p)
      <4>1. ReadFrame(f[n], line, p, Slot) = [f[n] EXCEPT !.events = Append(@, line)]
        <5>1. line.kind = "data"
          BY <3>8 DEF IsTelemetryOf
        <5>2. line.kind # "invoke" /\ line.kind \notin {"success", "failed"}
          BY <5>1
        <5>. QED
          BY <3>7, <3>8, <5>2, Zenon DEF ReadFrame
      <4>2. f[n + 1].events = Append(f[n].events, line)
        BY <3>2, <3>4, <4>1 DEF Frames
      <4>3. t[n + 1] = Append(t[n], line)
        BY <3>3, <3>8, Zenon
      <4>4. f[n + 1].events = t[n + 1]
        BY <3>5, <4>2, <4>3, Zenon
      <4>5. n + 1 \in Nat
        OBVIOUS
      <4>. QED
        BY <4>4, <4>5, Zenon
    <3>9. CASE ~ IsTelemetryOf(line, p)
      <4>1. \/ ReadFrame(f[n], line, p, Slot) = Invoked(f[n], line)
            \/ ReadFrame(f[n], line, p, Slot) = Completed(f[n], line)
            \/ ReadFrame(f[n], line, p, Slot) = f[n]
        BY <3>7, <3>9, Zenon DEF ReadFrame
      <4>2. Invoked(f[n], line).events = f[n].events
        BY <3>4 DEF Invoked, Frames
      <4>3. Completed(f[n], line).events = f[n].events
        BY <3>4 DEF Completed, Frames
      <4>4. t[n + 1] = t[n]
        BY <3>3, <3>9, Zenon
      <4>. QED
        BY <3>2, <3>5, <4>1, <4>2, <4>3, <4>4
    <3>. QED
      BY <3>8, <3>9
  <2>2. CASE ~ (n + 1 <= Len(log))
    BY <2>2
  <2>. QED
    BY <2>1, <2>2
<1>. HIDE DEF S
<1>8. Nat \subseteq S
  BY <1>6, <1>7, Induction
<1>. QED
  BY <1>1, <1>8 DEF S, f, t
-------------------------------------------------------------------------------
(* The stack after a line, whoever reads it.                               *)
StackAfter(stack, line) ==
  IF line.kind = "invoke"
    THEN [i \in 1 .. line.depth |-> IF i = line.depth THEN line.program
                                    ELSE IF i <= Len(stack) THEN stack[i] ELSE NoData]
  ELSE IF /\ line.kind \in {"success", "failed"}
          /\ stack # <<>> /\ Last(stack) = line.program THEN Front(stack)
  ELSE stack

(* What holds of the log and its length, w, while the programs fr run.     *)
(* Once a line was left out no telemetry fits any more; until then the     *)
(* reader of the log knows which programs run.                             *)
IsRead(w, fr) ==
  /\ w \in [log : Seq(LogEntry), written : Nat]
  /\ Truncated \in ToSet(w.log) => w.written + 6 >= limit
  /\ Truncated \notin ToSet(w.log) =>
       \A p \in Sage : framesRead(w.log, p, Slot)[Len(w.log)].programStack = fr
  /\ DataIsOwn(w.log)

(* Only an instruction that is there runs programs.                        *)
RunsInstruction == frames # <<>> => at <= Len(tx)

(* The inductive invariant. *)
IInv == TypeOK /\ RunsInstruction /\ IsRead(Logged, frames)

LEMMA StackIsRead ==
  ASSUME NEW s \in Frames, NEW line \in LogEntry, NEW p, NEW slot
  PROVE  ReadFrame(s, line, p, slot).programStack = StackAfter(s.programStack, line)
<1>1. CASE line.kind = "invoke"
  <2>1. ReadFrame(s, line, p, slot) = Invoked(s, line)
    BY <1>1 DEF ReadFrame
  <2>2. Invoked(s, line).programStack = StackAfter(s.programStack, line)
    BY <1>1 DEF Invoked, StackAfter, Frames
  <2>. QED
    BY <2>1, <2>2
<1>2. CASE line.kind \in {"success", "failed"}
  <2>1. ReadFrame(s, line, p, slot) = Completed(s, line)
    BY <1>2 DEF ReadFrame
  <2>2. Completed(s, line).programStack = StackAfter(s.programStack, line)
    BY <1>2 DEF Completed, StackAfter, Frames
  <2>. QED
    BY <2>1, <2>2
<1>3. CASE line.kind \notin {"invoke", "success", "failed"}
  <2>1. \/ ReadFrame(s, line, p, slot) = [s EXCEPT !.events = Append(@, line)]
        \/ ReadFrame(s, line, p, slot) = s
    BY <1>3, Zenon DEF ReadFrame
  <2>2. [s EXCEPT !.events = Append(@, line)].programStack = s.programStack
    BY DEF Frames
  <2>3. StackAfter(s.programStack, line) = s.programStack
    BY <1>3 DEF StackAfter
  <2>. QED
    BY <2>1, <2>2, <2>3
<1>. QED
  BY <1>1, <1>2, <1>3

LEMMA SetOfMore ==
  ASSUME NEW S, NEW s \in Seq(S), NEW x \in S
  PROVE  ToSet(Append(s, x)) = ToSet(s) \cup {x}
<1>. DEFINE t == Append(s, x)
<1>1. /\ DOMAIN s = 1 .. Len(s) /\ DOMAIN t = 1 .. Len(s) + 1 /\ Len(s) \in Nat
      /\ t[Len(s) + 1] = x /\ \A i \in 1 .. Len(s) : t[i] = s[i]
  OBVIOUS
<1>. HIDE DEF t
<1>2. ASSUME NEW i \in DOMAIN t PROVE t[i] \in ToSet(s) \cup {x}
  BY <1>1 DEF ToSet
<1>3. ASSUME NEW i \in DOMAIN s PROVE s[i] \in ToSet(t)
  <2>1. i \in DOMAIN t /\ t[i] = s[i]
    BY <1>1
  <2>. QED
    BY <2>1 DEF ToSet
<1>4. x \in ToSet(t)
  <2>1. Len(s) + 1 \in DOMAIN t
    BY <1>1
  <2>. QED
    BY <1>1, <2>1 DEF ToSet
<1>5. ToSet(t) = ToSet(s) \cup {x}
  BY <1>2, <1>3, <1>4 DEF ToSet
<1>. QED
  BY <1>5 DEF t

(* A line that is not data, or data of the program on top, may be added.   *)
LEMMA DataStaysOwn ==
  ASSUME NEW logs \in Seq(LogEntry), DataIsOwn(logs), NEW line \in LogEntry,
         line.kind = "data" =>
           \A p \in Sage : LET stack == framesRead(logs, p, Slot)[Len(logs)].programStack
                           IN  stack # <<>> /\ Last(stack) = line.program
  PROVE  DataIsOwn(Append(logs, line))
<1>. DEFINE more == Append(logs, line)
<1>1. SUFFICES ASSUME NEW p \in Sage, NEW n \in 1 .. Len(more), more[n].kind = "data"
               PROVE  /\ framesRead(more, p, Slot)[n-1].programStack # <<>>
                      /\ Last(framesRead(more, p, Slot)[n-1].programStack) = more[n].program
  BY DEF DataIsOwn
<1>2. /\ Len(logs) \in Nat /\ Len(more) = Len(logs) + 1 /\ more[Len(logs) + 1] = line
      /\ \A m \in 1 .. Len(logs) : more[m] = logs[m]
  OBVIOUS
<1>3. \A m \in 0 .. Len(logs) : framesRead(more, p, Slot)[m] = framesRead(logs, p, Slot)[m]
  BY FramesOfPrefix
<1>. HIDE DEF more
<1>4. CASE n \in 1 .. Len(logs)
  <2>1. n - 1 \in 0 .. Len(logs) /\ more[n] = logs[n]
    BY <1>2, <1>4
  <2>2. framesRead(more, p, Slot)[n-1] = framesRead(logs, p, Slot)[n-1]
    BY <1>3, <2>1
  <2>. QED
    BY <1>1, <1>4, <2>1, <2>2 DEF DataIsOwn
<1>5. CASE n = Len(logs) + 1
  <2>1. n - 1 = Len(logs) /\ n - 1 \in 0 .. Len(logs) /\ more[n] = line
    BY <1>2, <1>5
  <2>2. framesRead(more, p, Slot)[n-1] = framesRead(logs, p, Slot)[Len(logs)]
    BY <1>3, <2>1
  <2>. QED
    BY <1>1, <2>1, <2>2
<1>. QED
  BY <1>2, <1>4, <1>5

(* Writing a line leaves the log readable, with what the line does to the  *)
(* stack done to the programs that run.                                    *)
LEMMA LineIsRead ==
  ASSUME limit \in Nat, NEW w, NEW fr, IsRead(w, fr),
         NEW line \in LogEntry, line.kind # "truncated",
         line.kind = "data" => fr # <<>> /\ Last(fr) = line.program
  PROVE  IsRead(LogLine(w, line), StackAfter(fr, line))
<1>1. /\ w \in [log : Seq(LogEntry), written : Nat] /\ w.log \in Seq(LogEntry) /\ w.written \in Nat
      /\ DataIsOwn(w.log)
  BY DEF IsRead
<1>2. /\ Size(line) \in Nat /\ Size(line) <= 6
      /\ line.kind = "data" => Size(line) = 6
  BY DEF Size
<1>3. line # Truncated /\ Truncated \in LogEntry /\ Truncated.kind # "data"
  BY LinesSay DEF Truncated, LogEntry
<1>4. CASE w.written + Size(line) < limit
  <2>. DEFINE v == [log |-> Append(w.log, line), written |-> w.written + Size(line)]
  <2>1. LogLine(w, line) = v
    BY <1>4 DEF LogLine
  <2>2. v.log = Append(w.log, line) /\ v.written = w.written + Size(line)
        /\ v \in [log : Seq(LogEntry), written : Nat] /\ Len(v.log) = Len(w.log) + 1
    BY <1>1, <1>2
  <2>. HIDE DEF v
  <2>3. Truncated \in ToSet(v.log) <=> Truncated \in ToSet(w.log)
    BY <1>1, <1>3, <2>2, SetOfMore
  <2>4. Truncated \in ToSet(v.log) => v.written + 6 >= limit
    BY <1>1, <1>2, <2>2, <2>3 DEF IsRead
  <2>5. ASSUME Truncated \notin ToSet(v.log), NEW p \in Sage
        PROVE  framesRead(v.log, p, Slot)[Len(v.log)].programStack = StackAfter(fr, line)
    <3>1. framesRead(v.log, p, Slot)[Len(v.log)] =
            ReadFrame(framesRead(w.log, p, Slot)[Len(w.log)], line, p, Slot)
      BY <1>1, <2>2, FramesOfPrefix
    <3>2. framesRead(w.log, p, Slot)[Len(w.log)] \in Frames
      <4>1. Len(w.log) \in 0 .. Len(w.log)
        BY <1>1
      <4>. QED
        BY <1>1, <4>1, FramesAreTyped
    <3>3. framesRead(w.log, p, Slot)[Len(w.log)].programStack = fr
      BY <2>3, <2>5 DEF IsRead
    <3>. QED
      BY <3>1, <3>2, <3>3, StackIsRead
  <2>6. DataIsOwn(v.log)
    <3>1. ASSUME line.kind = "data", NEW p \in Sage
          PROVE  LET stack == framesRead(w.log, p, Slot)[Len(w.log)].programStack
                 IN  stack # <<>> /\ Last(stack) = line.program
      <4>1. Truncated \notin ToSet(w.log)
        BY <1>1, <1>2, <1>4, <3>1 DEF IsRead
      <4>. QED
        BY <3>1, <4>1 DEF IsRead
    <3>. QED
      BY <1>1, <2>2, <3>1, DataStaysOwn
  <2>. QED
    BY <2>1, <2>2, <2>4, <2>5, <2>6 DEF IsRead
<1>5. CASE ~ (w.written + Size(line) < limit) /\ Truncated \in ToSet(w.log)
  <2>1. LogLine(w, line) = w
    BY <1>5 DEF LogLine
  <2>. QED
    BY <1>5, <2>1 DEF IsRead
<1>6. CASE ~ (w.written + Size(line) < limit) /\ Truncated \notin ToSet(w.log)
  <2>. DEFINE v == [w EXCEPT !.log = Append(@, Truncated)]
  <2>1. LogLine(w, line) = v
    BY <1>6 DEF LogLine
  <2>2. v.log = Append(w.log, Truncated) /\ v.written = w.written
        /\ v \in [log : Seq(LogEntry), written : Nat]
    BY <1>1, <1>3
  <2>. HIDE DEF v
  <2>3. Truncated \in ToSet(v.log)
    BY <1>1, <1>3, <2>2, SetOfMore
  <2>4. v.written + 6 >= limit
    BY <1>1, <1>2, <1>6, <2>2
  <2>5. DataIsOwn(v.log)
    BY <1>1, <1>3, <2>2, DataStaysOwn
  <2>. QED
    BY <2>1, <2>2, <2>3, <2>4, <2>5 DEF IsRead
<1>. QED
  BY <1>4, <1>5, <1>6
-------------------------------------------------------------------------------
(* A line of the program or of the runtime that leaves the stack alone. *)
LEMMA SaidIsRead ==
  ASSUME limit \in Nat, NEW w, NEW fr, IsRead(w, fr), NEW line \in LogEntry,
         line.kind \in {"log", "text", "verify", "consumed"}
  PROVE  IsRead(LogLine(w, line), fr)
<1>1. StackAfter(fr, line) = fr
  BY DEF StackAfter
<1>2. line.kind # "truncated" /\ line.kind # "data"
  OBVIOUS
<1>. QED
  BY <1>1, <1>2, LineIsRead

LEMMA InvokeIsRead ==
  ASSUME limit \in Nat, at \in Nat, NEW w, IsRead(w, frames), frames \in Seq(Logging),
         NEW program \in Logging
  PROVE  IsRead(LogLine(w, InvokeOf(program, Len(frames) + 1)), Append(frames, program))
<1>. DEFINE line == InvokeOf(program, Len(frames) + 1)
<1>1. line \in LogEntry /\ line.kind = "invoke" /\ line.program = program /\ line.depth = Len(frames) + 1
  BY DEF InvokeOf, LogEntry
<1>. HIDE DEF line
<1>2. StackAfter(frames, line) = Append(frames, program)
  <2>. DEFINE pushed == [i \in 1 .. Len(frames) + 1 |-> IF i = Len(frames) + 1 THEN program
                                                        ELSE IF i <= Len(frames) THEN frames[i] ELSE NoData]
  <2>1. StackAfter(frames, line) = pushed
    BY <1>1 DEF StackAfter
  <2>2. Len(frames) \in Nat /\ pushed \in Seq(Logging) /\ Len(pushed) = Len(frames) + 1
    OBVIOUS
  <2>3. \A i \in 1 .. Len(frames) + 1 : pushed[i] = Append(frames, program)[i]
    OBVIOUS
  <2>. HIDE DEF pushed
  <2>4. Append(frames, program) \in Seq(Logging) /\ Len(Append(frames, program)) = Len(frames) + 1
    OBVIOUS
  <2>5. pushed = Append(frames, program)
    BY <2>2, <2>3, <2>4, SeqEqual
  <2>. QED
    BY <2>1, <2>5
<1>3. line.kind # "truncated" /\ line.kind # "data"
  BY <1>1
<1>4. IsRead(LogLine(w, line), StackAfter(frames, line))
  BY <1>1, <1>3, LineIsRead
<1>. QED
  BY <1>2, <1>4 DEF line

(* The two lines of a program that ends take it from the stack.            *)
LEMMA EndIsRead ==
  ASSUME limit \in Nat, at \in Nat, IsRead(Logged, frames), frames \in Seq(Logging), frames # <<>>,
         NEW kind \in {"success", "failed"}
  PROVE  IsRead(End(kind), Front(frames)) /\ Front(frames) \in Seq(Logging)
<1>. DEFINE line == EndOf(kind, Last(frames))
            v == LogLine(Logged, Consumed)
<1>1. Last(frames) \in Logging /\ Front(frames) \in Seq(Logging)
  BY DEF Last, Front
<1>2. line \in LogEntry /\ line.kind = kind /\ line.program = Last(frames)
  BY <1>1 DEF EndOf, LogEntry
<1>3. Consumed \in LogEntry /\ Consumed.kind = "consumed"
  BY DEF Consumed, LogEntry
<1>. HIDE DEF line
<1>4. IsRead(v, frames)
  BY <1>3, SaidIsRead
<1>. HIDE DEF v
<1>5. StackAfter(frames, line) = Front(frames)
  BY <1>2 DEF StackAfter
<1>6. line.kind # "truncated" /\ line.kind # "data"
  BY <1>2
<1>7. IsRead(LogLine(v, line), StackAfter(frames, line))
  BY <1>2, <1>4, <1>6, LineIsRead
<1>8. End(kind) = LogLine(v, line)
  BY DEF End, v, line
<1>. QED
  BY <1>1, <1>5, <1>7, <1>8

(* What is written is what is read next.                                   *)
LEMMA WrittenIsRead ==
  ASSUME NEW w, IsRead(w, frames'), Write(w), UNCHANGED limit
  PROVE  IsRead(Logged, frames)' /\ log' \in Seq(LogEntry) /\ written' \in Nat
<1>1. w = [log |-> log', written |-> written'] /\ log' = w.log /\ written' = w.written
  BY DEF Write, IsRead
<1>2. log' \in Seq(LogEntry) /\ written' \in Nat
  BY <1>1 DEF IsRead
<1>. QED
  BY <1>1, <1>2 DEF IsRead, Logged
LEMMA InitIsRead == Init => IInv
<1>. SUFFICES ASSUME Init PROVE IInv
  OBVIOUS
<1>1. tx \in Seq(Instruction) /\ Len(tx) \in Nat \ {0}
  <2>1. PICK n \in 1 .. MaxInstructions : tx \in [1 .. n -> Instruction]
    BY DEF Init
  <2>2. n \in Nat \ {0}
    BY BoundsAssumption
  <2>. QED
    BY <2>1, <2>2
<1>2. TypeOK
  BY <1>1 DEF Init, TypeOK
<1>3. RunsInstruction
  BY DEF Init, RunsInstruction
<1>4. IsRead(Logged, frames)
  <2>1. Logged = [log |-> <<>>, written |-> 0] /\ frames = <<>>
    BY DEF Init, Logged
  <2>2. Truncated \notin ToSet(<<>>)
    BY DEF ToSet
  <2>3. \A p \in Sage : framesRead(<<>>, p, Slot)[Len(<<>>)].programStack = <<>>
    <3>1. TAKE p \in Sage
    <3>2. Len(<<>>) = 0 /\ 0 \in 0 .. 0 /\ Len(<<>>) \in Nat
      OBVIOUS
    <3>3. framesRead(<<>>, p, Slot)[0] = NoFrames
      BY <3>2, FramesAreDefined
    <3>. QED
      BY <3>2, <3>3 DEF NoFrames
  <2>4. DataIsOwn(<<>>)
    BY DEF DataIsOwn
  <2>. QED
    BY <2>1, <2>2, <2>3, <2>4 DEF IsRead
<1>. QED
  BY <1>2, <1>3, <1>4 DEF IInv

(* A line that says nothing of the stack is of the instruction that runs.  *)
LEMMA LinesAreEntries ==
  ASSUME at \in Nat
  PROVE  \A kind \in {"log", "text", "verify"} : Line(kind) \in LogEntry /\ Line(kind).kind = kind
BY DEF Line, LogEntry

LEMMA NextIsRead == IInv /\ [Next]_vars => IInv'
<1>. SUFFICES ASSUME IInv, [Next]_vars PROVE IInv'
  OBVIOUS
<1>1. /\ tx \in Seq(Instruction) /\ at \in 1 .. Len(tx) + 1 /\ Len(tx) \in Nat /\ at \in Nat
      /\ frames \in Seq(Logging) /\ err \in -1 .. Len(tx)
      /\ log \in Seq(LogEntry) /\ limit \in Limit /\ written \in Nat /\ said \in Nat
      /\ limit \in Nat
  BY BoundsAssumption DEF IInv, TypeOK
<1>2. IsRead(Logged, frames) /\ RunsInstruction
  BY DEF IInv
<1>. DEFINE Goal == TypeOK' /\ RunsInstruction' /\ IsRead(Logged, frames)'
<1>. SUFFICES Goal
  BY DEF Goal, IInv
<1>3. ASSUME NEW w, IsRead(w, frames'), Write(w), UNCHANGED <<tx, limit>>,
             frames' \in Seq(Logging), at' \in 1 .. Len(tx) + 1, err' \in -1 .. Len(tx),
             said' \in Nat, frames' # <<>> => at' <= Len(tx)
      PROVE  Goal
  <2>1. IsRead(Logged, frames)' /\ log' \in Seq(LogEntry) /\ written' \in Nat
    BY <1>3, WrittenIsRead
  <2>2. TypeOK'
    BY <1>1, <1>3, <2>1 DEF TypeOK
  <2>3. RunsInstruction'
    BY <1>3 DEF RunsInstruction
  <2>. QED
    BY <2>1, <2>2, <2>3
<1>. HIDE DEF Goal
<1>4. ASSUME Running PROVE at <= Len(tx) /\ frames # <<>>
  BY <1>2, <1>4 DEF Running, RunsInstruction
<1>5. ASSUME NEW kind \in {"success", "failed"}, frames # <<>>
      PROVE  IsRead(End(kind), Front(frames)) /\ Front(frames) \in Seq(Logging)
  BY <1>1, <1>2, <1>5, EndIsRead
<1>6. CASE Invoke
  <2>. DEFINE program == tx[at].program
              w == LogLine(Logged, InvokeOf(program, 1))
  <2>1. /\ program \in Logging /\ frames = <<>> /\ at <= Len(tx) /\ frames' = <<program>>
        /\ Write(w) /\ UNCHANGED <<tx, at, err, limit, said>>
    BY <1>6 DEF Invoke, Between
  <2>. HIDE DEF program
  <2>2. IsRead(LogLine(Logged, InvokeOf(program, Len(frames) + 1)), Append(frames, program))
    BY <1>1, <1>2, <2>1, InvokeIsRead
  <2>3. Len(frames) + 1 = 1 /\ Append(frames, program) = frames' /\ frames' \in Seq(Logging)
    BY <2>1
  <2>. QED
    BY <1>1, <1>3, <2>1, <2>2, <2>3
<1>7. ASSUME NEW program \in Logging, Cpi(program) PROVE Goal
  <2>. DEFINE w == LogLine(Logged, InvokeOf(program, Len(frames) + 1))
  <2>1. /\ Running /\ frames' = Append(frames, program) /\ Write(w) /\ said' \in Nat
        /\ UNCHANGED <<tx, at, err, limit>>
    BY <1>1, <1>7 DEF Cpi, Speak
  <2>2. IsRead(w, frames')
    BY <1>1, <1>2, <2>1, InvokeIsRead
  <2>. HIDE DEF w
  <2>. QED
    BY <1>1, <1>3, <1>4, <2>1, <2>2
<1>8. CASE Say
  <2>1. Running /\ said' \in Nat /\ UNCHANGED <<tx, at, frames, err, limit>>
    BY <1>1, <1>8 DEF Say, Speak
  <2>2. CASE Write(LogLine(Logged, Line("log")))
    <3>. DEFINE w == LogLine(Logged, Line("log"))
    <3>1. IsRead(w, frames')
      BY <1>1, <1>2, <2>1, LinesAreEntries, SaidIsRead
    <3>. HIDE DEF w
    <3>. QED
      BY <1>1, <1>3, <1>4, <2>1, <2>2, <3>1 DEF w
  <2>3. ASSUME NEW bytes \in Bytes, Write(LogLine(Logged, DataOf(bytes))) PROVE Goal
    <3>. DEFINE line == DataOf(bytes)
                w == LogLine(Logged, line)
    <3>1. line \in LogEntry /\ line.kind = "data" /\ line.program = Last(frames) /\ frames # <<>>
      <4>1. frames # <<>> /\ Last(frames) \in Logging
        BY <1>1, <1>4, <2>1 DEF Last
      <4>. QED
        BY <1>1, <4>1 DEF DataOf, LogEntry
    <3>2. Write(w)
      BY <2>3
    <3>. HIDE DEF line
    <3>3. StackAfter(frames, line) = frames
      BY <3>1 DEF StackAfter
    <3>4. IsRead(w, frames')
      <4>1. line.kind # "truncated"
        BY <3>1
      <4>2. IsRead(w, StackAfter(frames, line))
        BY <1>1, <1>2, <3>1, <4>1, LineIsRead
      <4>. QED
        BY <2>1, <3>3, <4>2
    <3>. HIDE DEF w
    <3>. QED
      BY <1>1, <1>3, <1>4, <2>1, <3>2, <3>4
  <2>. QED
    BY <1>8, <2>2, <2>3 DEF Say
<1>9. CASE Return
  <2>1. /\ Running /\ frames' = Front(frames) /\ Write(End("success"))
        /\ at' = IF Len(frames) = 1 THEN at + 1 ELSE at
        /\ UNCHANGED <<tx, err, limit, said>>
    BY <1>9 DEF Return
  <2>2. at <= Len(tx) /\ frames # <<>>
    BY <1>4, <2>1
  <2>3. IsRead(End("success"), frames') /\ frames' \in Seq(Logging)
    BY <1>5, <2>1, <2>2
  <2>4. at' \in 1 .. Len(tx) + 1 /\ (frames' # <<>> => at' <= Len(tx))
    BY <1>1, <2>1, <2>2 DEF Front
  <2>. QED
    BY <1>1, <1>3, <2>1, <2>3, <2>4
<1>10. CASE FailVerification
  <2>. DEFINE w == LogLine(End("success"), Line("verify"))
  <2>1. /\ Running /\ frames' = Front(frames) /\ Write(w) /\ err' = at
        /\ UNCHANGED <<tx, at, limit, said>>
    BY <1>10 DEF FailVerification
  <2>2. at <= Len(tx) /\ frames # <<>>
    BY <1>4, <2>1
  <2>3. IsRead(End("success"), frames') /\ frames' \in Seq(Logging)
    BY <1>5, <2>1, <2>2
  <2>4. IsRead(w, frames')
    BY <1>1, <2>3, LinesAreEntries, SaidIsRead
  <2>5. err' \in -1 .. Len(tx)
    BY <1>1, <2>1, <2>2
  <2>. HIDE DEF w
  <2>. QED
    BY <1>1, <1>3, <2>1, <2>2, <2>3, <2>4, <2>5
<1>11. CASE Fail
  <2>1. /\ Running /\ frames' = Front(frames) /\ Write(End("failed")) /\ err' = at
        /\ UNCHANGED <<tx, at, limit, said>>
    BY <1>11 DEF Fail
  <2>2. at <= Len(tx) /\ frames # <<>>
    BY <1>4, <2>1
  <2>3. IsRead(End("failed"), frames') /\ frames' \in Seq(Logging)
    BY <1>5, <2>1, <2>2
  <2>4. err' \in -1 .. Len(tx)
    BY <1>1, <2>1, <2>2
  <2>. QED
    BY <1>1, <1>3, <2>1, <2>2, <2>3, <2>4
<1>12. CASE Unwind
  <2>1. /\ frames # <<>> /\ frames' = Front(frames) /\ Write(End("failed"))
        /\ UNCHANGED <<tx, at, err, limit, said>>
    BY <1>12 DEF Unwind
  <2>2. IsRead(End("failed"), frames') /\ frames' \in Seq(Logging)
    BY <1>5, <2>1
  <2>3. at <= Len(tx)
    BY <1>2, <2>1 DEF RunsInstruction
  <2>. QED
    BY <1>1, <1>3, <2>1, <2>2, <2>3
<1>13. CASE RunPrecompile
  <2>1. /\ at <= Len(tx) /\ frames = <<>> /\ Write(Logged)
        /\ at' \in {at, at + 1} /\ err' \in {err, at}
        /\ UNCHANGED <<tx, frames, limit, said>>
    BY <1>13 DEF RunPrecompile, Between, Write, Logged
  <2>2. at' \in 1 .. Len(tx) + 1 /\ err' \in -1 .. Len(tx)
    BY <1>1, <2>1
  <2>. QED
    BY <1>1, <1>2, <1>3, <2>1, <2>2
<1>14. CASE RunNative
  <2>. DEFINE text == LogLine(Logged, Line("text"))
              line == EndOf("success", tx[at].program)
  <2>1. /\ at <= Len(tx) /\ frames = <<>> /\ tx[at].program \in Native
        /\ Write(Logged) \/ Write(text) \/ Write(LogLine(text, line))
        /\ at' \in {at, at + 1} /\ err' \in {err, at}
        /\ UNCHANGED <<tx, frames, limit, said>>
    BY <1>14 DEF RunNative, Between
  <2>2. at' \in 1 .. Len(tx) + 1 /\ err' \in -1 .. Len(tx)
    BY <1>1, <2>1
  <2>3. IsRead(text, frames')
    BY <1>1, <1>2, <2>1, LinesAreEntries, SaidIsRead
  <2>4. line \in LogEntry /\ line.kind = "success"
    BY <1>1, <2>1 DEF EndOf, LogEntry
  <2>. HIDE DEF text, line
  <2>5. IsRead(LogLine(text, line), frames')
    <3>1. StackAfter(frames', line) = frames'
      BY <2>1, <2>4 DEF StackAfter
    <3>2. line.kind # "truncated" /\ line.kind # "data"
      BY <2>4
    <3>3. IsRead(LogLine(text, line), StackAfter(frames', line))
      BY <1>1, <2>3, <2>4, <3>2, LineIsRead
    <3>. QED
      BY <3>1, <3>3
  <2>6. IsRead(Logged, frames')
    BY <1>2, <2>1
  <2>. QED
    BY <1>1, <1>3, <2>1, <2>2, <2>3, <2>5, <2>6
<1>15. CASE FailTransaction
  <2>1. /\ frames = <<>> /\ err' = -1 /\ Write(Logged) /\ UNCHANGED <<tx, at, frames, limit, said>>
    BY <1>15 DEF FailTransaction, Write, Logged
  <2>. QED
    BY <1>1, <1>2, <1>3, <2>1
<1>16. CASE UNCHANGED vars
  <2>1. Write(Logged) /\ UNCHANGED <<tx, at, frames, err, limit, said>>
    BY <1>16 DEF vars, Write, Logged
  <2>2. frames' # <<>> => at' <= Len(tx)
    BY <1>2, <2>1 DEF RunsInstruction
  <2>. QED
    BY <1>1, <1>2, <1>3, <2>1, <2>2
<1>. QED
  BY <1>6, <1>7, <1>8, <1>9, <1>10, <1>11, <1>12, <1>13, <1>14, <1>15, <1>16 DEF Next

-------------------------------------------------------------------------------
(* The type invariant of the runtime and its log.                          *)
THEOREM TypeCorrect == Spec => []TypeOK
<1>1. IInv => TypeOK
  BY DEF IInv
<1>. QED
  BY <1>1, InitIsRead, NextIsRead, PTL DEF Spec

(* What the code takes for the telemetry of a SAGE program is the          *)
(* telemetry the program logged, for any number of instructions, any       *)
(* depth of invocations, and any limit of the log.                         *)
THEOREM TelemetryOfTheLog == Spec => []TelemetryIsExact
<1>1. ASSUME IInv, NEW p \in Sage
      PROVE  extractCombatTelemetryFromLogs(log, p, Slot) = telemetryOf(p)[Len(log)]
  <2>1. log \in Seq(LogEntry) /\ DataIsOwn(log)
    BY <1>1 DEF IInv, IsRead, TypeOK, Logged
  <2>. QED
    BY <2>1, EventsAreTelemetry DEF extractCombatTelemetryFromLogs
<1>2. IInv => TelemetryIsExact
  BY <1>1 DEF TelemetryIsExact
<1>. QED
  BY <1>2, InitIsRead, NextIsRead, PTL DEF Spec
-------------------------------------------------------------------------------
(* The loop of parseProgramLogs: what it keeps, and what one turn does.    *)

Parse == [depth : Int, entries : Seq(Row), threw : BOOLEAN]

IsFailure(line) == line.kind \in {"failed", "verify"}

(* Only the last entry has changed.                                        *)
LastChanged(p, q) ==
  /\ q \in Parse /\ Len(q.entries) = Len(p.entries)
  /\ p.entries # <<>> => q.threw = p.threw
  /\ \A j \in 1 .. Len(p.entries) : j # Len(p.entries) => q.entries[j] = p.entries[j]

LEMMA LastOfParse ==
  ASSUME NEW p \in Parse, p.entries # <<>>
  PROVE  Len(p.entries) \in 1 .. Len(p.entries) /\ p.entries[Len(p.entries)] \in Row
BY DEF Parse

LEMMA DownDoes ==
  ASSUME NEW p \in Parse, NEW n \in Int
  PROVE  /\ Down(p, n) \in Parse /\ Down(p, n).depth = p.depth - n
         /\ Down(p, n).entries = p.entries /\ Down(p, n).threw = p.threw
BY DEF Parse, Down

LEMMA PushDoes ==
  ASSUME NEW p \in Parse, NEW e \in Row
  PROVE  /\ Push(p, e) \in Parse /\ Push(p, e).depth = p.depth
         /\ Push(p, e).entries = Append(p.entries, e) /\ Push(p, e).threw = p.threw
BY DEF Parse, Push

LEMMA ChangeLastDoes ==
  ASSUME NEW p \in Parse, NEW e, p.entries # <<>> => e \in Row
  PROVE  /\ LastChanged(p, ChangeLast(p, e)) /\ ChangeLast(p, e).depth = p.depth
         /\ p.entries # <<>> => ChangeLast(p, e).entries[Len(p.entries)] = e
<1>1. CASE p.entries = <<>>
  <2>1. ChangeLast(p, e) = [p EXCEPT !.threw = TRUE]
    BY <1>1 DEF ChangeLast
  <2>. QED
    BY <1>1, <2>1 DEF Parse, LastChanged
<1>2. CASE p.entries # <<>>
  <2>. DEFINE n == Len(p.entries)
              es == [p.entries EXCEPT ![n] = e]
  <2>1. ChangeLast(p, e) = [p EXCEPT !.entries = es]
    BY <1>2 DEF ChangeLast
  <2>2. n \in 1 .. n /\ es \in Seq(Row) /\ Len(es) = n /\ es[n] = e
        /\ \A j \in 1 .. n : j # n => es[j] = p.entries[j]
    BY <1>2 DEF Parse
  <2>. HIDE DEF es
  <2>3. ChangeLast(p, e) \in Parse /\ ChangeLast(p, e).entries = es
        /\ ChangeLast(p, e).depth = p.depth /\ ChangeLast(p, e).threw = p.threw
    BY <2>1, <2>2 DEF Parse
  <2>. QED
    BY <1>2, <2>2, <2>3 DEF LastChanged
<1>. QED
  BY <1>1, <1>2

(* The row a line is added to.                                             *)
RowOf(p) == p.entries[Len(p.entries)]

SameProgram(a, b) == b \in Row /\ b.invokedProgram = a.invokedProgram

LEMMA RowWithLine ==
  ASSUME NEW a \in Row, NEW line \in LogEntry \cup {NoData}, NEW d \in Int
  PROVE  LET b == [a EXCEPT !.logs = @ \cup {[line |-> line, indent |-> d]}]
         IN  /\ SameProgram(a, b) /\ b.logs = a.logs \cup {[line |-> line, indent |-> d]}
             /\ b.computeUnits = a.computeUnits /\ b.failed = a.failed
BY DEF Row, SameProgram

LEMMA RowThatFailed ==
  ASSUME NEW a \in Row
  PROVE  LET b == [a EXCEPT !.failed = TRUE]
         IN  /\ SameProgram(a, b) /\ b.logs = a.logs
             /\ b.computeUnits = a.computeUnits /\ b.failed = TRUE
BY DEF Row, SameProgram

LEMMA RowWithUnits ==
  ASSUME NEW a \in Row, NEW units \in Nat
  PROVE  LET b == [a EXCEPT !.computeUnits = @ + units]
         IN  /\ SameProgram(a, b) /\ b.logs = a.logs
             /\ b.computeUnits = a.computeUnits + units /\ b.failed = a.failed
BY DEF Row, SameProgram

LEMMA RowCut ==
  ASSUME NEW a \in Row
  PROVE  [a EXCEPT !.truncated = TRUE] \in Row
BY DEF Row

(* What the helpers of the loop do to a state with an entry.               *)
LEMMA AddLineDoes ==
  ASSUME NEW p \in Parse, p.entries # <<>>, NEW line \in LogEntry \cup {NoData}, NEW d \in Int
  PROVE  LET q == AddLine(p, line, d)
         IN  /\ LastChanged(p, q) /\ q.depth = p.depth
             /\ SameProgram(RowOf(p), RowOf(q))
             /\ RowOf(q).logs = RowOf(p).logs \cup {[line |-> line, indent |-> d]}
             /\ RowOf(q).computeUnits = RowOf(p).computeUnits /\ RowOf(q).failed = RowOf(p).failed
<1>. DEFINE a == RowOf(p)
            e == [a EXCEPT !.logs = @ \cup {[line |-> line, indent |-> d]}]
            q == AddLine(p, line, d)
<1>1. a \in Row
  BY LastOfParse DEF RowOf
<1>2. /\ SameProgram(a, e) /\ e.logs = a.logs \cup {[line |-> line, indent |-> d]}
      /\ e.computeUnits = a.computeUnits /\ e.failed = a.failed
  BY <1>1, RowWithLine
<1>3. q = ChangeLast(p, e)
  BY DEF AddLine, lastEntry, RowOf
<1>4. e \in Row
  BY <1>2 DEF SameProgram
<1>. HIDE DEF e, a
<1>5. LastChanged(p, q) /\ q.depth = p.depth /\ q.entries[Len(p.entries)] = e
  BY <1>3, <1>4, ChangeLastDoes
<1>. HIDE DEF q
<1>6. RowOf(q) = e
  BY <1>5 DEF RowOf, LastChanged
<1>. QED
  BY <1>2, <1>5, <1>6 DEF a, q

LEMMA SetFailedDoes ==
  ASSUME NEW p \in Parse, p.entries # <<>>
  PROVE  LET q == SetFailed(p)
         IN  /\ LastChanged(p, q) /\ q.depth = p.depth
             /\ SameProgram(RowOf(p), RowOf(q)) /\ RowOf(q).logs = RowOf(p).logs
             /\ RowOf(q).computeUnits = RowOf(p).computeUnits /\ RowOf(q).failed = TRUE
<1>. DEFINE a == RowOf(p)
            e == [a EXCEPT !.failed = TRUE]
            q == SetFailed(p)
<1>1. a \in Row
  BY LastOfParse DEF RowOf
<1>2. /\ SameProgram(a, e) /\ e.logs = a.logs
      /\ e.computeUnits = a.computeUnits /\ e.failed = TRUE
  BY <1>1, RowThatFailed
<1>3. q = ChangeLast(p, e)
  BY DEF SetFailed, lastEntry, RowOf
<1>4. e \in Row
  BY <1>2 DEF SameProgram
<1>. HIDE DEF e, a
<1>5. LastChanged(p, q) /\ q.depth = p.depth /\ q.entries[Len(p.entries)] = e
  BY <1>3, <1>4, ChangeLastDoes
<1>. HIDE DEF q
<1>6. RowOf(q) = e
  BY <1>5 DEF RowOf, LastChanged
<1>. QED
  BY <1>2, <1>5, <1>6 DEF a, q

LEMMA AddUnitsDoes ==
  ASSUME NEW p \in Parse, p.entries # <<>>, NEW units \in Nat
  PROVE  LET q == AddUnits(p, units)
         IN  /\ LastChanged(p, q) /\ q.depth = p.depth
             /\ SameProgram(RowOf(p), RowOf(q)) /\ RowOf(q).logs = RowOf(p).logs
             /\ p.depth = 1 => RowOf(q).computeUnits = RowOf(p).computeUnits + units
             /\ p.depth # 1 => RowOf(q).computeUnits = RowOf(p).computeUnits
             /\ RowOf(q).failed = RowOf(p).failed
<1>. DEFINE a == RowOf(p)
            e == [a EXCEPT !.computeUnits = @ + units]
            q == AddUnits(p, units)
<1>1. a \in Row
  BY LastOfParse DEF RowOf
<1>2. /\ SameProgram(a, e) /\ e.logs = a.logs
      /\ e.computeUnits = a.computeUnits + units /\ e.failed = a.failed
  BY <1>1, RowWithUnits
<1>3. CASE p.depth # 1
  <2>1. q = p
    BY <1>3 DEF AddUnits
  <2>. QED
    BY <1>1, <1>3, <2>1 DEF LastChanged, SameProgram
<1>4. CASE p.depth = 1
  <2>1. q = ChangeLast(p, e)
    BY <1>4 DEF AddUnits, lastEntry, RowOf
  <2>2. e \in Row
    BY <1>2 DEF SameProgram
  <2>. HIDE DEF e, a
  <2>3. LastChanged(p, q) /\ q.depth = p.depth /\ q.entries[Len(p.entries)] = e
    BY <2>1, <2>2, ChangeLastDoes
  <2>. HIDE DEF q
  <2>4. RowOf(q) = e
    BY <2>3 DEF RowOf, LastChanged
  <2>. QED
    BY <1>2, <1>4, <2>3, <2>4 DEF a, q
<1>. QED
  BY <1>3, <1>4
-------------------------------------------------------------------------------
(* What a line adds to the last entry, if it is not the one that begins or *)
(* cuts it, and the indent it gets.                                        *)
IndentOf(depth, line) == IF line.kind = "verify" THEN depth + 1 ELSE depth

IsOuter(p, line) == line.kind = "consumed" /\ p.depth = 1

Extended(p, q, line) ==
  /\ LastChanged(p, q)
  /\ SameProgram(RowOf(p), RowOf(q))
  /\ RowOf(q).logs = RowOf(p).logs \cup {[line |-> line, indent |-> IndentOf(p.depth, line)]}
  /\ IsOuter(p, line) => RowOf(q).computeUnits = RowOf(p).computeUnits + 1
  /\ ~IsOuter(p, line) => RowOf(q).computeUnits = RowOf(p).computeUnits
  /\ IsFailure(line) => RowOf(q).failed = TRUE
  /\ ~IsFailure(line) => RowOf(q).failed = RowOf(p).failed

DepthAfter(depth, line) ==
  IF line.kind = "invoke" THEN depth + 1
  ELSE IF line.kind \in {"success", "failed"} THEN depth - 1 ELSE depth

LEMMA ChangedTwice ==
  ASSUME NEW p \in Parse, NEW q, NEW r, LastChanged(p, q), LastChanged(q, r)
  PROVE  LastChanged(p, r) /\ q \in Parse /\ r \in Parse /\ (p.entries # <<>> => q.entries # <<>>)
BY DEF LastChanged, Parse

LEMMA DownChanges ==
  ASSUME NEW p \in Parse, NEW q, LastChanged(p, q), NEW n \in Int
  PROVE  /\ LastChanged(p, Down(q, n)) /\ RowOf(Down(q, n)) = RowOf(q)
         /\ Down(q, n).depth = q.depth - n
<1>1. q \in Parse
  BY DEF LastChanged
<1>. QED
  BY <1>1, DownDoes DEF LastChanged, RowOf

LEMMA SameAgain ==
  ASSUME NEW a, NEW b, NEW c, SameProgram(a, b), SameProgram(b, c)
  PROVE  SameProgram(a, c)
BY DEF SameProgram

LEMMA LineExtends ==
  ASSUME NEW p \in Parse, p.entries # <<>>, NEW line \in LogEntry, line.kind # "truncated",
         p.depth # 0 \/ line.kind \notin {"invoke", "consumed", "data", "text"}
  PROVE  Extended(p, ReadLine(p, line), line) /\ ReadLine(p, line).depth = DepthAfter(p.depth, line)
<1>1. p.depth \in Int /\ line \in LogEntry \cup {NoData} /\ 1 \in Int /\ -1 \in Int
  BY DEF Parse
<1>. DEFINE q == ReadLine(p, line)
            r == AddLine(p, line, p.depth)
<1>2. /\ LastChanged(p, r) /\ r.depth = p.depth
      /\ SameProgram(RowOf(p), RowOf(r))
      /\ RowOf(r).logs = RowOf(p).logs \cup {[line |-> line, indent |-> p.depth]}
      /\ RowOf(r).computeUnits = RowOf(p).computeUnits /\ RowOf(r).failed = RowOf(p).failed
  BY <1>1, AddLineDoes
<1>3. ASSUME NEW n \in Int, q = Down(r, n) \/ (q = r /\ n = 0), ~IsFailure(line), line.kind # "consumed",
             p.depth - n = DepthAfter(p.depth, line)
      PROVE  Extended(p, q, line) /\ q.depth = DepthAfter(p.depth, line)
  <2>1. IndentOf(p.depth, line) = p.depth /\ ~IsOuter(p, line)
    BY <1>3 DEF IndentOf, IsFailure, IsOuter
  <2>. HIDE DEF q, r
  <2>2. LastChanged(p, q) /\ RowOf(q) = RowOf(r) /\ q.depth = r.depth - n
    <3>1. CASE q = Down(r, n)
      BY <1>2, <3>1, DownChanges
    <3>2. CASE q = r /\ n = 0
      BY <1>1, <1>2, <3>2
    <3>. QED
      BY <1>3, <3>1, <3>2
  <2>3. q.depth = DepthAfter(p.depth, line)
    BY <1>2, <1>3, <2>2
  <2>4. Extended(p, q, line)
    BY <1>2, <1>3, <2>1, <2>2 DEF Extended
  <2>. QED
    BY <2>3, <2>4
<1>4. CASE line.kind \in {"log", "data", "text"}
  <2>1. q = r /\ 0 \in Int
    BY <1>1, <1>4 DEF ReadLine, OtherLine
  <2>2. p.depth - 0 = DepthAfter(p.depth, line) /\ ~IsFailure(line) /\ line.kind # "consumed"
    BY <1>1, <1>4 DEF DepthAfter, IsFailure
  <2>. HIDE DEF q, r
  <2>. QED
    BY <1>3, <2>1, <2>2 DEF q
<1>5. CASE line.kind = "success"
  <2>1. q = Down(r, 1)
    BY <1>5 DEF ReadLine
  <2>2. p.depth - 1 = DepthAfter(p.depth, line) /\ ~IsFailure(line) /\ line.kind # "consumed"
    BY <1>1, <1>5 DEF DepthAfter, IsFailure
  <2>. HIDE DEF q, r
  <2>. QED
    BY <1>1, <1>3, <2>1, <2>2 DEF q
<1>6. CASE line.kind = "invoke"
  <2>1. q = Down(r, -1)
    BY <1>6 DEF ReadLine, InvokeLine
  <2>2. p.depth - (-1) = DepthAfter(p.depth, line) /\ ~IsFailure(line) /\ line.kind # "consumed"
    BY <1>1, <1>6 DEF DepthAfter, IsFailure
  <2>3. -1 \in Int
    OBVIOUS
  <2>. HIDE DEF q, r
  <2>. QED
    BY <1>3, <2>1, <2>2, <2>3 DEF q
<1>7. CASE IsFailure(line)
  <2>. DEFINE s == IF line.kind = "verify" THEN Down(p, -1) ELSE p
              f == SetFailed(s)
              d == s.depth
              t == AddLine(f, line, d)
  <2>1. q = Down(t, 1)
    BY <1>7 DEF ReadLine, FailedLine, IsFailure
  <2>2. s \in Parse /\ s.entries = p.entries /\ s.threw = p.threw /\ s.depth = IndentOf(p.depth, line)
    <3>1. CASE line.kind = "verify"
      <4>1. /\ Down(p, -1) \in Parse /\ Down(p, -1).depth = p.depth - (-1)
            /\ Down(p, -1).entries = p.entries /\ Down(p, -1).threw = p.threw
        BY <1>1, DownDoes
      <4>2. s = Down(p, -1) /\ IndentOf(p.depth, line) = p.depth - (-1)
        BY <1>1, <3>1 DEF IndentOf
      <4>. QED
        BY <4>1, <4>2
    <3>2. CASE line.kind # "verify"
      BY <3>2 DEF IndentOf
    <3>. QED
      BY <3>1, <3>2
  <2>. HIDE DEF s, q
  <2>3. LastChanged(p, s) /\ RowOf(s) = RowOf(p) /\ s.entries # <<>>
    BY <2>2 DEF LastChanged, RowOf
  <2>4. /\ LastChanged(s, f) /\ f.depth = s.depth
        /\ SameProgram(RowOf(s), RowOf(f)) /\ RowOf(f).logs = RowOf(s).logs
        /\ RowOf(f).computeUnits = RowOf(s).computeUnits /\ RowOf(f).failed = TRUE
    BY <2>2, <2>3, SetFailedDoes
  <2>. HIDE DEF f
  <2>5. LastChanged(p, f) /\ f \in Parse /\ f.entries # <<>>
    <3>1. LastChanged(p, f) /\ f \in Parse
      BY <2>2, <2>3, <2>4, ChangedTwice
    <3>. QED
      BY <3>1 DEF LastChanged, Parse
  <2>6. d \in Int /\ d = IndentOf(p.depth, line)
    BY <2>2 DEF Parse
  <2>. HIDE DEF d
  <2>7. /\ LastChanged(f, t) /\ t.depth = f.depth
        /\ SameProgram(RowOf(f), RowOf(t))
        /\ RowOf(t).logs = RowOf(f).logs \cup {[line |-> line, indent |-> d]}
        /\ RowOf(t).computeUnits = RowOf(f).computeUnits /\ RowOf(t).failed = RowOf(f).failed
    BY <1>1, <2>5, <2>6, AddLineDoes
  <2>. HIDE DEF t
  <2>8. LastChanged(p, t)
    BY <2>5, <2>7, ChangedTwice
  <2>9. LastChanged(p, q) /\ RowOf(q) = RowOf(t) /\ q.depth = t.depth - 1
    BY <1>1, <2>1, <2>8, DownChanges
  <2>10. SameProgram(RowOf(p), RowOf(q))
    BY <2>3, <2>4, <2>7, <2>9, SameAgain
  <2>11. RowOf(q).logs = RowOf(p).logs \cup {[line |-> line, indent |-> IndentOf(p.depth, line)]}
    BY <2>3, <2>4, <2>6, <2>7, <2>9
  <2>12. RowOf(q).computeUnits = RowOf(p).computeUnits /\ ~IsOuter(p, line)
    BY <1>7, <2>3, <2>4, <2>7, <2>9 DEF IsOuter, IsFailure
  <2>13. RowOf(q).failed = TRUE
    BY <2>4, <2>7, <2>9
  <2>14. Extended(p, q, line)
    BY <1>7, <2>9, <2>10, <2>11, <2>12, <2>13 DEF Extended
  <2>15. q.depth = DepthAfter(p.depth, line)
    <3>1. q.depth = IndentOf(p.depth, line) - 1
      BY <2>2, <2>4, <2>7, <2>9
    <3>. QED
      BY <1>1, <1>7, <3>1 DEF DepthAfter, IsFailure, IndentOf
  <2>. QED
    BY <2>14, <2>15 DEF q
<1>8. CASE line.kind = "consumed"
  <2>. DEFINE u == AddUnits(p, line.units)
              t == AddLine(u, line, p.depth)
  <2>1. q = t
    BY <1>1, <1>8 DEF ReadLine, OtherLine
  <2>2. line.units = 1 /\ line.units \in Nat
    BY <1>8 DEF LogEntry
  <2>3. /\ LastChanged(p, u) /\ u.depth = p.depth
        /\ SameProgram(RowOf(p), RowOf(u)) /\ RowOf(u).logs = RowOf(p).logs
        /\ p.depth = 1 => RowOf(u).computeUnits = RowOf(p).computeUnits + line.units
        /\ p.depth # 1 => RowOf(u).computeUnits = RowOf(p).computeUnits
        /\ RowOf(u).failed = RowOf(p).failed
    BY <2>2, AddUnitsDoes
  <2>. HIDE DEF u, q
  <2>4. u \in Parse /\ u.depth \in Int /\ u.entries # <<>>
    BY <1>1, <2>3 DEF LastChanged, Parse
  <2>5. /\ LastChanged(u, t) /\ t.depth = u.depth
        /\ SameProgram(RowOf(u), RowOf(t))
        /\ RowOf(t).logs = RowOf(u).logs \cup {[line |-> line, indent |-> p.depth]}
        /\ RowOf(t).computeUnits = RowOf(u).computeUnits /\ RowOf(t).failed = RowOf(u).failed
    BY <1>1, <2>4, AddLineDoes
  <2>. HIDE DEF t
  <2>6. LastChanged(p, t)
    BY <2>3, <2>4, <2>5, ChangedTwice
  <2>7. SameProgram(RowOf(p), RowOf(q))
    BY <2>1, <2>3, <2>5, SameAgain
  <2>8. IndentOf(p.depth, line) = p.depth /\ ~IsFailure(line) /\ DepthAfter(p.depth, line) = p.depth
    BY <1>8 DEF IndentOf, IsFailure, DepthAfter
  <2>9. RowOf(q).logs = RowOf(p).logs \cup {[line |-> line, indent |-> IndentOf(p.depth, line)]}
    BY <2>1, <2>3, <2>5, <2>8
  <2>10. IsOuter(p, line) => RowOf(q).computeUnits = RowOf(p).computeUnits + 1
    BY <2>1, <2>2, <2>3, <2>5 DEF IsOuter
  <2>11. ~IsOuter(p, line) => RowOf(q).computeUnits = RowOf(p).computeUnits
    BY <1>8, <2>1, <2>3, <2>5 DEF IsOuter
  <2>12. RowOf(q).failed = RowOf(p).failed
    BY <2>1, <2>3, <2>5
  <2>13. Extended(p, q, line)
    BY <2>1, <2>6, <2>7, <2>8, <2>9, <2>10, <2>11, <2>12 DEF Extended
  <2>14. q.depth = DepthAfter(p.depth, line)
    BY <2>1, <2>3, <2>5, <2>8
  <2>. QED
    BY <2>13, <2>14 DEF q
<1>9. line.kind \in {"log", "invoke", "success", "failed", "verify", "consumed", "data", "text"}
  BY DEF LogEntry
<1>. QED
  BY <1>4, <1>5, <1>6, <1>7, <1>8, <1>9 DEF IsFailure
-------------------------------------------------------------------------------
(* The states of the loop over the lines are those its turns define.       *)
LEMMA ReadsAreDefined ==
  ASSUME NEW logs, Len(logs) \in Nat
  PROVE  linesRead(logs) =
           [n \in 0 .. Len(logs) |-> IF n = 0 THEN Start ELSE ReadLine(linesRead(logs)[n-1], logs[n])]
<1>. DEFINE Is(f, N) == f = [n \in 0 .. N |-> IF n = 0 THEN Start ELSE ReadLine(f[n-1], logs[n])]
            S == {N \in Nat : \E f : Is(f, N)}
<1>1. 0 \in S
  <2>1. Is([n \in 0 .. 0 |-> Start], 0)
    OBVIOUS
  <2>. QED
    BY <2>1
<1>2. ASSUME NEW N \in Nat, N \in S PROVE N + 1 \in S
  <2>1. PICK f : Is(f, N)
    BY <1>2
  <2>. DEFINE g == [n \in 0 .. N + 1 |-> IF n = N + 1 THEN ReadLine(f[N], logs[N + 1]) ELSE f[n]]
  <2>2. ASSUME NEW n \in 0 .. N + 1
        PROVE  g[n] = IF n = 0 THEN Start ELSE ReadLine(g[n-1], logs[n])
    <3>1. CASE n = N + 1
      <4>1. g[n - 1] = f[N]
        BY <3>1
      <4>. QED
        BY <3>1, <4>1
    <3>2. CASE n \in 1 .. N
      <4>1. g[n] = f[n] /\ g[n - 1] = f[n - 1]
        BY <3>2
      <4>. QED
        BY <3>2, <4>1, <2>1
    <3>3. CASE n = 0
      BY <3>3, <2>1
    <3>. QED
      BY <3>1, <3>2, <3>3
  <2>3. Is(g, N + 1)
    BY <2>2
  <2>. HIDE DEF g, Is
  <2>4. \E h : Is(h, N + 1)
    BY <2>3
  <2>. QED
    BY <2>4
<1>. HIDE DEF S
<1>3. Len(logs) \in S
  BY <1>1, <1>2, Induction
<1>4. PICK f : Is(f, Len(logs))
  BY <1>3 DEF S
<1>. QED
  BY <1>4, Zenon DEF linesRead

(* The state after the whole of a log.                                     *)
ParseOf(logs) == linesRead(logs)[Len(logs)]

LEMMA ParseOfNothing == ParseOf(<<>>) = Start
<1>1. Len(<<>>) = 0 /\ 0 \in 0 .. 0 /\ Len(<<>>) \in Nat
  OBVIOUS
<1>. QED
  BY <1>1, ReadsAreDefined DEF ParseOf

LEMMA ParseOfMore ==
  ASSUME NEW logs \in Seq(LogEntry), NEW line \in LogEntry
  PROVE  ParseOf(Append(logs, line)) = ReadLine(ParseOf(logs), line)
<1>. DEFINE more == Append(logs, line)
            f == linesRead(logs)
            g == linesRead(more)
            S == {n \in Nat : n <= Len(logs) => g[n] = f[n]}
<1>1. /\ Len(logs) \in Nat /\ Len(more) = Len(logs) + 1 /\ more[Len(logs) + 1] = line
      /\ \A n \in 1 .. Len(logs) : more[n] = logs[n]
  OBVIOUS
<1>2. f = [n \in 0 .. Len(logs) |-> IF n = 0 THEN Start ELSE ReadLine(f[n-1], logs[n])]
  BY <1>1, ReadsAreDefined
<1>3. g = [n \in 0 .. Len(more) |-> IF n = 0 THEN Start ELSE ReadLine(g[n-1], more[n])]
  <2>1. Len(more) \in Nat
    BY <1>1
  <2>. HIDE DEF more
  <2>. QED
    BY <2>1, ReadsAreDefined
<1>. HIDE DEF f, g, more
<1>4. g[0] = f[0]
  BY <1>1, <1>2, <1>3
<1>5. \A n \in 1 .. Len(logs) : f[n] = ReadLine(f[n-1], logs[n])
  BY <1>1, <1>2
<1>6. ASSUME NEW n \in 1 .. Len(logs) + 1
      PROVE  g[n] = ReadLine(g[n-1], more[n])
  <2>1. n \in 0 .. Len(more) /\ n # 0
    BY <1>1
  <2>. QED
    BY <1>3, <2>1
<1>7. 0 \in S
  BY <1>4
<1>8. ASSUME NEW n \in Nat, n \in S PROVE n + 1 \in S
  <2>1. CASE n + 1 <= Len(logs)
    <3>1. /\ n + 1 \in 1 .. Len(logs) /\ n + 1 \in 1 .. Len(logs) + 1 /\ (n + 1) - 1 = n
      BY <1>1, <2>1
    <3>2. g[n + 1] = ReadLine(g[n], logs[n + 1])
      BY <1>1, <1>6, <3>1
    <3>3. f[n + 1] = ReadLine(f[n], logs[n + 1])
      BY <1>5, <3>1
    <3>4. g[n] = f[n]
      BY <1>1, <1>8, <2>1
    <3>. QED
      BY <3>2, <3>3, <3>4
  <2>2. CASE ~ (n + 1 <= Len(logs))
    BY <2>2
  <2>. QED
    BY <2>1, <2>2
<1>. HIDE DEF S
<1>9. Nat \subseteq S
  BY <1>7, <1>8, Induction
<1>10. g[Len(logs)] = f[Len(logs)]
  BY <1>1, <1>9 DEF S
<1>11. g[Len(logs) + 1] = ReadLine(g[Len(logs)], line)
  <2>1. Len(logs) + 1 \in 1 .. Len(logs) + 1 /\ (Len(logs) + 1) - 1 = Len(logs)
    BY <1>1
  <2>. QED
    BY <1>1, <1>6, <2>1
<1>. QED
  BY <1>1, <1>10, <1>11 DEF f, g, more, ParseOf

(* A line that begins an entry.                                            *)
LEMMA EntryBegins ==
  ASSUME NEW p \in Parse, p.depth = 0, NEW line \in LogEntry,
         line.kind \in {"invoke", "consumed", "data", "text"}
  PROVE  LET q == ReadLine(p, line)
             k == Len(p.entries) + 1
         IN  /\ q \in Parse /\ q.threw = p.threw /\ q.depth = 1
             /\ Len(q.entries) = k
             /\ \A j \in 1 .. Len(p.entries) : q.entries[j] = p.entries[j]
             /\ line.kind = "invoke" => q.entries[k] = Entry(line.program)
             /\ line.kind = "text" =>
                  /\ SameProgram(Entry(NoData), q.entries[k])
                  /\ q.entries[k].logs = {[line |-> line, indent |-> 1]}
                  /\ q.entries[k].computeUnits = 0 /\ q.entries[k].failed = FALSE
<1>. DEFINE k == Len(p.entries) + 1
            q == ReadLine(p, line)
<1>1. 1 \in Int /\ -1 \in Int /\ line \in LogEntry \cup {NoData}
  OBVIOUS
<1>2. ASSUME NEW program \in Logging \cup {NoData}
      PROVE  /\ Entry(program) \in Row /\ Push(p, Entry(program)) \in Parse
             /\ Push(p, Entry(program)).entries = Append(p.entries, Entry(program))
             /\ Down(Push(p, Entry(program)), -1) \in Parse
             /\ Down(Push(p, Entry(program)), -1).entries = Append(p.entries, Entry(program))
             /\ Down(Push(p, Entry(program)), -1).depth = 1
             /\ Down(Push(p, Entry(program)), -1).threw = p.threw
  <2>1. Entry(program) \in Row
    BY DEF Entry, Row
  <2>. DEFINE r == Push(p, Entry(program))
  <2>2. r \in Parse /\ r.entries = Append(p.entries, Entry(program)) /\ r.depth = 0 /\ r.threw = p.threw
    BY <2>1, PushDoes
  <2>. HIDE DEF r
  <2>3. Down(r, -1) \in Parse /\ Down(r, -1).depth = 1
        /\ Down(r, -1).entries = r.entries /\ Down(r, -1).threw = r.threw
    <3>1. /\ Down(r, -1) \in Parse /\ Down(r, -1).depth = r.depth - (-1)
          /\ Down(r, -1).entries = r.entries /\ Down(r, -1).threw = r.threw
      BY <1>1, <2>2, DownDoes
    <3>. QED
      BY <2>2, <3>1
  <2>. QED
    BY <2>1, <2>2, <2>3 DEF r
<1>3. p.entries \in Seq(Row)
  BY DEF Parse
<1>4. CASE line.kind = "invoke"
  <2>1. line.program \in Logging \cup {NoData}
    BY <1>4, LinesSay
  <2>2. q = Down(Push(p, Entry(line.program)), -1)
    BY <1>4 DEF ReadLine, InvokeLine
  <2>3. /\ q \in Parse /\ q.threw = p.threw /\ q.depth = 1 /\ Entry(line.program) \in Row
        /\ q.entries = Append(p.entries, Entry(line.program))
    BY <1>2, <2>1, <2>2
  <2>. HIDE DEF q
  <2>. QED
    BY <1>3, <1>4, <2>3 DEF q
<1>5. CASE line.kind \in {"consumed", "data", "text"}
  <2>. DEFINE s == Down(Push(p, Entry(NoData)), -1)
              u == IF line.kind = "consumed" THEN AddUnits(s, line.units) ELSE s
              e == Entry(NoData)
  <2>1. q = AddLine(u, line, s.depth)
    BY <1>5 DEF ReadLine, OtherLine
  <2>2. e \in Row /\ s \in Parse /\ s.entries = Append(p.entries, e) /\ s.depth = 1 /\ s.threw = p.threw
    BY <1>2
  <2>. HIDE DEF s, e, q
  <2>3. s.entries # <<>> /\ Len(s.entries) = k /\ s.entries[k] = e
        /\ \A j \in 1 .. Len(p.entries) : s.entries[j] = p.entries[j]
    <3>1. /\ Append(p.entries, e) \in Seq(Row) /\ Len(Append(p.entries, e)) = k
          /\ Append(p.entries, e)[k] = e /\ Len(p.entries) \in Nat
          /\ \A j \in 1 .. Len(p.entries) : Append(p.entries, e)[j] = p.entries[j]
      BY <1>3, <2>2
    <3>2. Append(p.entries, e) # <<>>
      BY <3>1
    <3>. QED
      BY <2>2, <3>1, <3>2
  <2>4. LastChanged(s, u) /\ u.depth = 1
    <3>1. CASE line.kind = "consumed"
      <4>1. line.units \in Nat
        BY <3>1 DEF LogEntry
      <4>. QED
        BY <2>2, <2>3, <3>1, <4>1, AddUnitsDoes
    <3>2. CASE line.kind # "consumed"
      BY <2>2, <3>2 DEF LastChanged
    <3>. QED
      BY <3>1, <3>2
  <2>5. u \in Parse /\ u.entries # <<>> /\ Len(u.entries) = k
    BY <2>2, <2>3, <2>4 DEF LastChanged, Parse
  <2>6. line.kind = "text" => u = s
    OBVIOUS
  <2>. HIDE DEF u
  <2>7. /\ LastChanged(u, q) /\ q.depth = u.depth
        /\ SameProgram(RowOf(u), RowOf(q))
        /\ RowOf(q).logs = RowOf(u).logs \cup {[line |-> line, indent |-> 1]}
        /\ RowOf(q).computeUnits = RowOf(u).computeUnits /\ RowOf(q).failed = RowOf(u).failed
    BY <1>1, <2>1, <2>2, <2>5, AddLineDoes
  <2>8. LastChanged(s, q)
    BY <2>2, <2>4, <2>7, ChangedTwice
  <2>9. q \in Parse /\ q.threw = p.threw /\ q.depth = 1 /\ Len(q.entries) = k
    BY <2>2, <2>3, <2>4, <2>7, <2>8 DEF LastChanged
  <2>10. \A j \in 1 .. Len(p.entries) : q.entries[j] = p.entries[j]
    BY <1>3, <2>3, <2>8 DEF LastChanged
  <2>11. line.kind = "text" =>
           /\ SameProgram(e, q.entries[k])
           /\ q.entries[k].logs = {[line |-> line, indent |-> 1]}
           /\ q.entries[k].computeUnits = 0 /\ q.entries[k].failed = FALSE
    <3>1. RowOf(q) = q.entries[k]
      BY <2>9 DEF RowOf
    <3>2. line.kind = "text" => RowOf(u) = e
      BY <2>3, <2>6 DEF RowOf
    <3>3. e.logs = {} /\ e.computeUnits = 0 /\ e.failed = FALSE
      BY DEF e, Entry
    <3>. QED
      BY <2>7, <3>1, <3>2, <3>3
  <2>. QED
    BY <1>5, <2>9, <2>10, <2>11 DEF q, e
<1>. QED
  BY <1>4, <1>5

(* Whatever the line, no turn throws once there is an entry.               *)
LEMMA LineIsSteady ==
  ASSUME NEW p \in Parse, p.entries # <<>>, NEW line \in LogEntry
  PROVE  LET q == ReadLine(p, line)
         IN  q \in Parse /\ q.entries # <<>> /\ q.threw = p.threw
<1>. DEFINE q == ReadLine(p, line)
<1>1. p.depth \in Int /\ p.entries \in Seq(Row)
  BY DEF Parse
<1>2. ASSUME NEW r, LastChanged(p, r) PROVE r \in Parse /\ r.entries # <<>> /\ r.threw = p.threw
  BY <1>1, <1>2 DEF LastChanged, Parse
<1>3. CASE line.kind = "truncated"
  <2>. DEFINE e == [lastEntry(p) EXCEPT !.truncated = TRUE]
  <2>1. e \in Row
    BY LastOfParse, RowCut DEF lastEntry
  <2>2. q = ChangeLast(p, e)
    BY <1>3 DEF ReadLine
  <2>. HIDE DEF e, q
  <2>3. LastChanged(p, q)
    BY <2>1, <2>2, ChangeLastDoes
  <2>. QED
    BY <1>2, <2>3 DEF q
<1>4. CASE p.depth = 0 /\ line.kind \in {"invoke", "consumed", "data", "text"}
  <2>1. q \in Parse /\ q.threw = p.threw /\ Len(q.entries) = Len(p.entries) + 1
    BY <1>4, EntryBegins
  <2>. HIDE DEF q
  <2>. QED
    BY <1>1, <2>1 DEF q, Parse
<1>5. CASE line.kind # "truncated" /\ ~ (p.depth = 0 /\ line.kind \in {"invoke", "consumed", "data", "text"})
  <2>1. LastChanged(p, q)
    BY <1>5, LineExtends DEF Extended
  <2>. HIDE DEF q
  <2>. QED
    BY <1>2, <2>1 DEF q
<1>. QED
  BY <1>3, <1>4, <1>5
-------------------------------------------------------------------------------
(* What is always true of a log, w.log, and its length: the loop over it   *)
(* has not thrown, and has an entry once there is a line.                  *)
Started(w) ==
  /\ w \in [log : Seq(LogEntry), written : Nat]
  /\ w.log = <<>> => w.written = 0
  /\ ParseOf(w.log) \in Parse /\ ParseOf(w.log).threw = FALSE
  /\ w.log # <<>> => ParseOf(w.log).entries # <<>>

(* Whatever the limit, the first line fits.                                *)
LEMMA LineIsStarted ==
  ASSUME limit \in Nat \ 0 .. 2, NEW w, Started(w), NEW line \in LogEntry, line.kind # "truncated",
         w.log = <<>> => line.kind \in {"invoke", "text"}
  PROVE  Started(LogLine(w, line)) /\ LogLine(w, line).log # <<>>
<1>1. w \in [log : Seq(LogEntry), written : Nat] /\ w.log \in Seq(LogEntry) /\ w.written \in Nat
  BY DEF Started
<1>2. Size(line) \in Nat /\ (line.kind \in {"invoke", "text"} => Size(line) <= 2)
  BY DEF Size
<1>3. Truncated \in LogEntry
  BY DEF Truncated, LogEntry
<1>4. ASSUME NEW l \in LogEntry, w.log = <<>> => l.kind \in {"invoke", "text"}
      PROVE  /\ ParseOf(Append(w.log, l)) \in Parse /\ ParseOf(Append(w.log, l)).threw = FALSE
             /\ ParseOf(Append(w.log, l)).entries # <<>>
  <2>. DEFINE p == ParseOf(w.log)
              q == ReadLine(p, l)
  <2>1. ParseOf(Append(w.log, l)) = q /\ p \in Parse /\ p.threw = FALSE
    BY <1>1, ParseOfMore DEF Started
  <2>2. CASE w.log # <<>>
    <3>1. p.entries # <<>>
      BY <2>2 DEF Started
    <3>. HIDE DEF p
    <3>2. q \in Parse /\ q.entries # <<>> /\ q.threw = p.threw
      BY <2>1, <3>1, LineIsSteady
    <3>. QED
      BY <2>1, <3>2
  <2>3. CASE w.log = <<>>
    <3>1. p.depth = 0 /\ l.kind \in {"invoke", "consumed", "data", "text"}
      BY <1>4, <2>3, ParseOfNothing DEF Start
    <3>. HIDE DEF p
    <3>2. q \in Parse /\ q.threw = p.threw /\ Len(q.entries) = Len(p.entries) + 1
      BY <2>1, <3>1, EntryBegins
    <3>. HIDE DEF q
    <3>3. Len(p.entries) \in Nat /\ q.entries \in Seq(Row)
      BY <2>1, <3>2 DEF Parse
    <3>4. q.entries # <<>>
      BY <3>2, <3>3
    <3>. QED
      BY <2>1, <3>2, <3>4
  <2>. QED
    BY <2>2, <2>3
<1>5. CASE w.written + Size(line) < limit
  <2>. DEFINE v == [log |-> Append(w.log, line), written |-> w.written + Size(line)]
  <2>1. LogLine(w, line) = v
    BY <1>5 DEF LogLine
  <2>2. v.log = Append(w.log, line) /\ v.log # <<>>
        /\ v \in [log : Seq(LogEntry), written : Nat]
    BY <1>1, <1>2
  <2>. HIDE DEF v
  <2>. QED
    BY <1>4, <2>1, <2>2 DEF Started
<1>6. CASE ~ (w.written + Size(line) < limit)
  <2>1. w.log # <<>>
    BY <1>1, <1>2, <1>6 DEF Started
  <2>2. CASE Truncated \in ToSet(w.log)
    <3>1. LogLine(w, line) = w
      BY <1>6, <2>2 DEF LogLine
    <3>. QED
      BY <2>1, <3>1
  <2>3. CASE Truncated \notin ToSet(w.log)
    <3>. DEFINE v == [w EXCEPT !.log = Append(@, Truncated)]
    <3>1. LogLine(w, line) = v
      BY <1>6, <2>3 DEF LogLine
    <3>2. v.log = Append(w.log, Truncated) /\ v.log # <<>>
          /\ v \in [log : Seq(LogEntry), written : Nat]
      <4>1. v.log = Append(w.log, Truncated)
        BY <1>1
      <4>2. Append(w.log, Truncated) \in Seq(LogEntry) /\ Append(w.log, Truncated) # <<>>
        BY <1>1, <1>3
      <4>. QED
        BY <1>1, <4>1, <4>2
    <3>. HIDE DEF v
    <3>3. /\ ParseOf(v.log) \in Parse /\ ParseOf(v.log).threw = FALSE
          /\ ParseOf(v.log).entries # <<>>
      BY <1>3, <1>4, <2>1, <3>2
    <3>. QED
      BY <3>1, <3>2, <3>3 DEF Started
  <2>. QED
    BY <2>2, <2>3
<1>. QED
  BY <1>5, <1>6

(* A log without a mark has every line written to it.                      *)
LEMMA LineIsThere ==
  ASSUME NEW w \in [log : Seq(LogEntry), written : Nat], NEW line \in LogEntry, line.kind # "truncated",
         Truncated \notin ToSet(LogLine(w, line).log)
  PROVE  LogLine(w, line).log = Append(w.log, line) /\ Truncated \notin ToSet(w.log)
<1>1. w.log \in Seq(LogEntry) /\ Truncated \in LogEntry
  BY DEF Truncated, LogEntry
<1>2. CASE w.written + Size(line) < limit
  <2>1. LogLine(w, line).log = Append(w.log, line)
    BY <1>2 DEF LogLine
  <2>. QED
    BY <1>1, <2>1, SetOfMore
<1>3. CASE ~ (w.written + Size(line) < limit)
  <2>1. CASE Truncated \in ToSet(w.log)
    <3>1. LogLine(w, line) = w
      BY <1>3, <2>1 DEF LogLine
    <3>. QED
      BY <2>1, <3>1
  <2>2. CASE Truncated \notin ToSet(w.log)
    <3>1. LogLine(w, line).log = Append(w.log, Truncated)
      BY <1>3, <2>2 DEF LogLine
    <3>. QED
      BY <1>1, <3>1, SetOfMore
  <2>. QED
    BY <2>1, <2>2
<1>. QED
  BY <1>2, <1>3

-------------------------------------------------------------------------------
(* What an entry tells of its instruction.                                 *)
LinesOf(logs, i) == {l \in ToSet(logs) : l.ix = i /\ ~(l.kind = "invoke" /\ l.depth = 1)}

IsTop(l, i) == l.kind = "consumed" /\ l.ix = i /\ l.height = 1

Tells(entry, i, logs) ==
  /\ tx[i].program \in Logging => entry.invokedProgram = tx[i].program
  /\ tx[i].program \notin Logging =>
       tx[i].program \in Native /\ entry.invokedProgram = NoData /\ entry.logs # {}
  /\ {l.line : l \in entry.logs} = LinesOf(logs, i)
  /\ \A l \in entry.logs : l.indent >= 1
  /\ (\E l \in ToSet(logs) : IsTop(l, i)) => entry.computeUnits = 1
  /\ (\A l \in ToSet(logs) : ~IsTop(l, i)) => entry.computeUnits = 0
  /\ entry.failed = TRUE <=> \E l \in ToSet(logs) : l.ix = i /\ IsFailure(l)

(* The k-th entry is the one of the instruction own[k], and every line is  *)
(* of an instruction that has an entry.                                    *)
Told(logs, own) ==
  LET E == ParseOf(logs).entries
  IN  /\ own \in Seq(1 .. Len(tx)) /\ Len(own) = Len(E)
      /\ \A j, k \in 1 .. Len(own) : j < k => own[j] < own[k]
      /\ \A k \in 1 .. Len(own) : Tells(E[k], own[k], logs)
      /\ \A l \in ToSet(logs) : \E k \in 1 .. Len(own) : own[k] = l.ix

(* A line of another instruction changes nothing.                          *)
LEMMA TellsStill ==
  ASSUME NEW logs \in Seq(LogEntry), NEW line \in LogEntry, NEW e, NEW i, Tells(e, i, logs), line.ix # i
  PROVE  Tells(e, i, Append(logs, line))
<1>. DEFINE more == Append(logs, line)
<1>1. ToSet(more) = ToSet(logs) \cup {line}
  BY SetOfMore
<1>. HIDE DEF more
<1>2. LinesOf(more, i) = LinesOf(logs, i)
  BY <1>1 DEF LinesOf
<1>3. \A l \in ToSet(more) : IsTop(l, i) => l \in ToSet(logs)
  BY <1>1 DEF IsTop
<1>4. \A l \in ToSet(more) : l.ix = i => l \in ToSet(logs)
  BY <1>1
<1>5. (\E l \in ToSet(more) : l.ix = i /\ IsFailure(l)) <=> (\E l \in ToSet(logs) : l.ix = i /\ IsFailure(l))
  BY <1>1, <1>4
<1>. QED
  BY <1>1, <1>2, <1>3, <1>5, Zenon DEF Tells, more

(* A line of the last instruction is told by the last entry.               *)
LEMMA TellsMore ==
  ASSUME NEW logs \in Seq(LogEntry), NEW line \in LogEntry, NEW a \in Row, NEW b, NEW i, NEW d \in Nat \ {0},
         Tells(a, i, logs), line.ix = i, ~(line.kind = "invoke" /\ line.depth = 1),
         SameProgram(a, b), b.logs = a.logs \cup {[line |-> line, indent |-> d]},
         IsTop(line, i) => b.computeUnits = a.computeUnits + 1 /\ \A l \in ToSet(logs) : ~IsTop(l, i),
         ~IsTop(line, i) => b.computeUnits = a.computeUnits,
         IsFailure(line) => b.failed = TRUE,
         ~IsFailure(line) => b.failed = a.failed
  PROVE  Tells(b, i, Append(logs, line))
<1>. DEFINE more == Append(logs, line)
            x == [line |-> line, indent |-> d]
<1>1. ToSet(more) = ToSet(logs) \cup {line}
  BY SetOfMore
<1>2. x.line = line /\ x.indent = d /\ b.logs = a.logs \cup {x}
  OBVIOUS
<1>. HIDE DEF more, x
<1>3. /\ tx[i].program \in Logging => b.invokedProgram = tx[i].program
      /\ tx[i].program \notin Logging =>
           tx[i].program \in Native /\ b.invokedProgram = NoData /\ b.logs # {}
  BY <1>2 DEF Tells, SameProgram
<1>4. {l.line : l \in b.logs} = LinesOf(more, i)
  <2>1. {l.line : l \in b.logs} = {l.line : l \in a.logs} \cup {line}
    BY <1>2
  <2>2. LinesOf(more, i) = LinesOf(logs, i) \cup {line}
    BY <1>1 DEF LinesOf
  <2>. QED
    BY <2>1, <2>2 DEF Tells
<1>5. \A l \in b.logs : l.indent >= 1
  BY <1>2 DEF Tells
<1>6. (\E l \in ToSet(more) : IsTop(l, i)) => b.computeUnits = 1
  <2>1. CASE IsTop(line, i)
    BY <2>1 DEF Tells
  <2>2. CASE ~IsTop(line, i)
    <3>1. (\E l \in ToSet(more) : IsTop(l, i)) => \E l \in ToSet(logs) : IsTop(l, i)
      BY <1>1, <2>2
    <3>. QED
      BY <2>2, <3>1, Zenon DEF Tells
  <2>. QED
    BY <2>1, <2>2
<1>7. (\A l \in ToSet(more) : ~IsTop(l, i)) => b.computeUnits = 0
  <2>1. SUFFICES ASSUME \A l \in ToSet(more) : ~IsTop(l, i) PROVE b.computeUnits = 0
    OBVIOUS
  <2>2. (\A l \in ToSet(logs) : ~IsTop(l, i)) /\ ~IsTop(line, i)
    BY <1>1, <2>1
  <2>. QED
    BY <2>2, Zenon DEF Tells
<1>8. b.failed = TRUE <=> \E l \in ToSet(more) : l.ix = i /\ IsFailure(l)
  <2>1. CASE IsFailure(line)
    BY <1>1, <2>1
  <2>2. CASE ~IsFailure(line)
    <3>1. (\E l \in ToSet(more) : l.ix = i /\ IsFailure(l)) <=> (\E l \in ToSet(logs) : l.ix = i /\ IsFailure(l))
      BY <1>1, <2>2
    <3>2. a.failed = TRUE <=> \E l \in ToSet(logs) : l.ix = i /\ IsFailure(l)
      BY DEF Tells
    <3>. QED
      BY <2>2, <3>1, <3>2, Zenon
  <2>. QED
    BY <2>1, <2>2
<1>. QED
  BY <1>3, <1>4, <1>5, <1>6, <1>7, <1>8, Zenon DEF Tells, more

LEMMA SaidIsTold ==
  ASSUME NEW logs \in Seq(LogEntry), ParseOf(logs) \in Parse, NEW own, Told(logs, own), own # <<>>,
         NEW line \in LogEntry, line.kind # "truncated", line.ix = Last(own),
         ~(line.kind = "invoke" /\ line.depth = 1),
         ParseOf(logs).depth >= 1 \/ (line.kind = "verify" /\ ParseOf(logs).depth >= 0),
         line.kind = "consumed" =>
           line.height = ParseOf(logs).depth /\ \A l \in ToSet(logs) : ~IsTop(l, Last(own))
  PROVE  /\ Told(Append(logs, line), own)
         /\ ParseOf(Append(logs, line)).depth = DepthAfter(ParseOf(logs).depth, line)
<1>. DEFINE p == ParseOf(logs)
            more == Append(logs, line)
            q == ParseOf(more)
            n == Len(own)
            i == Last(own)
<1>1. /\ own \in Seq(1 .. Len(tx)) /\ n = Len(p.entries) /\ n \in Nat \ {0} /\ i = own[n]
      /\ p.entries # <<>> /\ p.depth \in Int
  BY DEF Told, Last, Parse
<1>2. ToSet(more) = ToSet(logs) \cup {line}
  BY SetOfMore
<1>3. q = ReadLine(p, line)
  BY ParseOfMore
<1>4. Extended(p, q, line) /\ q.depth = DepthAfter(p.depth, line)
  <2>1. p.depth # 0 \/ line.kind \notin {"invoke", "consumed", "data", "text"}
    BY <1>1
  <2>. HIDE DEF p, q
  <2>. QED
    BY <1>1, <1>3, <2>1, LineExtends DEF p
<1>. HIDE DEF p, q, more
<1>5. Len(q.entries) = n /\ \A k \in 1 .. n : k # n => q.entries[k] = p.entries[k]
  BY <1>1, <1>4 DEF Extended, LastChanged
<1>6. ASSUME NEW k \in 1 .. n, k # n PROVE Tells(q.entries[k], own[k], more)
  <2>1. Tells(p.entries[k], own[k], logs) /\ own[k] < own[n]
    BY <1>1, <1>6 DEF Told, p
  <2>2. own[k] # line.ix
    BY <1>1, <1>6, <2>1
  <2>. QED
    BY <1>5, <1>6, <2>1, <2>2, TellsStill DEF more
<1>7. Tells(q.entries[n], own[n], more)
  <2>. DEFINE a == p.entries[n]
              b == q.entries[n]
              d == IndentOf(p.depth, line)
  <2>1. a \in Row /\ a = RowOf(p) /\ b = RowOf(q) /\ Tells(a, i, logs)
    BY <1>1, <1>5, LastOfParse DEF RowOf, Told, p
  <2>2. d \in Nat \ {0}
    BY <1>1 DEF IndentOf, p
  <2>3. IsTop(line, i) <=> IsOuter(p, line)
    BY DEF IsTop, IsOuter, p
  <2>4. IsTop(line, i) => b.computeUnits = a.computeUnits + 1 /\ \A l \in ToSet(logs) : ~IsTop(l, i)
    BY <1>4, <2>1, <2>3 DEF Extended, IsTop
  <2>5. /\ SameProgram(a, b) /\ b.logs = a.logs \cup {[line |-> line, indent |-> d]}
        /\ ~IsTop(line, i) => b.computeUnits = a.computeUnits
        /\ IsFailure(line) => b.failed = TRUE
        /\ ~IsFailure(line) => b.failed = a.failed
    BY <1>4, <2>1, <2>3 DEF Extended
  <2>. HIDE DEF a, b, d
  <2>6. Tells(b, i, more)
    BY <2>1, <2>2, <2>4, <2>5, TellsMore DEF more
  <2>. QED
    BY <1>1, <2>6 DEF b
<1>8. \A k \in 1 .. n : Tells(q.entries[k], own[k], more)
  BY <1>6, <1>7
<1>9. \A l \in ToSet(more) : \E k \in 1 .. n : own[k] = l.ix
  BY <1>1, <1>2 DEF Told
<1>10. Told(more, own)
  BY <1>1, <1>5, <1>8, <1>9 DEF Told, q
<1>. QED
  BY <1>4, <1>10 DEF p, q, more
(* The line that begins an entry: the invocation of an instruction, or the *)
(* first line of a native program.                                         *)
LEMMA NewIsTold ==
  ASSUME NEW logs \in Seq(LogEntry), ParseOf(logs) \in Parse, NEW own, Told(logs, own),
         NEW line \in LogEntry, NEW i \in 1 .. Len(tx), line.ix = i,
         \A k \in 1 .. Len(own) : own[k] < i,
         ParseOf(logs).depth = 0,
         \/ line.kind = "invoke" /\ line.depth = 1 /\ tx[i].program = line.program
         \/ line.kind = "text" /\ tx[i].program \in Native
  PROVE  /\ Told(Append(logs, line), Append(own, i))
         /\ ParseOf(Append(logs, line)).depth = 1
<1>. DEFINE p == ParseOf(logs)
            more == Append(logs, line)
            q == ParseOf(more)
            n == Len(own)
            b == q.entries[n + 1]
            mine == Append(own, i)
<1>1. /\ own \in Seq(1 .. Len(tx)) /\ n = Len(p.entries) /\ n \in Nat /\ p.entries \in Seq(Row)
      /\ \A j, k \in 1 .. n : j < k => own[j] < own[k]
      /\ \A k \in 1 .. n : Tells(p.entries[k], own[k], logs)
      /\ \A l \in ToSet(logs) : \E k \in 1 .. n : own[k] = l.ix
  BY DEF Told, Parse
<1>0. n \in Nat
  BY <1>1
<1>2. ToSet(more) = ToSet(logs) \cup {line}
  BY SetOfMore
<1>3. q = ReadLine(p, line)
  BY ParseOfMore
<1>4. /\ q \in Parse /\ q.depth = 1 /\ Len(q.entries) = n + 1
      /\ \A j \in 1 .. n : q.entries[j] = p.entries[j]
      /\ line.kind = "invoke" => b = Entry(line.program)
      /\ line.kind = "text" =>
           /\ SameProgram(Entry(NoData), b)
           /\ b.logs = {[line |-> line, indent |-> 1]}
           /\ b.computeUnits = 0 /\ b.failed = FALSE
  <2>1. line.kind \in {"invoke", "consumed", "data", "text"}
    OBVIOUS
  <2>2. p \in Parse /\ p.depth = 0
    OBVIOUS
  <2>. HIDE DEF p, q
  <2>3. /\ q \in Parse /\ q.depth = 1 /\ Len(q.entries) = Len(p.entries) + 1
        /\ \A j \in 1 .. Len(p.entries) : q.entries[j] = p.entries[j]
        /\ line.kind = "invoke" => q.entries[Len(p.entries) + 1] = Entry(line.program)
        /\ line.kind = "text" =>
             /\ SameProgram(Entry(NoData), q.entries[Len(p.entries) + 1])
             /\ q.entries[Len(p.entries) + 1].logs = {[line |-> line, indent |-> 1]}
             /\ q.entries[Len(p.entries) + 1].computeUnits = 0
             /\ q.entries[Len(p.entries) + 1].failed = FALSE
    BY <1>3, <2>1, <2>2, EntryBegins
  <2>4. Len(p.entries) = n
    BY <1>1
  <2>. QED
    BY <2>3, <2>4
<1>. HIDE DEF p, q, more
<1>5. \A k \in 1 .. n : own[k] \in 1 .. Len(tx) /\ own[k] # i
  BY <1>1
<1>6. \A k \in 1 .. n : Tells(q.entries[k], own[k], more)
  <2>1. TAKE k \in 1 .. n
  <2>2. Tells(p.entries[k], own[k], logs) /\ line.ix # own[k]
    BY <1>1, <1>5
  <2>. QED
    BY <1>4, <2>2, TellsStill DEF more
<1>7. \A l \in ToSet(logs) : l.ix # i
  BY <1>1, <1>5
<1>8. Tells(b, i, more)
  <2>1. \A l \in ToSet(more) : ~IsTop(l, i) /\ ~(l.ix = i /\ IsFailure(l))
    BY <1>2, <1>7 DEF IsTop, IsFailure
  <2>2. CASE line.kind = "invoke"
    <3>1. line.program \in Logging /\ b = Entry(line.program)
      BY <1>4, <2>2, LinesSay
    <3>2. /\ b.invokedProgram = line.program /\ b.logs = {} /\ b.computeUnits = 0 /\ b.failed = FALSE
      BY <3>1 DEF Entry
    <3>3. LinesOf(more, i) = {}
      BY <1>2, <1>7, <2>2 DEF LinesOf
    <3>. HIDE DEF b
    <3>. QED
      BY <2>1, <2>2, <3>1, <3>2, <3>3 DEF Tells
  <2>3. CASE line.kind = "text"
    <3>1. tx[i].program \in Native /\ tx[i].program \notin Logging
      BY <2>3, ProgramsAssumption
    <3>2. /\ b.invokedProgram = NoData /\ b.logs = {[line |-> line, indent |-> 1]}
          /\ b.computeUnits = 0 /\ b.failed = FALSE
      BY <1>4, <2>3 DEF SameProgram, Entry
    <3>3. LinesOf(more, i) = {line}
      BY <1>2, <1>7, <2>3 DEF LinesOf
    <3>. HIDE DEF b
    <3>4. {l.line : l \in b.logs} = {line} /\ b.logs # {} /\ \A l \in b.logs : l.indent >= 1
      BY <3>2
    <3>. QED
      BY <2>1, <3>1, <3>2, <3>3, <3>4 DEF Tells
  <2>. QED
    BY <2>2, <2>3
<1>9. /\ mine \in Seq(1 .. Len(tx)) /\ Len(mine) = n + 1 /\ mine[n + 1] = i
      /\ \A k \in 1 .. n : mine[k] = own[k]
  BY <1>1
<1>. HIDE DEF mine, b
<1>10. \A k \in 1 .. n + 1 : Tells(q.entries[k], mine[k], more)
  <2>1. TAKE k \in 1 .. n + 1
  <2>2. CASE k = n + 1
    BY <1>8, <1>9, <2>2 DEF b
  <2>3. CASE k \in 1 .. n
    BY <1>6, <1>9, <2>3
  <2>4. k = n + 1 \/ k \in 1 .. n
    BY <1>0
  <2>. QED
    BY <2>2, <2>3, <2>4
<1>11. \A j, k \in 1 .. n + 1 : j < k => mine[j] < mine[k]
  <2>1. TAKE j, k \in 1 .. n + 1
  <2>2. CASE k = n + 1 /\ j \in 1 .. n
    <3>1. mine[j] = own[j] /\ mine[k] = i
      BY <1>9, <2>2
    <3>. QED
      BY <1>1, <2>2, <3>1
  <2>3. CASE k \in 1 .. n /\ j \in 1 .. n
    <3>1. mine[j] = own[j] /\ mine[k] = own[k]
      BY <1>9, <2>3
    <3>. QED
      BY <1>1, <2>3, <3>1
  <2>4. j < k => (k = n + 1 /\ j \in 1 .. n) \/ (k \in 1 .. n /\ j \in 1 .. n)
    BY <1>0
  <2>. QED
    BY <2>2, <2>3, <2>4
<1>12. \A l \in ToSet(more) : \E k \in 1 .. n + 1 : mine[k] = l.ix
  <2>1. TAKE l \in ToSet(more)
  <2>2. CASE l = line
    <3>1. n + 1 \in 1 .. n + 1
      BY <1>0
    <3>. QED
      BY <1>9, <2>2, <3>1
  <2>3. CASE l \in ToSet(logs)
    <3>1. PICK k \in 1 .. n : own[k] = l.ix
      BY <1>1, <2>3
    <3>2. k \in 1 .. n + 1
      BY <1>0
    <3>3. mine[k] = l.ix
      BY <1>9, <3>1, Zenon
    <3>. QED
      BY <3>2, <3>3, Zenon
  <2>. QED
    BY <1>2, <2>2, <2>3
<1>13. Told(more, mine)
  BY <1>4, <1>9, <1>10, <1>11, <1>12 DEF Told, q
<1>. QED
  BY <1>4, <1>13 DEF more, mine, q

(* What has been written is told of the same instructions.                 *)
LEMMA ToldNext ==
  ASSUME NEW logs, NEW own, Told(logs, own), log' = logs, UNCHANGED tx
  PROVE  Told(log, own)'
BY DEF Told, Tells, LinesOf

-------------------------------------------------------------------------------
(* How far the runtime has come: the instructions that have entries, what  *)
(* the indent is, and what the failure is of.                              *)
Follows(own) ==
  /\ \A i \in 1 .. Len(tx) : i < at /\ tx[i].program \in Logging => \E k \in 1 .. Len(own) : own[k] = i
  /\ \A k \in 1 .. Len(own) : own[k] <= at
  /\ Between => ParseOf(log).depth = 0 /\ \A k \in 1 .. Len(own) : own[k] < at
  /\ frames # <<>> =>
       /\ ParseOf(log).depth = Len(frames)
       /\ own # <<>> /\ Last(own) = at
       /\ \A l \in ToSet(log) : ~IsTop(l, at)
  /\ \A l \in ToSet(log) : IsFailure(l) => err > 0 /\ l.ix = err
  /\ err > 0 =>
       /\ err = at /\ at <= Len(tx)
       /\ (\E l \in ToSet(log) : IsFailure(l)) \/ tx[err].program \in Precompile \cup Native

IsTold == Attributable => \E own : Told(log, own) /\ Follows(own)

(* What the rows need, on top of what the stack needs.                     *)
RowsInv ==
  /\ Started(Logged)
  /\ frames # <<>> => log # <<>>
  /\ err = -1 => frames = <<>>
  /\ IsTold

LEMMA InitIsTold == Init => RowsInv
<1>. SUFFICES ASSUME Init PROVE RowsInv
  OBVIOUS
<1>1. /\ tx \in Seq(Instruction) /\ at = 1 /\ frames = <<>> /\ err = 0 /\ log = <<>> /\ written = 0
  <2>1. PICK n \in 1 .. MaxInstructions : tx \in [1 .. n -> Instruction]
    BY DEF Init
  <2>2. n \in Nat
    BY BoundsAssumption
  <2>. QED
    BY <2>1, <2>2 DEF Init
<1>2. Start \in Parse /\ Start.threw = FALSE /\ Start.entries = <<>> /\ Start.depth = 0
  BY DEF Start, Parse
<1>3. Started(Logged)
  BY <1>1, <1>2, ParseOfNothing DEF Started, Logged
<1>4. ToSet(<<>>) = {}
  BY DEF ToSet
<1>5. Told(log, <<>>)
  BY <1>1, <1>2, <1>4, ParseOfNothing DEF Told
<1>6. Follows(<<>>)
  BY <1>1, <1>2, <1>4, ParseOfNothing DEF Follows
<1>. QED
  BY <1>1, <1>3, <1>5, <1>6 DEF RowsInv, IsTold

(* The two lines of a program that ends.                                   *)
LEMMA EndIsStarted ==
  ASSUME IInv, RowsInv, frames # <<>>, NEW kind \in {"success", "failed"}
  PROVE  /\ Started(LogLine(Logged, Consumed)) /\ Started(End(kind)) /\ End(kind).log # <<>>
         /\ Consumed \in LogEntry /\ EndOf(kind, Last(frames)) \in LogEntry
<1>. DEFINE line == EndOf(kind, Last(frames))
            v == LogLine(Logged, Consumed)
<1>1. limit \in Nat \ 0 .. 2 /\ at \in Nat /\ frames \in Seq(Logging)
  BY BoundsAssumption DEF IInv, TypeOK
<1>2. Last(frames) \in Logging
  BY <1>1 DEF Last
<1>3. line \in LogEntry /\ line.kind = kind
  BY <1>1, <1>2 DEF EndOf, LogEntry
<1>4. Consumed \in LogEntry /\ Consumed.kind = "consumed"
  BY <1>1 DEF Consumed, LogEntry
<1>5. Started(Logged) /\ Logged.log # <<>>
  BY DEF RowsInv, Logged
<1>. HIDE DEF line
<1>6. Started(v) /\ v.log # <<>>
  BY <1>1, <1>4, <1>5, LineIsStarted
<1>7. End(kind) = LogLine(v, line)
  BY DEF End, line
<1>. HIDE DEF v
<1>8. Started(LogLine(v, line)) /\ LogLine(v, line).log # <<>>
  <2>1. line.kind # "truncated" /\ (v.log = <<>> => line.kind \in {"invoke", "text"})
    BY <1>3, <1>6
  <2>. QED
    BY <1>1, <1>3, <1>6, <2>1, LineIsStarted
<1>. QED
  BY <1>3, <1>4, <1>6, <1>7, <1>8 DEF v, line

LEMMA EndIsTold ==
  ASSUME IInv, RowsInv, frames # <<>>, NEW kind \in {"success", "failed"},
         NEW own, Told(log, own), Follows(own), Truncated \notin ToSet(End(kind).log)
  PROVE  LET line == EndOf(kind, Last(frames))
             logs == End(kind).log
         IN  /\ Told(logs, own) /\ ParseOf(logs).depth = Len(frames) - 1
             /\ logs \in Seq(LogEntry) /\ ParseOf(logs) \in Parse
             /\ ToSet(logs) = ToSet(log) \cup {Consumed, line}
             /\ line.ix = at /\ line.kind = kind
             /\ ~IsFailure(Consumed) /\ (IsTop(Consumed, at) <=> Len(frames) = 1)
<1>. DEFINE line == EndOf(kind, Last(frames))
            v == LogLine(Logged, Consumed)
            w == LogLine(v, line)
<1>1. /\ Started(Logged) /\ Started(v) /\ Started(w) /\ Consumed \in LogEntry /\ line \in LogEntry
  BY EndIsStarted DEF End, RowsInv
<1>2. /\ line.ix = at /\ line.kind = kind
      /\ Consumed.kind = "consumed" /\ Consumed.ix = at /\ Consumed.height = Len(frames)
  BY DEF EndOf, Consumed
<1>3. End(kind) = w
  BY DEF End
<1>4. log \in Seq(LogEntry) /\ Logged.log = log /\ Len(frames) \in Nat \ {0}
  BY DEF IInv, TypeOK, Logged
<1>5. /\ v \in [log : Seq(LogEntry), written : Nat] /\ Logged \in [log : Seq(LogEntry), written : Nat]
      /\ v.log \in Seq(LogEntry) /\ w.log \in Seq(LogEntry)
      /\ ParseOf(log) \in Parse /\ ParseOf(v.log) \in Parse /\ ParseOf(w.log) \in Parse
  BY <1>1, <1>4 DEF Started
<1>. HIDE DEF line, w
<1>6. line.kind # "truncated" /\ Consumed.kind # "truncated" /\ Truncated \notin ToSet(w.log)
  BY <1>2, <1>3
<1>. HIDE DEF v
<1>7. w.log = Append(v.log, line) /\ Truncated \notin ToSet(v.log)
  BY <1>1, <1>5, <1>6, LineIsThere DEF w
<1>8. v.log = Append(log, Consumed)
  BY <1>1, <1>4, <1>5, <1>6, <1>7, LineIsThere DEF v
<1>9. /\ own # <<>> /\ Last(own) = at /\ ParseOf(log).depth = Len(frames)
      /\ \A l \in ToSet(log) : ~IsTop(l, at)
  BY DEF Follows
<1>10. Told(v.log, own) /\ ParseOf(v.log).depth = Len(frames)
  <2>1. ~(Consumed.kind = "invoke" /\ Consumed.depth = 1)
    BY <1>2
  <2>2. DepthAfter(ParseOf(log).depth, Consumed) = Len(frames)
    BY <1>2, <1>9 DEF DepthAfter
  <2>. QED
    BY <1>1, <1>2, <1>4, <1>5, <1>6, <1>8, <1>9, <2>1, <2>2, SaidIsTold
<1>11. Told(w.log, own) /\ ParseOf(w.log).depth = Len(frames) - 1
  <2>1. ~(line.kind = "invoke" /\ line.depth = 1) /\ line.kind # "consumed"
    BY <1>2
  <2>2. DepthAfter(ParseOf(v.log).depth, line) = Len(frames) - 1
    BY <1>2, <1>10 DEF DepthAfter
  <2>3. ParseOf(v.log).depth >= 1
    BY <1>4, <1>10
  <2>. QED
    BY <1>1, <1>2, <1>5, <1>6, <1>7, <1>9, <1>10, <2>1, <2>2, <2>3, SaidIsTold
<1>12. ToSet(w.log) = ToSet(log) \cup {Consumed, line}
  <2>1. ToSet(v.log) = ToSet(log) \cup {Consumed}
    BY <1>1, <1>4, <1>8, SetOfMore
  <2>2. ToSet(w.log) = ToSet(v.log) \cup {line}
    BY <1>1, <1>5, <1>7, SetOfMore
  <2>. QED
    BY <2>1, <2>2
<1>13. ~IsFailure(Consumed) /\ (IsTop(Consumed, at) <=> Len(frames) = 1)
  BY <1>2 DEF IsFailure, IsTop
<1>. QED
  BY <1>2, <1>3, <1>5, <1>11, <1>12, <1>13 DEF line
(* What has to be shown of a step that adds to the log.                    *)
LEMMA IsToldNext ==
  ASSUME NEW logs, NEW own, Told(logs, own), log' = logs, UNCHANGED tx,
         \A i \in 1 .. Len(tx) : i < at' /\ tx[i].program \in Logging => \E k \in 1 .. Len(own) : own[k] = i,
         \A k \in 1 .. Len(own) : own[k] <= at',
         err' = 0 /\ frames' = <<>> /\ at' <= Len(tx) =>
           ParseOf(logs).depth = 0 /\ \A k \in 1 .. Len(own) : own[k] < at',
         frames' # <<>> =>
           /\ ParseOf(logs).depth = Len(frames')
           /\ own # <<>> /\ Last(own) = at'
           /\ \A l \in ToSet(logs) : ~IsTop(l, at'),
         \A l \in ToSet(logs) : IsFailure(l) => err' > 0 /\ l.ix = err',
         err' > 0 =>
           /\ err' = at' /\ at' <= Len(tx)
           /\ (\E l \in ToSet(logs) : IsFailure(l)) \/ tx[err'].program \in Precompile \cup Native
  PROVE  IsTold'
<1>1. Told(log, own)'
  BY ToldNext
<1>2. Follows(own)'
  BY DEF Follows, Between
<1>. QED
  BY <1>1, <1>2 DEF IsTold

(* A line that a running program adds, or the invocation of another.       *)
LEMMA LineIsTold ==
  ASSUME IInv, RowsInv, err = 0, frames # <<>>, NEW line \in LogEntry, line.ix = at,
         line.kind \in {"log", "data", "invoke"}, ~(line.kind = "invoke" /\ line.depth = 1),
         Write(LogLine(Logged, line)), UNCHANGED <<tx, at, err, limit>>,
         frames' # <<>>, Len(frames') = DepthAfter(Len(frames), line)
  PROVE  RowsInv'
<1>. DEFINE w == LogLine(Logged, line)
<1>1. /\ limit \in Nat \ 0 .. 2 /\ at \in Nat /\ frames \in Seq(Logging) /\ log \in Seq(LogEntry)
      /\ Logged.log = log
  BY BoundsAssumption DEF IInv, TypeOK, Logged
<1>2. Started(Logged) /\ Logged.log # <<>> /\ Logged \in [log : Seq(LogEntry), written : Nat]
      /\ ParseOf(log) \in Parse
  BY <1>1 DEF RowsInv, Started
<1>3. Started(w) /\ w.log # <<>>
  <2>1. line.kind # "truncated"
    OBVIOUS
  <2>. QED
    BY <1>1, <1>2, <2>1, LineIsStarted
<1>4. log' = w.log /\ written' = w.written
  BY DEF Write
<1>. HIDE DEF w
<1>5. Started(Logged)'
  BY <1>3, <1>4 DEF Started, Logged
<1>6. ASSUME Attributable' PROVE IsTold'
  <2>1. Truncated \notin ToSet(w.log)
    BY <1>4, <1>6 DEF Attributable, truncated
  <2>2. w.log = Append(log, line) /\ Truncated \notin ToSet(log)
    <3>1. line.kind # "truncated"
      OBVIOUS
    <3>. QED
      BY <1>1, <1>2, <2>1, <3>1, LineIsThere DEF w
  <2>3. PICK own : Told(log, own) /\ Follows(own)
    BY <1>6, <2>2 DEF RowsInv, IsTold, Attributable, truncated, programs
  <2>4. /\ own # <<>> /\ Last(own) = at /\ ParseOf(log).depth = Len(frames)
        /\ \A l \in ToSet(log) : ~IsTop(l, at)
        /\ \A i \in 1 .. Len(tx) : i < at /\ tx[i].program \in Logging => \E k \in 1 .. Len(own) : own[k] = i
        /\ \A k \in 1 .. Len(own) : own[k] <= at
        /\ \A l \in ToSet(log) : ~IsFailure(l)
    BY <2>3 DEF Follows
  <2>5. Told(w.log, own) /\ ParseOf(w.log).depth = Len(frames')
    <3>1. line.kind # "truncated" /\ line.kind # "consumed" /\ ParseOf(log).depth >= 1
      BY <1>1, <2>4
    <3>2. DepthAfter(ParseOf(log).depth, line) = Len(frames')
      BY <2>4
    <3>. QED
      BY <1>1, <1>2, <2>2, <2>3, <2>4, <3>1, <3>2, SaidIsTold
  <2>6. ToSet(w.log) = ToSet(log) \cup {line}
    BY <1>1, <2>2, SetOfMore
  <2>7. ~IsTop(line, at) /\ ~IsFailure(line)
    BY DEF IsTop, IsFailure
  <2>8. /\ \A l \in ToSet(w.log) : ~IsTop(l, at')
        /\ \A l \in ToSet(w.log) : ~IsFailure(l)
    BY <2>4, <2>6, <2>7
  <2>. QED
    BY <1>4, <2>4, <2>5, <2>8, IsToldNext
<1>7. IsTold'
  BY <1>6 DEF IsTold
<1>. QED
  BY <1>3, <1>4, <1>5, <1>7 DEF RowsInv
LEMMA EndIsWhole ==
  ASSUME IInv, RowsInv, frames # <<>>, NEW kind \in {"success", "failed"},
         Truncated \notin ToSet(End(kind).log)
  PROVE  Truncated \notin ToSet(log)
<1>. DEFINE line == EndOf(kind, Last(frames))
            v == LogLine(Logged, Consumed)
<1>1. /\ v \in [log : Seq(LogEntry), written : Nat] /\ Logged \in [log : Seq(LogEntry), written : Nat]
      /\ line \in LogEntry /\ Consumed \in LogEntry
  BY EndIsStarted DEF Started, RowsInv
<1>2. line.kind # "truncated" /\ Consumed.kind # "truncated"
  BY DEF EndOf, Consumed
<1>3. Truncated \notin ToSet(LogLine(v, line).log)
  BY DEF End
<1>. HIDE DEF line, v
<1>4. Truncated \notin ToSet(v.log)
  BY <1>1, <1>2, <1>3, LineIsThere
<1>5. Truncated \notin ToSet(Logged.log)
  BY <1>1, <1>2, <1>4, LineIsThere DEF v
<1>. QED
  BY <1>5 DEF Logged

LEMMA FrontOf ==
  ASSUME NEW S, NEW s \in Seq(S), s # <<>>
  PROVE  /\ Front(s) \in Seq(S) /\ Len(Front(s)) = Len(s) - 1
         /\ Len(s) \in Nat \ {0} /\ (Front(s) = <<>> <=> Len(s) = 1)
<1>. DEFINE f == Front(s)
<1>1. Len(s) \in Nat /\ Len(s) # 0
  OBVIOUS
<1>2. PICK n \in Nat : Len(s) = n + 1
  <2>1. Len(s) - 1 \in Nat /\ Len(s) = (Len(s) - 1) + 1
    BY <1>1
  <2>. QED
    BY <2>1
<1>3. f \in Seq(S) /\ Len(f) = n
  <2>1. 1 \in Int /\ n \in Int /\ \A i \in 1 .. n : s[i] \in S
    BY <1>2
  <2>2. f = SubSeq(s, 1, n)
    BY <1>2 DEF Front
  <2>3. f \in Seq(S) /\ Len(f) = IF 1 <= n THEN n - 1 + 1 ELSE 0
    BY <2>1, <2>2, SubSeqProperties
  <2>. HIDE DEF f
  <2>. QED
    BY <1>2, <2>3
<1>. HIDE DEF f
<1>4. f = <<>> <=> n = 0
  BY <1>3
<1>. QED
  BY <1>2, <1>3, <1>4 DEF f

LEMMA InvokeIsTold == IInv /\ RowsInv /\ Invoke => RowsInv'
<1>. SUFFICES ASSUME IInv, RowsInv, Invoke PROVE RowsInv'
  OBVIOUS
<1>. DEFINE line == InvokeOf(tx[at].program, 1)
            w == LogLine(Logged, line)
<1>1. /\ limit \in Nat \ 0 .. 2 /\ at \in Nat /\ log \in Seq(LogEntry) /\ Logged.log = log
      /\ at \in 1 .. Len(tx)
  BY BoundsAssumption DEF IInv, TypeOK, Logged, Invoke, Between
<1>2. /\ tx[at].program \in Logging /\ err = 0 /\ frames = <<>> /\ Between
      /\ frames' = <<tx[at].program>> /\ Write(w) /\ UNCHANGED <<tx, at, err, limit>>
  BY DEF Invoke, Between
<1>3. /\ line \in LogEntry /\ line.kind = "invoke" /\ line.depth = 1 /\ line.ix = at
      /\ line.program = tx[at].program
  BY <1>1, <1>2 DEF InvokeOf, LogEntry
<1>4. Started(Logged) /\ Logged \in [log : Seq(LogEntry), written : Nat] /\ ParseOf(log) \in Parse
  BY <1>1 DEF RowsInv, Started
<1>. HIDE DEF line
<1>5. line.kind # "truncated" /\ line.kind \in {"invoke", "text"} /\ frames' # <<>> /\ Len(frames') = 1
  BY <1>2, <1>3
<1>6. Started(w) /\ w.log # <<>>
  BY <1>1, <1>3, <1>4, <1>5, LineIsStarted
<1>7. log' = w.log /\ written' = w.written
  BY <1>2 DEF Write
<1>. HIDE DEF w
<1>8. Started(Logged)'
  BY <1>6, <1>7 DEF Started, Logged
<1>9. ASSUME Attributable' PROVE IsTold'
  <2>1. Truncated \notin ToSet(w.log)
    BY <1>7, <1>9 DEF Attributable, truncated
  <2>2. w.log = Append(log, line) /\ Truncated \notin ToSet(log)
    BY <1>1, <1>3, <1>4, <1>5, <2>1, LineIsThere DEF w
  <2>3. PICK own : Told(log, own) /\ Follows(own)
    BY <1>2, <1>9, <2>2 DEF RowsInv, IsTold, Attributable, truncated, programs
  <2>. DEFINE mine == Append(own, at)
              n == Len(own)
  <2>4. /\ own \in Seq(1 .. Len(tx)) /\ n \in Nat
        /\ \A l \in ToSet(log) : \E k \in 1 .. n : own[k] = l.ix
    BY <2>3 DEF Told
  <2>5. /\ ParseOf(log).depth = 0 /\ \A k \in 1 .. n : own[k] < at
        /\ \A i \in 1 .. Len(tx) : i < at /\ tx[i].program \in Logging => \E k \in 1 .. n : own[k] = i
        /\ \A l \in ToSet(log) : ~IsFailure(l)
    BY <1>2, <2>3 DEF Follows
  <2>6. Told(w.log, mine) /\ ParseOf(w.log).depth = 1
    BY <1>1, <1>3, <1>4, <2>2, <2>3, <2>5, NewIsTold
  <2>7. /\ Len(mine) = n + 1 /\ mine[n + 1] = at /\ Last(mine) = at /\ mine # <<>>
        /\ \A k \in 1 .. n : mine[k] = own[k]
    <3>1. /\ mine \in Seq(1 .. Len(tx)) /\ Len(mine) = n + 1 /\ mine[n + 1] = at
          /\ \A k \in 1 .. n : mine[k] = own[k]
      BY <1>1, <2>4
    <3>. HIDE DEF mine
    <3>2. Last(mine) = at /\ mine # <<>>
      BY <2>4, <3>1 DEF Last
    <3>. QED
      BY <3>1, <3>2
  <2>. HIDE DEF mine
  <2>8. ASSUME NEW i \in 1 .. Len(tx), i < at, tx[i].program \in Logging
        PROVE  \E k \in 1 .. Len(mine) : mine[k] = i
    <3>1. PICK k \in 1 .. n : own[k] = i
      BY <2>5, <2>8
    <3>2. k \in 1 .. Len(mine) /\ mine[k] = i
      BY <2>4, <2>7, <3>1
    <3>. QED
      BY <3>2
  <2>9. \A k \in 1 .. Len(mine) : mine[k] <= at
    <3>1. TAKE k \in 1 .. Len(mine)
    <3>2. CASE k \in 1 .. n
      BY <1>1, <2>4, <2>5, <2>7, <3>2
    <3>3. CASE k = n + 1
      BY <1>1, <2>7, <3>3
    <3>4. k \in 1 .. n \/ k = n + 1
      BY <2>4, <2>7
    <3>. QED
      BY <3>2, <3>3, <3>4
  <2>10. ToSet(w.log) = ToSet(log) \cup {line}
    BY <1>1, <1>3, <2>2, SetOfMore
  <2>11. \A l \in ToSet(w.log) : ~IsTop(l, at) /\ ~IsFailure(l)
    <3>1. ~IsTop(line, at) /\ ~IsFailure(line)
      BY <1>3 DEF IsTop, IsFailure
    <3>2. \A l \in ToSet(log) : l.ix # at
      BY <1>1, <2>4, <2>5
    <3>. QED
      BY <2>5, <2>10, <3>1, <3>2 DEF IsTop
  <2>. QED
    BY <1>2, <1>5, <1>7, <2>6, <2>7, <2>8, <2>9, <2>11, IsToldNext
<1>10. IsTold'
  BY <1>9 DEF IsTold
<1>. QED
  BY <1>2, <1>6, <1>7, <1>8, <1>10 DEF RowsInv

(* A program ends: it returns, or fails together with those below it.      *)
LEMMA ReturnIsTold == IInv /\ RowsInv /\ Return => RowsInv'
<1>. SUFFICES ASSUME IInv, RowsInv, Return PROVE RowsInv'
  OBVIOUS
<1>. DEFINE w == End("success")
            line == EndOf("success", Last(frames))
<1>1. /\ at \in 1 .. Len(tx) /\ frames \in Seq(Logging) /\ err = 0 /\ frames # <<>> /\ Len(tx) \in Nat
      /\ Write(w) /\ frames' = Front(frames) /\ UNCHANGED <<tx, err, limit>>
      /\ at' = IF Len(frames) = 1 THEN at + 1 ELSE at
  BY DEF IInv, TypeOK, RunsInstruction, Return, Running
<1>2. /\ Len(frames') = Len(frames) - 1 /\ Len(frames) \in Nat \ {0}
      /\ frames' = <<>> <=> Len(frames) = 1
  BY <1>1, FrontOf
<1>3. Started(w) /\ w.log # <<>>
  BY <1>1, EndIsStarted
<1>4. log' = w.log /\ written' = w.written
  BY <1>1 DEF Write
<1>. HIDE DEF w, line
<1>5. Started(Logged)'
  BY <1>3, <1>4 DEF Started, Logged
<1>6. ASSUME Attributable' PROVE IsTold'
  <2>1. Truncated \notin ToSet(w.log)
    BY <1>4, <1>6 DEF Attributable, truncated
  <2>2. Truncated \notin ToSet(log)
    BY <1>1, <2>1, EndIsWhole DEF w
  <2>3. PICK own : Told(log, own) /\ Follows(own)
    BY <1>1, <1>6, <2>2 DEF RowsInv, IsTold, Attributable, truncated, programs
  <2>4. /\ Told(w.log, own) /\ ParseOf(w.log).depth = Len(frames) - 1
        /\ ToSet(w.log) = ToSet(log) \cup {Consumed, line}
        /\ line.kind = "success"
        /\ ~IsFailure(Consumed) /\ (IsTop(Consumed, at) <=> Len(frames) = 1)
    BY <1>1, <2>1, <2>3, EndIsTold DEF w, line
  <2>5. /\ own # <<>> /\ Last(own) = at
        /\ \A l \in ToSet(log) : ~IsTop(l, at)
        /\ \A i \in 1 .. Len(tx) : i < at /\ tx[i].program \in Logging => \E k \in 1 .. Len(own) : own[k] = i
        /\ \A k \in 1 .. Len(own) : own[k] <= at
        /\ \A l \in ToSet(log) : ~IsFailure(l)
    BY <1>1, <2>3 DEF Follows
  <2>6. own \in Seq(1 .. Len(tx)) /\ Len(own) \in 1 .. Len(own) /\ own[Len(own)] = at
        /\ \A k \in 1 .. Len(own) : own[k] \in Nat
    BY <2>3, <2>5 DEF Told, Last
  <2>7. \A l \in ToSet(w.log) : ~IsFailure(l)
    BY <2>4, <2>5 DEF IsFailure
  <2>8. frames' # <<>> => at' = at /\ \A l \in ToSet(w.log) : ~IsTop(l, at')
    <3>1. ~IsTop(line, at)
      BY <2>4 DEF IsTop
    <3>. QED
      BY <1>1, <1>2, <2>4, <2>5, <3>1
  <2>9. frames' = <<>> => ParseOf(w.log).depth = 0 /\ at' = at + 1
    BY <1>1, <1>2, <2>4
  <2>10. at' \in {at, at + 1}
    BY <1>1
  <2>11. ASSUME NEW i \in 1 .. Len(tx), i < at', tx[i].program \in Logging
         PROVE  \E k \in 1 .. Len(own) : own[k] = i
    BY <1>1, <2>5, <2>6, <2>10, <2>11
  <2>12. \A k \in 1 .. Len(own) : own[k] <= at' /\ (at' = at + 1 => own[k] < at')
    BY <1>1, <2>5, <2>6, <2>10
  <2>13. err' = 0 /\ ~(err' > 0) /\ UNCHANGED tx
    BY <1>1
  <2>14. frames' = <<>> => ParseOf(w.log).depth = 0 /\ \A k \in 1 .. Len(own) : own[k] < at'
    BY <2>9, <2>12
  <2>15. frames' # <<>> =>
           /\ ParseOf(w.log).depth = Len(frames')
           /\ own # <<>> /\ Last(own) = at'
           /\ \A l \in ToSet(w.log) : ~IsTop(l, at')
    BY <1>2, <2>4, <2>5, <2>8
  <2>. QED
    BY <1>4, <2>4, <2>7, <2>11, <2>12, <2>13, <2>14, <2>15, IsToldNext
<1>7. IsTold'
  BY <1>6 DEF IsTold
<1>. QED
  BY <1>1, <1>3, <1>4, <1>5, <1>7 DEF RowsInv

LEMMA FailureIsTold ==
  ASSUME IInv, RowsInv, NEW w, w = End("failed") \/ w = LogLine(End("success"), Line("verify")),
         w = End("failed") \/ err = 0,
         err # -1, frames # <<>>, Write(w), frames' = Front(frames), err' = IF err = 0 THEN at ELSE err,
         UNCHANGED <<tx, at, limit>>
  PROVE  RowsInv'
<1>. DEFINE verify == Line("verify")
<1>1. /\ at \in 1 .. Len(tx) /\ frames \in Seq(Logging) /\ Len(tx) \in Nat /\ limit \in Nat \ 0 .. 2
      /\ err \in 0 .. Len(tx) /\ at \in Nat
  BY BoundsAssumption DEF IInv, TypeOK, RunsInstruction
<1>2. /\ Len(frames') = Len(frames) - 1 /\ Len(frames) \in Nat \ {0}
      /\ frames' = <<>> <=> Len(frames) = 1
  BY <1>1, FrontOf
<1>3. verify \in LogEntry /\ verify.kind = "verify" /\ verify.ix = at
  BY <1>1, LinesAreEntries DEF Line
<1>. HIDE DEF verify
<1>4. Started(w) /\ w.log # <<>>
  <2>1. CASE w = End("failed")
    BY <2>1, EndIsStarted
  <2>2. CASE w = LogLine(End("success"), verify)
    <3>1. Started(End("success")) /\ End("success").log # <<>>
      BY EndIsStarted
    <3>2. verify.kind # "truncated"
      BY <1>3
    <3>. QED
      BY <1>1, <1>3, <2>2, <3>1, <3>2, LineIsStarted
  <2>. QED
    BY <2>1, <2>2 DEF verify
<1>5. log' = w.log /\ written' = w.written
  BY DEF Write
<1>6. Started(Logged)'
  BY <1>4, <1>5 DEF Started, Logged
<1>7. ASSUME Attributable' PROVE IsTold'
  <2>1. Truncated \notin ToSet(w.log)
    BY <1>5, <1>7 DEF Attributable, truncated
  <2>2. ASSUME NEW own, Told(log, own), Follows(own)
        PROVE  \E line \in LogEntry :
                 /\ Told(w.log, own) /\ ParseOf(w.log).depth = Len(frames) - 1
                 /\ line \in ToSet(w.log) /\ line.ix = at /\ IsFailure(line)
                 /\ \A l \in ToSet(w.log) :
                      \/ l \in ToSet(log)
                      \/ l.ix = at /\ (IsTop(l, at) => Len(frames) = 1)
    <3>1. CASE w = End("failed")
      <4>. DEFINE line == EndOf("failed", Last(frames))
      <4>1. /\ Told(w.log, own) /\ ParseOf(w.log).depth = Len(frames) - 1
            /\ ToSet(w.log) = ToSet(log) \cup {Consumed, line}
            /\ line.ix = at /\ line.kind = "failed"
            /\ IsTop(Consumed, at) => Len(frames) = 1
        BY <2>1, <2>2, <3>1, EndIsTold
      <4>2. line \in LogEntry
        BY EndIsStarted
      <4>. HIDE DEF line
      <4>3. IsFailure(line) /\ ~IsTop(line, at) /\ Consumed.ix = at
        BY <4>1 DEF IsFailure, IsTop, Consumed
      <4>4. \A l \in ToSet(w.log) :
              \/ l \in ToSet(log)
              \/ l.ix = at /\ (IsTop(l, at) => Len(frames) = 1)
        BY <4>1, <4>3
      <4>. QED
        BY <4>1, <4>2, <4>3, <4>4
    <3>2. CASE w = LogLine(End("success"), verify)
      <4>. DEFINE line == EndOf("success", Last(frames))
                  v == End("success")
      <4>1. v \in [log : Seq(LogEntry), written : Nat] /\ v.log \in Seq(LogEntry)
        BY EndIsStarted DEF Started
      <4>. HIDE DEF v
      <4>2. w.log = Append(v.log, verify) /\ Truncated \notin ToSet(v.log)
        <5>1. verify.kind # "truncated"
          BY <1>3
        <5>. QED
          BY <1>3, <2>1, <3>2, <4>1, <5>1, LineIsThere DEF v
      <4>3. /\ Told(v.log, own) /\ ParseOf(v.log).depth = Len(frames) - 1
            /\ ToSet(v.log) = ToSet(log) \cup {Consumed, line} /\ ParseOf(v.log) \in Parse
            /\ line.ix = at /\ line.kind = "success"
            /\ IsTop(Consumed, at) => Len(frames) = 1
        BY <2>2, <4>2, EndIsTold DEF v
      <4>. HIDE DEF line
      <4>4. Told(w.log, own) /\ ParseOf(w.log).depth = Len(frames) - 1
        <5>1. own # <<>> /\ Last(own) = at
          BY <2>2 DEF Follows
        <5>2. verify.kind # "truncated" /\ verify.kind # "consumed" /\ verify.kind # "invoke"
          BY <1>3
        <5>3. ParseOf(v.log).depth >= 0
          BY <1>2, <4>3
        <5>4. DepthAfter(ParseOf(v.log).depth, verify) = Len(frames) - 1
          BY <1>3, <4>3 DEF DepthAfter
        <5>. QED
          BY <1>3, <4>1, <4>2, <4>3, <5>1, <5>2, <5>3, <5>4, SaidIsTold
      <4>5. ToSet(w.log) = ToSet(log) \cup {Consumed, line, verify}
        <5>1. ToSet(w.log) = ToSet(v.log) \cup {verify}
          BY <1>3, <4>1, <4>2, SetOfMore
        <5>. QED
          BY <4>3, <5>1
      <4>6. IsFailure(verify) /\ ~IsTop(verify, at) /\ ~IsTop(line, at) /\ Consumed.ix = at
        BY <1>3, <4>3 DEF IsFailure, IsTop, Consumed
      <4>7. \A l \in ToSet(w.log) :
              \/ l \in ToSet(log)
              \/ l.ix = at /\ (IsTop(l, at) => Len(frames) = 1)
        BY <1>3, <4>3, <4>5, <4>6
      <4>. QED
        BY <1>3, <4>4, <4>5, <4>6, <4>7
    <3>. QED
      BY <3>1, <3>2 DEF verify
  <2>3. Truncated \notin ToSet(log)
    <3>1. CASE w = End("failed")
      BY <2>1, <3>1, EndIsWhole
    <3>2. CASE w = LogLine(End("success"), verify)
      <4>1. End("success") \in [log : Seq(LogEntry), written : Nat]
        BY EndIsStarted DEF Started
      <4>2. verify.kind # "truncated"
        BY <1>3
      <4>3. Truncated \notin ToSet(End("success").log)
        BY <1>3, <2>1, <3>2, <4>1, <4>2, LineIsThere
      <4>. QED
        BY <4>3, EndIsWhole
    <3>. QED
      BY <3>1, <3>2 DEF verify
  <2>4. PICK own : Told(log, own) /\ Follows(own)
    BY <1>7, <2>3 DEF RowsInv, IsTold, Attributable, truncated, programs
  <2>5. PICK line \in LogEntry :
          /\ Told(w.log, own) /\ ParseOf(w.log).depth = Len(frames) - 1
          /\ line \in ToSet(w.log) /\ line.ix = at /\ IsFailure(line)
          /\ \A l \in ToSet(w.log) :
               \/ l \in ToSet(log)
               \/ l.ix = at /\ (IsTop(l, at) => Len(frames) = 1)
    BY <2>2, <2>4
  <2>6. /\ own # <<>> /\ Last(own) = at
        /\ \A l \in ToSet(log) : ~IsTop(l, at)
        /\ \A i \in 1 .. Len(tx) : i < at /\ tx[i].program \in Logging => \E k \in 1 .. Len(own) : own[k] = i
        /\ \A k \in 1 .. Len(own) : own[k] <= at
        /\ \A l \in ToSet(log) : IsFailure(l) => err > 0 /\ l.ix = err
        /\ err > 0 => err = at
    BY <2>4 DEF Follows
  <2>7. err' = at
    BY <1>1, <2>6
  <2>8. \A l \in ToSet(w.log) : IsFailure(l) => l.ix = at
    BY <1>1, <2>5, <2>6
  <2>9. frames' # <<>> => \A l \in ToSet(w.log) : ~IsTop(l, at)
    BY <1>2, <2>5, <2>6
  <2>10. err' > 0 /\ err' # 0 /\ at <= Len(tx)
    BY <1>1, <2>7
  <2>. QED
    BY <1>2, <1>5, <2>5, <2>6, <2>7, <2>8, <2>9, <2>10, IsToldNext
<1>8. IsTold'
  BY <1>7 DEF IsTold
<1>9. err' # -1
  BY <1>1
<1>. QED
  BY <1>4, <1>5, <1>6, <1>8, <1>9 DEF RowsInv
(* A step that writes nothing: a precompile, a failure of the transaction  *)
(* itself, or no step at all.                                              *)
LEMMA QuietIsTold ==
  ASSUME IInv, RowsInv, UNCHANGED <<tx, frames, log, limit, written>>,
         \/ UNCHANGED <<at, err>>
         \/ /\ Between /\ tx[at].program \in Precompile
            /\ (at' = at + 1 /\ err' = err) \/ (at' = at /\ err' = at)
         \/ err = 0 /\ frames = <<>> /\ at' = at /\ err' = -1
  PROVE  RowsInv'
<1>1. Started(Logged)'
  BY DEF RowsInv, Started, Logged
<1>2. at \in Nat /\ Len(tx) \in Nat /\ err \in -1 .. Len(tx) /\ at >= 1
  BY DEF IInv, TypeOK
<1>3. (frames' # <<>> => log' # <<>>) /\ (err' = -1 => frames' = <<>>)
  BY <1>2 DEF RowsInv, Between
<1>4. ASSUME Attributable' PROVE IsTold'
  <2>1. PICK own : Told(log, own) /\ Follows(own)
    BY <1>4 DEF RowsInv, IsTold, Attributable, truncated, programs
  <2>2. own \in Seq(1 .. Len(tx)) /\ \A k \in 1 .. Len(own) : own[k] \in Nat
    BY <2>1 DEF Told
  <2>3. CASE UNCHANGED <<at, err>>
    <3>1. Follows(own)'
      BY <2>1, <2>3 DEF Follows, Between
    <3>2. Told(log, own)'
      BY <2>1, ToldNext
    <3>. QED
      BY <3>1, <3>2 DEF IsTold
  <2>4. CASE /\ Between /\ tx[at].program \in Precompile
             /\ (at' = at + 1 /\ err' = err) \/ (at' = at /\ err' = at)
    <3>1. /\ err = 0 /\ frames = <<>> /\ at <= Len(tx) /\ ParseOf(log).depth = 0
          /\ tx[at].program \notin Logging /\ frames' = <<>>
          /\ \A i \in 1 .. Len(tx) : i < at /\ tx[i].program \in Logging => \E k \in 1 .. Len(own) : own[k] = i
          /\ \A k \in 1 .. Len(own) : own[k] < at
          /\ \A l \in ToSet(log) : ~IsFailure(l)
      BY <2>1, <2>4, ProgramsAssumption DEF Follows, Between
    <3>2. \A i \in 1 .. Len(tx) : i < at' /\ tx[i].program \in Logging => \E k \in 1 .. Len(own) : own[k] = i
      <4>1. \A i \in 1 .. Len(tx) : i < at' => i < at \/ i = at
        BY <1>2, <2>4
      <4>. QED
        BY <3>1, <4>1
    <3>3. \A k \in 1 .. Len(own) : own[k] < at' /\ own[k] <= at'
      BY <1>2, <2>2, <2>4, <3>1
    <3>4. err' > 0 => err' = at' /\ at' <= Len(tx) /\ tx[err'].program \in Precompile \cup Native
      BY <1>2, <2>4, <3>1
    <3>. QED
      BY <2>1, <3>1, <3>2, <3>3, <3>4, IsToldNext
  <2>5. CASE err = 0 /\ frames = <<>> /\ at' = at /\ err' = -1
    <3>1. /\ frames' = <<>> /\ ~(err' > 0) /\ err' # 0
          /\ \A i \in 1 .. Len(tx) : i < at' /\ tx[i].program \in Logging => \E k \in 1 .. Len(own) : own[k] = i
          /\ \A k \in 1 .. Len(own) : own[k] <= at'
          /\ \A l \in ToSet(log) : ~IsFailure(l)
      BY <2>1, <2>5 DEF Follows
    <3>. QED
      BY <2>1, <3>1, IsToldNext
  <2>. QED
    BY <2>3, <2>4, <2>5
<1>5. IsTold'
  BY <1>4 DEF IsTold
<1>. QED
  BY <1>1, <1>3, <1>5 DEF RowsInv

(* A native program logs nothing, a line, or a line and that it succeeded. *)
LEMMA NativeIsTold == IInv /\ RowsInv /\ RunNative => RowsInv'
<1>. SUFFICES ASSUME IInv, RowsInv, RunNative PROVE RowsInv'
  OBVIOUS
<1>. DEFINE line == Line("text")
            text == LogLine(Logged, line)
            last == EndOf("success", tx[at].program)
            more == LogLine(text, last)
<1>1. /\ limit \in Nat \ 0 .. 2 /\ at \in Nat /\ log \in Seq(LogEntry) /\ Logged.log = log
      /\ at \in 1 .. Len(tx) /\ Len(tx) \in Nat
  BY BoundsAssumption DEF IInv, TypeOK, Logged, RunNative, Between
<1>2. /\ tx[at].program \in Native /\ tx[at].program \notin Logging
      /\ err = 0 /\ frames = <<>> /\ Between /\ frames' = <<>> /\ UNCHANGED <<tx, limit>>
      /\ Write(Logged) \/ Write(text) \/ Write(more)
      /\ (at' = at + 1 /\ err' = 0) \/ (at' = at /\ err' = at)
  BY ProgramsAssumption DEF RunNative, Between
<1>3. /\ line \in LogEntry /\ line.kind = "text" /\ line.ix = at
      /\ last \in LogEntry /\ last.kind = "success" /\ last.ix = at
  BY <1>1, <1>2, LinesAreEntries DEF Line, EndOf, LogEntry
<1>. HIDE DEF line, last
<1>4. Started(Logged) /\ Logged \in [log : Seq(LogEntry), written : Nat] /\ ParseOf(log) \in Parse
  BY <1>1 DEF RowsInv, Started
<1>5. line.kind # "truncated" /\ line.kind \in {"invoke", "text"} /\ last.kind # "truncated"
  BY <1>3
<1>6. Started(text) /\ text.log # <<>>
  BY <1>1, <1>3, <1>4, <1>5, LineIsStarted
<1>. HIDE DEF text
<1>7. Started(more)
  BY <1>1, <1>3, <1>5, <1>6, LineIsStarted
<1>. HIDE DEF more
<1>8. Started(Logged)'
  <2>1. ASSUME NEW w, Started(w), Write(w) PROVE Started(Logged)'
    BY <2>1 DEF Started, Logged, Write
  <2>. QED
    BY <1>2, <1>4, <1>6, <1>7, <2>1
<1>9. err' # -1
  BY <1>1, <1>2
<1>10. ASSUME Attributable' PROVE IsTold'
  <2>1. at = Len(tx)
    <3>1. \A i \in 1 .. Len(tx) - 1 : tx[i].program \notin Native
      <4>1. tx' = tx /\ DOMAIN tx = 1 .. Len(tx)
        BY <1>2 DEF IInv, TypeOK
      <4>2. \A i \in 1 .. Len(tx) - 1 : [k \in DOMAIN tx |-> tx[k].program][i] \notin Native
        BY <1>10, <4>1 DEF Attributable, programs
      <4>3. \A i \in 1 .. Len(tx) - 1 : i \in DOMAIN tx
        BY <1>1, <4>1
      <4>. QED
        BY <4>2, <4>3
    <3>. QED
      BY <1>1, <1>2, <3>1
  (* whichever lines there are, and whether the program has an entry *)
  <2>2. ASSUME NEW logs, NEW own, log' = logs, Told(logs, own),
               \A i \in 1 .. Len(tx) : i < at /\ tx[i].program \in Logging => \E k \in 1 .. Len(own) : own[k] = i,
               \A k \in 1 .. Len(own) : own[k] <= at,
               \A l \in ToSet(logs) : ~IsFailure(l)
        PROVE  IsTold'
    <3>1. \A i \in 1 .. Len(tx) : i < at' /\ tx[i].program \in Logging => \E k \in 1 .. Len(own) : own[k] = i
      <4>1. \A i \in 1 .. Len(tx) : i < at' => i < at \/ i = at
        BY <1>1, <1>2
      <4>. QED
        BY <1>2, <2>2, <4>1
    <3>2. \A k \in 1 .. Len(own) : own[k] <= at'
      <4>1. \A k \in 1 .. Len(own) : own[k] \in Nat
        BY <2>2 DEF Told
      <4>. QED
        BY <1>1, <1>2, <2>2, <4>1
    <3>3. ~(err' = 0 /\ at' <= Len(tx))
      BY <1>1, <1>2, <2>1
    <3>4. err' > 0 => err' = at' /\ at' <= Len(tx) /\ tx[err'].program \in Precompile \cup Native
      BY <1>1, <1>2
    <3>. QED
      BY <1>2, <2>2, <3>1, <3>2, <3>3, <3>4, IsToldNext
  <2>3. ASSUME Truncated \notin ToSet(log)
        PROVE  \E own :
                 /\ Told(log, own) /\ ParseOf(log).depth = 0
                 /\ \A i \in 1 .. Len(tx) : i < at /\ tx[i].program \in Logging => \E k \in 1 .. Len(own) : own[k] = i
                 /\ \A k \in 1 .. Len(own) : own[k] < at /\ own[k] <= at
                 /\ \A l \in ToSet(log) : ~IsFailure(l)
    <3>1. PICK own : Told(log, own) /\ Follows(own)
      BY <1>2, <1>10, <2>3 DEF RowsInv, IsTold, Attributable, truncated, programs
    <3>. QED
      BY <1>2, <3>1 DEF Follows
  <2>4. CASE Write(Logged)
    <3>1. log' = log
      BY <1>1, <2>4 DEF Write
    <3>2. Truncated \notin ToSet(log)
      BY <1>10, <3>1 DEF Attributable, truncated
    <3>. QED
      BY <2>2, <2>3, <3>1, <3>2
  <2>5. ASSUME Truncated \notin ToSet(text.log)
        PROVE  \E own :
                 /\ Told(text.log, own) /\ ParseOf(text.log).depth = 1
                 /\ own # <<>> /\ Last(own) = at
                 /\ \A i \in 1 .. Len(tx) : i < at /\ tx[i].program \in Logging => \E k \in 1 .. Len(own) : own[k] = i
                 /\ \A k \in 1 .. Len(own) : own[k] <= at
                 /\ \A l \in ToSet(text.log) : ~IsFailure(l)
    <3>1. text.log = Append(log, line) /\ Truncated \notin ToSet(log)
      BY <1>1, <1>3, <1>4, <1>5, <2>5, LineIsThere DEF text
    <3>2. PICK own :
            /\ Told(log, own) /\ ParseOf(log).depth = 0
            /\ \A i \in 1 .. Len(tx) : i < at /\ tx[i].program \in Logging => \E k \in 1 .. Len(own) : own[k] = i
            /\ \A k \in 1 .. Len(own) : own[k] < at /\ own[k] <= at
            /\ \A l \in ToSet(log) : ~IsFailure(l)
      BY <2>3, <3>1
    <3>. DEFINE mine == Append(own, at)
                n == Len(own)
    <3>3. own \in Seq(1 .. Len(tx)) /\ n \in Nat
      BY <3>2 DEF Told
    <3>4. Told(text.log, mine) /\ ParseOf(text.log).depth = 1
      BY <1>1, <1>2, <1>3, <1>4, <3>1, <3>2, NewIsTold
    <3>5. /\ mine \in Seq(1 .. Len(tx)) /\ Len(mine) = n + 1 /\ mine[n + 1] = at
          /\ \A k \in 1 .. n : mine[k] = own[k]
      BY <1>1, <3>3
    <3>. HIDE DEF mine
    <3>6. Last(mine) = at /\ mine # <<>>
      BY <3>3, <3>5 DEF Last
    <3>7. ASSUME NEW i \in 1 .. Len(tx), i < at, tx[i].program \in Logging
          PROVE  \E k \in 1 .. Len(mine) : mine[k] = i
      <4>1. PICK k \in 1 .. n : own[k] = i
        BY <3>2, <3>7
      <4>2. k \in 1 .. Len(mine) /\ mine[k] = i
        BY <3>3, <3>5, <4>1
      <4>. QED
        BY <4>2
    <3>8. \A k \in 1 .. Len(mine) : mine[k] <= at
      <4>1. TAKE k \in 1 .. Len(mine)
      <4>2. CASE k \in 1 .. n
        BY <3>2, <3>5, <4>2
      <4>3. CASE k = n + 1
        BY <1>1, <3>5, <4>3
      <4>4. k \in 1 .. n \/ k = n + 1
        BY <3>3, <3>5
      <4>. QED
        BY <4>2, <4>3, <4>4
    <3>9. \A l \in ToSet(text.log) : ~IsFailure(l)
      <4>1. ToSet(text.log) = ToSet(log) \cup {line} /\ ~IsFailure(line)
        BY <1>1, <1>3, <3>1, SetOfMore DEF IsFailure
      <4>. QED
        BY <3>2, <4>1
    <3>. QED
      BY <3>4, <3>6, <3>7, <3>8, <3>9
  <2>6. CASE Write(text)
    <3>1. log' = text.log
      BY <2>6 DEF Write
    <3>2. Truncated \notin ToSet(text.log)
      BY <1>10, <3>1 DEF Attributable, truncated
    <3>3. PICK own :
            /\ Told(text.log, own)
            /\ \A i \in 1 .. Len(tx) : i < at /\ tx[i].program \in Logging => \E k \in 1 .. Len(own) : own[k] = i
            /\ \A k \in 1 .. Len(own) : own[k] <= at
            /\ \A l \in ToSet(text.log) : ~IsFailure(l)
      BY <2>5, <3>2
    <3>. QED
      BY <2>2, <3>1, <3>3
  <2>7. CASE Write(more)
    <3>1. log' = more.log
      BY <2>7 DEF Write
    <3>2. Truncated \notin ToSet(more.log)
      BY <1>10, <3>1 DEF Attributable, truncated
    <3>3. /\ text \in [log : Seq(LogEntry), written : Nat] /\ text.log \in Seq(LogEntry)
          /\ ParseOf(text.log) \in Parse
      BY <1>6 DEF Started
    <3>4. more.log = Append(text.log, last) /\ Truncated \notin ToSet(text.log)
      BY <1>3, <1>5, <3>2, <3>3, LineIsThere DEF more
    <3>5. PICK own :
            /\ Told(text.log, own) /\ ParseOf(text.log).depth = 1
            /\ own # <<>> /\ Last(own) = at
            /\ \A i \in 1 .. Len(tx) : i < at /\ tx[i].program \in Logging => \E k \in 1 .. Len(own) : own[k] = i
            /\ \A k \in 1 .. Len(own) : own[k] <= at
            /\ \A l \in ToSet(text.log) : ~IsFailure(l)
      BY <2>5, <3>4
    <3>6. Told(more.log, own)
      <4>1. last.kind # "invoke" /\ last.kind # "consumed" /\ ParseOf(text.log).depth >= 1
        BY <1>3, <3>5
      <4>. QED
        BY <1>3, <1>5, <3>3, <3>4, <3>5, <4>1, SaidIsTold
    <3>7. \A l \in ToSet(more.log) : ~IsFailure(l)
      <4>1. ToSet(more.log) = ToSet(text.log) \cup {last} /\ ~IsFailure(last)
        BY <1>3, <3>3, <3>4, SetOfMore DEF IsFailure
      <4>. QED
        BY <3>5, <4>1
    <3>. QED
      BY <2>2, <3>1, <3>5, <3>6, <3>7
  <2>. QED
    BY <1>2, <2>4, <2>6, <2>7
<1>11. IsTold'
  BY <1>10 DEF IsTold
<1>. QED
  BY <1>2, <1>8, <1>9, <1>11 DEF RowsInv

LEMMA NextIsTold == IInv /\ RowsInv /\ [Next]_vars => RowsInv'
<1>. SUFFICES ASSUME IInv, RowsInv, [Next]_vars PROVE RowsInv'
  OBVIOUS
<1>1. at \in Nat /\ frames \in Seq(Logging) /\ (frames # <<>> => at <= Len(tx))
  BY DEF IInv, TypeOK, RunsInstruction
<1>2. ASSUME NEW program \in Logging, Cpi(program) PROVE RowsInv'
  <2>. DEFINE line == InvokeOf(program, Len(frames) + 1)
  <2>1. /\ err = 0 /\ frames # <<>> /\ frames' = Append(frames, program)
        /\ Write(LogLine(Logged, line)) /\ UNCHANGED <<tx, at, err, limit>>
    BY <1>2 DEF Cpi, Running
  <2>2. line \in LogEntry /\ line.kind = "invoke" /\ line.depth = Len(frames) + 1 /\ line.ix = at
    BY <1>1 DEF InvokeOf, LogEntry
  <2>. HIDE DEF line
  <2>3. Len(frames) \in Nat /\ Len(frames) # 0 /\ Len(frames') = Len(frames) + 1 /\ frames' # <<>>
    BY <1>1, <2>1
  <2>4. line.depth # 1 /\ DepthAfter(Len(frames), line) = Len(frames) + 1
    BY <2>2, <2>3 DEF DepthAfter
  <2>5. line.kind \in {"log", "data", "invoke"}
    BY <2>2
  <2>. QED
    BY <2>1, <2>2, <2>3, <2>4, <2>5, LineIsTold
<1>3. CASE Say
  <2>1. ASSUME NEW line \in LogEntry, line.kind \in {"log", "data"}, line.ix = at,
               Write(LogLine(Logged, line))
        PROVE  RowsInv'
    <3>1. err = 0 /\ frames # <<>> /\ UNCHANGED <<tx, at, frames, err, limit>>
      BY <1>3 DEF Say, Running
    <3>2. Len(frames') = DepthAfter(Len(frames), line) /\ line.kind # "invoke"
      BY <2>1, <3>1 DEF DepthAfter
    <3>. QED
      BY <2>1, <3>1, <3>2, LineIsTold
  <2>2. CASE Write(LogLine(Logged, Line("log")))
    <3>1. Line("log") \in LogEntry /\ Line("log").kind = "log" /\ Line("log").ix = at
      BY <1>1, LinesAreEntries DEF Line
    <3>. QED
      BY <2>1, <2>2, <3>1
  <2>3. ASSUME NEW bytes \in Bytes, Write(LogLine(Logged, DataOf(bytes))) PROVE RowsInv'
    <3>1. frames # <<>> /\ Last(frames) \in Logging
      BY <1>1, <1>3 DEF Say, Running, Last
    <3>2. DataOf(bytes) \in LogEntry /\ DataOf(bytes).kind = "data" /\ DataOf(bytes).ix = at
      BY <1>1, <3>1 DEF DataOf, LogEntry
    <3>. QED
      BY <2>1, <2>3, <3>2
  <2>. QED
    BY <1>3, <2>2, <2>3 DEF Say
<1>4. CASE FailVerification
  <2>1. /\ err = 0 /\ frames # <<>> /\ frames' = Front(frames) /\ err' = at
        /\ Write(LogLine(End("success"), Line("verify"))) /\ UNCHANGED <<tx, at, limit>>
    BY <1>4 DEF FailVerification, Running
  <2>. DEFINE w == LogLine(End("success"), Line("verify"))
  <2>2. Write(w) /\ w = LogLine(End("success"), Line("verify"))
    BY <2>1
  <2>. HIDE DEF w
  <2>. QED
    BY <2>1, <2>2, FailureIsTold
<1>5. CASE Fail
  <2>1. /\ err = 0 /\ frames # <<>> /\ frames' = Front(frames) /\ err' = at
        /\ Write(End("failed")) /\ UNCHANGED <<tx, at, limit>>
    BY <1>5 DEF Fail, Running
  <2>. DEFINE w == End("failed")
  <2>2. Write(w) /\ w = End("failed")
    BY <2>1
  <2>. HIDE DEF w
  <2>. QED
    BY <2>1, <2>2, FailureIsTold
<1>6. CASE Unwind
  <2>1. /\ err # 0 /\ frames # <<>> /\ frames' = Front(frames) /\ err' = err
        /\ Write(End("failed")) /\ UNCHANGED <<tx, at, limit>>
    BY <1>6 DEF Unwind
  <2>. DEFINE w == End("failed")
  <2>2. Write(w) /\ w = End("failed")
    BY <2>1
  <2>. HIDE DEF w
  <2>3. err # -1
    BY <2>1 DEF RowsInv
  <2>. QED
    BY <2>1, <2>2, <2>3, FailureIsTold
<1>7. CASE RunPrecompile
  BY <1>7, QuietIsTold DEF RunPrecompile
<1>8. CASE FailTransaction
  BY <1>8, QuietIsTold DEF FailTransaction
<1>9. CASE UNCHANGED vars
  BY <1>9, QuietIsTold DEF vars
<1>. QED
  BY <1>2, <1>3, <1>4, <1>5, <1>6, <1>7, <1>8, <1>9, InvokeIsTold, ReturnIsTold, NativeIsTold DEF Next
-------------------------------------------------------------------------------
(* The entry after the loop: a failure that was not logged is put on the   *)
(* entry it is counted to.                                                 *)
SameLines(a, b) ==
  /\ {l.line : l \in b.logs} \ {NoData} = {l.line : l \in a.logs} \ {NoData}
  /\ (\A l \in a.logs : l.indent >= 1) => (\A l \in b.logs : l.indent >= 1)
  /\ a.logs # {} => b.logs # {}

LEMMA RuntimeErrorDoes ==
  ASSUME NEW p \in Parse, p.entries # <<>>, NEW error \in Nat
  PROVE  LET r == RuntimeError(p, error)
             n == Len(p.entries)
         IN  /\ r.threw = p.threw /\ Len(r.entries) = n
             /\ \A j \in 1 .. n :
                  /\ SameProgram(p.entries[j], r.entries[j])
                  /\ SameLines(p.entries[j], r.entries[j])
                  /\ r.entries[j].computeUnits = p.entries[j].computeUnits
                  /\ r.entries[j].failed = TRUE <=> p.entries[j].failed = TRUE \/ (error = n /\ j = n)
<1>. DEFINE r == RuntimeError(p, error)
            n == Len(p.entries)
            f == SetFailed(p)
            s == AddLine(f, NoData, 1)
<1>1. /\ n \in 1 .. n /\ n \in Nat /\ n # 0 /\ p.entries \in Seq(Row)
      /\ \A j \in 1 .. n : p.entries[j] \in Row /\ p.entries[j].failed \in BOOLEAN
  <2>1. p.entries \in Seq(Row)
    BY DEF Parse
  <2>2. n \in 1 .. n /\ n \in Nat /\ n # 0 /\ \A j \in 1 .. n : p.entries[j] \in Row
    BY <2>1
  <2>3. \A a \in Row : a.failed \in BOOLEAN
    BY DEF Row
  <2>. QED
    BY <2>1, <2>2, <2>3
<1>2. \A a : SameLines(a, a)
  BY DEF SameLines
<1>3. \A a \in Row : SameProgram(a, a)
  BY DEF SameProgram
<1>4. CASE error = n /\ p.entries[n].failed = FALSE
  <2>1. r = s
    BY <1>1, <1>4 DEF RuntimeError
  <2>2. /\ LastChanged(p, f) /\ SameProgram(RowOf(p), RowOf(f)) /\ RowOf(f).logs = RowOf(p).logs
        /\ RowOf(f).computeUnits = RowOf(p).computeUnits /\ RowOf(f).failed = TRUE
    BY SetFailedDoes
  <2>. HIDE DEF f, r
  <2>3. f \in Parse /\ f.entries # <<>> /\ NoData \in LogEntry \cup {NoData} /\ 1 \in Int
    BY <1>1, <2>2 DEF LastChanged, Parse
  <2>4. /\ LastChanged(f, s) /\ SameProgram(RowOf(f), RowOf(s))
        /\ RowOf(s).logs = RowOf(f).logs \cup {[line |-> NoData, indent |-> 1]}
        /\ RowOf(s).computeUnits = RowOf(f).computeUnits /\ RowOf(s).failed = RowOf(f).failed
    BY <2>3, AddLineDoes
  <2>. HIDE DEF s
  <2>5. LastChanged(p, s)
    BY <2>2, <2>4, ChangedTwice
  <2>6. /\ Len(s.entries) = n /\ s.threw = p.threw
        /\ \A j \in 1 .. n : j # n => s.entries[j] = p.entries[j]
        /\ RowOf(p) = p.entries[n] /\ RowOf(s) = s.entries[n]
    BY <2>5 DEF LastChanged, RowOf
  <2>7. /\ SameProgram(p.entries[n], s.entries[n])
        /\ s.entries[n].computeUnits = p.entries[n].computeUnits /\ s.entries[n].failed = TRUE
        /\ s.entries[n].logs = p.entries[n].logs \cup {[line |-> NoData, indent |-> 1]}
    BY <2>2, <2>4, <2>6, SameAgain
  <2>8. SameLines(p.entries[n], s.entries[n])
    <3>. DEFINE x == [line |-> NoData, indent |-> 1]
                A == p.entries[n].logs
                B == s.entries[n].logs
    <3>1. x.line = NoData /\ x.indent = 1 /\ B = A \cup {x}
      BY <2>7
    <3>. HIDE DEF x, A, B
    <3>2. {l.line : l \in B} = {l.line : l \in A} \cup {NoData}
      BY <3>1
    <3>3. {l.line : l \in B} \ {NoData} = {l.line : l \in A} \ {NoData}
      BY <3>2
    <3>4. (\A l \in A : l.indent >= 1) => (\A l \in B : l.indent >= 1)
      BY <3>1
    <3>5. B # {}
      BY <3>1
    <3>. QED
      BY <3>3, <3>4, <3>5 DEF SameLines, A, B
  <2>9. ASSUME NEW j \in 1 .. n
        PROVE  /\ SameProgram(p.entries[j], s.entries[j])
               /\ SameLines(p.entries[j], s.entries[j])
               /\ s.entries[j].computeUnits = p.entries[j].computeUnits
               /\ s.entries[j].failed = TRUE <=> p.entries[j].failed = TRUE \/ (error = n /\ j = n)
    <3>1. CASE j = n
      BY <1>4, <2>7, <2>8, <3>1
    <3>2. CASE j # n
      BY <1>1, <1>2, <1>3, <2>6, <3>2
    <3>. QED
      BY <3>1, <3>2
  <2>. QED
    BY <2>1, <2>6, <2>9 DEF r
<1>5. CASE ~(error = n /\ p.entries[n].failed = FALSE)
  <2>1. r = p
    BY <1>1, <1>5 DEF RuntimeError
  <2>2. ASSUME NEW j \in 1 .. n
        PROVE  p.entries[j].failed = TRUE <=> p.entries[j].failed = TRUE \/ (error = n /\ j = n)
    BY <1>1, <1>5, <2>2
  <2>. QED
    BY <1>1, <1>2, <1>3, <2>1, <2>2
<1>. QED
  BY <1>1, <1>4, <1>5

(* Without a line there is at most an entry without lines.                 *)
LEMMA RuntimeErrorOfNothing ==
  ASSUME NEW p \in Parse, p.entries = <<>>, NEW error \in Nat
  PROVE  LET r == RuntimeError(p, error)
         IN  /\ r.threw = p.threw /\ Len(r.entries) \in Nat
             /\ \A j \in 1 .. Len(r.entries) : r.entries[j].invokedProgram = NoData /\ r.entries[j].logs = {}
<1>. DEFINE e == [Entry(NoData) EXCEPT !.failed = TRUE]
            q == Push(p, e)
<1>1. e \in Row /\ e.invokedProgram = NoData /\ e.logs = {} /\ e.failed = TRUE
  BY DEF Entry, Row
<1>. HIDE DEF e
<1>2. q.threw = p.threw /\ q.entries = <<e>>
  <2>1. Append(<<>>, e) = <<e>>
    OBVIOUS
  <2>. QED
    BY <1>1, <2>1, PushDoes
<1>. HIDE DEF q
<1>3. Len(q.entries) = 1 /\ q.entries[1] = e
  BY <1>2
<1>4. CASE error # 0
  <2>1. RuntimeError(p, error) = q
    <3>1. RuntimeError(p, error) = IF error # 0 /\ error = Len(q.entries) /\ ~q.entries[error].failed
                                     THEN AddLine(SetFailed(q), NoData, 1) ELSE q
      BY <1>4 DEF RuntimeError, q, e
    <3>2. ~(error # 0 /\ error = Len(q.entries) /\ ~q.entries[error].failed)
      BY <1>1, <1>3
    <3>. QED
      BY <3>1, <3>2
  <2>. QED
    BY <1>1, <1>2, <1>3, <2>1
<1>5. CASE error = 0
  <2>1. RuntimeError(p, error) = p
    BY <1>5 DEF RuntimeError
  <2>. QED
    BY <2>1
<1>. QED
  BY <1>4, <1>5

-------------------------------------------------------------------------------
(* Which instruction takes which entry.                                    *)
TakenNext(es, progs, t, i) ==
  IF t < Len(es) /\ Takes(progs[i], es[t + 1]) THEN t + 1 ELSE t

LEMMA TakenIsDefined ==
  ASSUME NEW es, NEW progs, NEW N \in Nat, Len(progs) = N
  PROVE  logIndex(es, progs) =
           [i \in 0 .. N |-> IF i = 0 THEN 0
                             ELSE TakenNext(es, progs, logIndex(es, progs)[i-1], i)]
<1>. DEFINE step(t, i) == TakenNext(es, progs, t, i)
            Is(f, M) == f = [i \in 0 .. M |-> IF i = 0 THEN 0 ELSE step(f[i-1], i)]
            S == {M \in Nat : \E f : Is(f, M)}
<1>. HIDE DEF step
<1>1. 0 \in S
  <2>1. Is([i \in 0 .. 0 |-> 0], 0)
    OBVIOUS
  <2>. QED
    BY <2>1
<1>2. ASSUME NEW M \in Nat, M \in S PROVE M + 1 \in S
  <2>1. PICK f : Is(f, M)
    BY <1>2
  <2>. DEFINE g == [i \in 0 .. M + 1 |-> IF i = M + 1 THEN step(f[M], M + 1) ELSE f[i]]
  <2>2. ASSUME NEW i \in 0 .. M + 1
        PROVE  g[i] = IF i = 0 THEN 0 ELSE step(g[i-1], i)
    <3>1. CASE i = M + 1
      <4>1. g[i - 1] = f[M]
        BY <3>1
      <4>. QED
        BY <3>1, <4>1
    <3>2. CASE i \in 1 .. M
      <4>1. g[i] = f[i] /\ g[i - 1] = f[i - 1]
        BY <3>2
      <4>. QED
        BY <3>2, <4>1, <2>1
    <3>3. CASE i = 0
      BY <3>3, <2>1
    <3>. QED
      BY <3>1, <3>2, <3>3
  <2>3. Is(g, M + 1)
    BY <2>2
  <2>. HIDE DEF g, Is
  <2>4. \E h : Is(h, M + 1)
    BY <2>3
  <2>. QED
    BY <2>4
<1>. HIDE DEF S
<1>3. N \in S
  BY <1>1, <1>2, Induction
<1>4. PICK f : Is(f, N)
  BY <1>3 DEF S
<1>. QED
  BY <1>4, Zenon DEF logIndex, step, TakenNext

(* Where the k-th entry is one that the instruction own[k] takes, and no   *)
(* other instruction takes an entry that is next, each has its own.        *)
InOrder(es, progs, N, own, m) ==
  /\ N \in Nat /\ Len(progs) = N
  /\ own \in Seq(1 .. N) /\ m \in Nat /\ Len(es) = m /\ Len(own) <= m
  /\ \A j, k \in 1 .. Len(own) : j < k => own[j] < own[k]
  /\ \A k \in 1 .. Len(own) : Takes(progs[own[k]], es[k])
  /\ \A i \in 1 .. N, k \in 1 .. m :
       (\A j \in 1 .. Len(own) : own[j] # i) /\ (k <= Len(own) => i < own[k]) => ~Takes(progs[i], es[k])

EachHasItsOwn(es, progs, N, own) ==
  \A i \in 1 .. N :
    /\ \A k \in 1 .. Len(own) : own[k] = i => rows(es, progs)[i] = es[k]
    /\ (\A k \in 1 .. Len(own) : own[k] # i) => rows(es, progs)[i] = NoData

LEMMA EachTakesItsOwn ==
  ASSUME NEW es, NEW progs, NEW N, NEW own, NEW m, InOrder(es, progs, N, own, m)
  PROVE  EachHasItsOwn(es, progs, N, own)
<1>. SUFFICES ASSUME N \in Nat, Len(progs) = N, own \in Seq(1 .. N), m \in Nat, Len(es) = m, Len(own) <= m,
                     \A j, k \in 1 .. Len(own) : j < k => own[j] < own[k],
                     \A k \in 1 .. Len(own) : Takes(progs[own[k]], es[k]),
                     \A i \in 1 .. N, k \in 1 .. m :
                       (\A j \in 1 .. Len(own) : own[j] # i) /\ (k <= Len(own) => i < own[k]) =>
                         ~Takes(progs[i], es[k])
              PROVE  \A i \in 1 .. N :
                       /\ \A k \in 1 .. Len(own) : own[k] = i => rows(es, progs)[i] = es[k]
                       /\ (\A k \in 1 .. Len(own) : own[k] # i) => rows(es, progs)[i] = NoData
  BY DEF InOrder, EachHasItsOwn
<1>. DEFINE n == Len(own)
            t == logIndex(es, progs)
            S == {i \in Nat : i <= N => t[i] \in 0 .. n /\ \A k \in 1 .. n : k <= t[i] <=> own[k] <= i}
<1>1. n \in Nat /\ \A k \in 1 .. n : own[k] \in 1 .. N /\ own[k] \in Nat
  OBVIOUS
<1>2. t = [i \in 0 .. N |-> IF i = 0 THEN 0 ELSE TakenNext(es, progs, t[i-1], i)]
  BY TakenIsDefined
<1>. HIDE DEF t, n
<1>3. ASSUME NEW i \in 1 .. N, NEW T \in 0 .. n, t[i-1] = T
      PROVE  /\ T < m /\ Takes(progs[i], es[T + 1]) => t[i] = T + 1
             /\ ~(T < m /\ Takes(progs[i], es[T + 1])) => t[i] = T
  <2>1. i \in 0 .. N /\ i # 0
    BY <1>3
  <2>2. t[i] = IF T < m /\ Takes(progs[i], es[T + 1]) THEN T + 1 ELSE T
    BY <1>2, <1>3, <2>1 DEF TakenNext
  <2>. QED
    BY <2>2
<1>4. 0 \in S
  <2>1. t[0] = 0 /\ \A k \in 1 .. n : ~(k <= 0) /\ ~(own[k] <= 0)
    BY <1>1, <1>2
  <2>. QED
    BY <1>1, <2>1
<1>5. \A j, k \in 1 .. n : j < k => own[j] < own[k]
  BY DEF n
<1>6. \A j, k \in 1 .. n : own[j] = own[k] => j = k
  <2>1. TAKE j, k \in 1 .. n
  <2>2. j < k \/ j = k \/ k < j
    BY <1>1
  <2>. QED
    BY <1>1, <1>5, <2>2
(* one instruction *)
<1>7. ASSUME NEW i \in 1 .. N, NEW T \in 0 .. n, t[i-1] = T,
             \A k \in 1 .. n : k <= T <=> own[k] <= i - 1
      PROVE  /\ \A k \in 1 .. n : own[k] = i => t[i] = T + 1 /\ T + 1 = k
             /\ (\A k \in 1 .. n : own[k] # i) => t[i] = T
  <2>1. ASSUME NEW k \in 1 .. n, own[k] = i PROVE t[i] = T + 1 /\ T + 1 = k
    <3>1. ~(k <= T)
      BY <1>1, <1>7, <2>1
    <3>2. T + 1 \in 1 .. n
      BY <1>1, <3>1
    <3>3. ~(own[T + 1] <= i - 1)
      BY <1>1, <1>7, <3>2
    <3>4. own[T + 1] >= i
      BY <1>1, <3>2, <3>3
    <3>5. ~(T + 1 < k)
      <4>1. T + 1 < k => own[T + 1] < own[k]
        BY <1>5, <2>1, <3>2
      <4>. QED
        BY <1>1, <2>1, <3>2, <3>4, <4>1
    <3>6. T + 1 = k
      BY <1>1, <3>1, <3>5
    <3>7. T < m /\ Takes(progs[i], es[T + 1])
      BY <1>1, <2>1, <3>6 DEF n
    <3>. QED
      BY <1>3, <1>7, <3>6, <3>7
  <2>2. ASSUME \A k \in 1 .. n : own[k] # i PROVE t[i] = T
    <3>1. ~(T < m /\ Takes(progs[i], es[T + 1]))
      <4>1. SUFFICES ASSUME T < m PROVE ~Takes(progs[i], es[T + 1])
        OBVIOUS
      <4>2. T + 1 \in 1 .. m
        BY <1>1, <4>1
      <4>3. T + 1 <= n => i < own[T + 1]
        <5>1. SUFFICES ASSUME T + 1 <= n PROVE i < own[T + 1]
          OBVIOUS
        <5>2. T + 1 \in 1 .. n
          BY <1>1, <5>1
        <5>3. ~(own[T + 1] <= i - 1) /\ own[T + 1] # i /\ own[T + 1] \in Nat
          BY <1>1, <1>7, <2>2, <5>2
        <5>. QED
          BY <5>3
      <4>. QED
        BY <2>2, <4>2, <4>3 DEF n
    <3>. QED
      BY <1>3, <1>7, <3>1
  <2>. QED
    BY <2>1, <2>2
<1>8. ASSUME NEW i \in Nat, i \in S PROVE i + 1 \in S
  <2>1. CASE i + 1 <= N
    <3>. DEFINE T == t[i]
                x == i + 1
    <3>1. x \in 1 .. N /\ x - 1 = i /\ T \in 0 .. n /\ \A k \in 1 .. n : k <= T <=> own[k] <= i
      BY <1>8, <2>1
    <3>. HIDE DEF T, x
    <3>2. /\ \A k \in 1 .. n : own[k] = x => t[x] = T + 1 /\ T + 1 = k
          /\ (\A k \in 1 .. n : own[k] # x) => t[x] = T
      BY <1>7, <3>1 DEF T
    <3>3. CASE \A k \in 1 .. n : own[k] # x
      <4>1. t[x] = T
        BY <3>2, <3>3
      <4>2. \A k \in 1 .. n : own[k] <= x <=> own[k] <= i
        BY <1>1, <3>1, <3>3
      <4>. QED
        BY <3>1, <4>1, <4>2 DEF x
    <3>4. ASSUME NEW k \in 1 .. n, own[k] = x PROVE i + 1 \in S
      <4>1. t[x] = k /\ k = T + 1
        BY <3>2, <3>4
      <4>2. ASSUME NEW j \in 1 .. n PROVE j <= k <=> own[j] <= x
        <5>1. j < k \/ j = k \/ k < j
          BY <1>1
        <5>2. (j < k => own[j] < own[k]) /\ (k < j => own[k] < own[j])
          BY <1>5
        <5>. QED
          BY <1>1, <3>4, <5>1, <5>2
      <4>3. t[x] \in 0 .. n
        BY <1>1, <4>1
      <4>. QED
        BY <4>1, <4>2, <4>3 DEF x
    <3>. QED
      BY <3>3, <3>4
  <2>2. CASE ~(i + 1 <= N)
    BY <2>2
  <2>. QED
    BY <2>1, <2>2
<1>. HIDE DEF S
<1>9. Nat \subseteq S
  BY <1>4, <1>8, Induction
<1>10. \A i \in 0 .. N : t[i] \in 0 .. n /\ \A k \in 1 .. n : k <= t[i] <=> own[k] <= i
  BY <1>9 DEF S
<1>11. ASSUME NEW i \in 1 .. N
       PROVE  /\ \A k \in 1 .. n : own[k] = i => rows(es, progs)[i] = es[k]
              /\ (\A k \in 1 .. n : own[k] # i) => rows(es, progs)[i] = NoData
  <2>. DEFINE T == t[i - 1]
  <2>1. i - 1 \in 0 .. N
    OBVIOUS
  <2>2. T \in 0 .. n /\ \A k \in 1 .. n : k <= T <=> own[k] <= i - 1
    BY <1>10, <2>1
  <2>. HIDE DEF T
  <2>3. /\ \A k \in 1 .. n : own[k] = i => t[i] = T + 1 /\ T + 1 = k
        /\ (\A k \in 1 .. n : own[k] # i) => t[i] = T
    BY <1>7, <2>2 DEF T
  <2>4. rows(es, progs)[i] = IF t[i] = t[i-1] THEN NoData ELSE es[t[i]]
    BY DEF rows, t
  <2>5. T + 1 # T
    BY <1>1, <2>2
  <2>. QED
    BY <2>3, <2>4, <2>5 DEF T
<1>. QED
  BY <1>11 DEF n
-------------------------------------------------------------------------------
(* An increasing sequence of instructions, where no instruction before one *)
(* is missing, has them at their own places.                               *)
LEMMA IncreasingIsAbove ==
  ASSUME NEW N \in Nat, NEW own \in Seq(1 .. N),
         \A j, k \in 1 .. Len(own) : j < k => own[j] < own[k]
  PROVE  \A k \in 1 .. Len(own) : k <= own[k]
<1>. DEFINE n == Len(own)
            S == {k \in Nat : k \in 1 .. n => k <= own[k]}
<1>1. n \in Nat /\ \A k \in 1 .. n : own[k] \in Nat \ {0}
  OBVIOUS
<1>2. \A j, k \in 1 .. n : j < k => own[j] < own[k]
  OBVIOUS
<1>. HIDE DEF n
<1>3. 0 \in S
  BY <1>1
<1>4. ASSUME NEW k \in Nat, k \in S PROVE k + 1 \in S
  <2>1. SUFFICES ASSUME k + 1 \in 1 .. n PROVE k + 1 <= own[k + 1]
    OBVIOUS
  <2>2. CASE k = 0
    <3>1. own[k + 1] \in Nat \ {0}
      BY <1>1, <2>1
    <3>. QED
      BY <2>2, <3>1
  <2>3. CASE k # 0
    <3>1. k \in 1 .. n
      BY <1>1, <2>1, <2>3
    <3>2. k <= own[k] /\ own[k] < own[k + 1] /\ own[k] \in Nat /\ own[k + 1] \in Nat
      BY <1>1, <1>2, <1>4, <2>1, <3>1
    <3>. QED
      BY <3>2
  <2>. QED
    BY <2>2, <2>3
<1>. HIDE DEF S
<1>5. Nat \subseteq S
  BY <1>3, <1>4, Induction
<1>6. \A k \in 1 .. n : k \in S
  BY <1>1, <1>5
<1>. QED
  BY <1>6 DEF S, n

LEMMA IncreasingIsInPlace ==
  ASSUME NEW N \in Nat, NEW own \in Seq(1 .. N), NEW a \in Nat,
         \A j, k \in 1 .. Len(own) : j < k => own[j] < own[k],
         \A i \in 1 .. N : i < a => \E k \in 1 .. Len(own) : own[k] = i,
         a <= N
  PROVE  \A k \in 1 .. Len(own) : k < a => own[k] = k
<1>. DEFINE n == Len(own)
            S == {i \in Nat : i < a => \A j \in 1 .. n : j <= i => own[j] = j}
<1>1. n \in Nat /\ (\A k \in 1 .. n : own[k] \in Nat \ {0}) /\ \A k \in 1 .. n : k <= own[k]
  BY IncreasingIsAbove
<1>2. \A i \in 1 .. N : i < a => \E k \in 1 .. n : own[k] = i
  OBVIOUS
<1>. HIDE DEF n
<1>3. 0 \in S
  BY <1>1
<1>4. ASSUME NEW i \in Nat, i \in S PROVE i + 1 \in S
  <2>1. SUFFICES ASSUME i + 1 < a, NEW j \in 1 .. n, j <= i + 1 PROVE own[j] = j
    OBVIOUS
  <2>2. \A k \in 1 .. n : k <= i => own[k] = k
    BY <1>4, <2>1
  <2>3. CASE j <= i
    BY <2>2, <2>3
  <2>4. CASE j = i + 1
    <3>1. i + 1 \in 1 .. N
      BY <2>1
    <3>2. PICK k \in 1 .. n : own[k] = i + 1
      BY <1>2, <2>1, <3>1
    <3>3. k <= i + 1 /\ ~(k <= i)
      BY <1>1, <2>2, <3>2
    <3>4. k = i + 1
      BY <1>1, <3>3
    <3>. QED
      BY <2>4, <3>2, <3>4
  <2>5. j <= i \/ j = i + 1
    BY <1>1, <2>1
  <2>. QED
    BY <2>3, <2>4, <2>5
<1>. HIDE DEF S
<1>5. Nat \subseteq S
  BY <1>3, <1>4, Induction
<1>6. ASSUME NEW k \in 1 .. n, k < a PROVE own[k] = k
  <2>1. k \in S /\ k \in Nat
    BY <1>1, <1>5
  <2>. QED
    BY <1>6, <2>1 DEF S
<1>. QED
  BY <1>6 DEF n

(* Instructions in order: each before a is among them, and none after it. *)
UpTo(N, own, a) ==
  /\ \A j, k \in 1 .. Len(own) : j < k => own[j] < own[k]
  /\ \A i \in 1 .. N : i < a => \E k \in 1 .. Len(own) : own[k] = i
  /\ \A k \in 1 .. Len(own) : own[k] <= a

(* A failure that is not logged is counted to the entry of the instruction *)
(* that failed, when each instruction before it has an entry.              *)
LEMMA CountedToItsOwn ==
  ASSUME NEW N \in Nat, NEW own \in Seq(1 .. N), NEW a \in 1 .. N, UpTo(N, own, a)
  PROVE  \A j \in 1 .. Len(own) : (a = Len(own) /\ j = Len(own)) <=> own[j] = a
<1>. DEFINE n == Len(own)
<1>0. /\ \A j, k \in 1 .. n : j < k => own[j] < own[k]
      /\ \A i \in 1 .. N : i < a => \E k \in 1 .. n : own[k] = i
      /\ \A k \in 1 .. n : own[k] <= a
  BY DEF UpTo
<1>1. n \in Nat /\ (\A k \in 1 .. n : own[k] \in Nat) /\ \A k \in 1 .. n : k <= own[k] /\ own[k] <= a
  BY <1>0, IncreasingIsAbove
<1>2. a \in Nat /\ a <= N
  OBVIOUS
<1>3. \A k \in 1 .. n : k < a => own[k] = k
  BY <1>0, <1>2, IncreasingIsInPlace
<1>. HIDE DEF n
<1>4. ASSUME NEW j \in 1 .. n PROVE (a = n /\ j = n) <=> own[j] = a
  <2>1. ASSUME a = n, j = n PROVE own[j] = a
    BY <1>1, <2>1
  <2>2. ASSUME own[j] = a PROVE a = n /\ j = n
    <3>1. ~(j < a)
      BY <1>1, <1>3, <2>2
    <3>2. n \in 1 .. n
      BY <1>1
    <3>3. n <= own[n] /\ own[n] <= a /\ own[n] \in Nat
      BY <1>1, <3>2
    <3>. QED
      BY <1>1, <3>1, <3>3
  <2>. QED
    BY <2>1, <2>2
<1>. QED
  BY <1>4 DEF n

-------------------------------------------------------------------------------
ErrorOf == IF err = -1 THEN 0 ELSE err

(* What the rows show, once the runtime has come to its end.               *)
LEMMA RowsAreTold ==
  ASSUME IInv, RowsInv, Finished, Attributable
  PROVE  \A i \in DOMAIN tx : ShowsItsLogs(i) /\ ShowsItsUnits(i) /\ ShowsItsFailure(i)
<1>. DEFINE N == Len(tx)
            p == ParseOf(log)
            P == p.entries
            E == entries.entries
<1>1. /\ tx \in Seq(Instruction) /\ N \in Nat /\ DOMAIN tx = 1 .. N
      /\ at \in 1 .. N + 1 /\ at \in Nat /\ err \in -1 .. N /\ log \in Seq(LogEntry)
      /\ frames = <<>> /\ (err # 0 \/ at > N)
  BY DEF IInv, TypeOK, Finished
<1>2. /\ \A i \in 1 .. N : programs[i] = tx[i].program
      /\ \A i \in 1 .. N : tx[i].program \in Logging \cup Native \cup Precompile
      /\ Len(programs) = N
  <2>1. \A i \in 1 .. N : tx[i] \in Instruction
    BY <1>1
  <2>2. \A x \in Instruction : x.program \in Logging \cup Native \cup Precompile
    BY DEF Instruction, Logging
  <2>3. programs = [i \in 1 .. N |-> tx[i].program]
    BY <1>1 DEF programs
  <2>. QED
    BY <1>1, <2>1, <2>2, <2>3
<1>3. /\ NoData \notin Logging /\ NoData \notin Native /\ NoData \notin Precompile
      /\ NoData \notin LogEntry /\ NoData \notin Row
      /\ Logging \cap Native = {} /\ Logging \cap Precompile = {} /\ Native \cap Precompile = {}
  BY ProgramsAssumption
<1>4. PICK own : Told(log, own) /\ Follows(own)
  BY DEF RowsInv, IsTold
<1>. DEFINE n == Len(own)
<1>5. /\ own \in Seq(1 .. N) /\ n = Len(P) /\ n \in Nat
      /\ \A j, k \in 1 .. n : j < k => own[j] < own[k]
      /\ \A k \in 1 .. n : Tells(P[k], own[k], log)
      /\ \A l \in ToSet(log) : \E k \in 1 .. n : own[k] = l.ix
      /\ \A k \in 1 .. n : own[k] \in 1 .. N /\ own[k] \in Nat
  BY <1>4 DEF Told
<1>6. /\ \A i \in 1 .. N : i < at /\ tx[i].program \in Logging => \E k \in 1 .. n : own[k] = i
      /\ \A k \in 1 .. n : own[k] <= at
      /\ \A l \in ToSet(log) : IsFailure(l) => err > 0 /\ l.ix = err
      /\ err > 0 =>
           /\ err = at /\ at <= N
           /\ (\E l \in ToSet(log) : IsFailure(l)) \/ tx[err].program \in Precompile \cup Native
  BY <1>4 DEF Follows
<1>7. \A i \in 1 .. N - 1 : tx[i].program \notin Native
  <2>1. \A i \in 1 .. N - 1 : i \in 1 .. N
    BY <1>1
  <2>. QED
    BY <1>2, <2>1 DEF Attributable
<1>8. p \in Parse /\ p.threw = FALSE /\ P \in Seq(Row) /\ ErrorOf \in Nat
  BY <1>1 DEF RowsInv, Started, Logged, Parse, ErrorOf
<1>9. entries = RuntimeError(p, ErrorOf)
  BY DEF entries, parseProgramLogs, ErrorOf, ParseOf
<1>. HIDE DEF p, n, N
<1>10. ASSUME NEW j, NEW k \in 1 .. n, j \in 1 .. n, own[j] = own[k] PROVE j = k
  <2>1. j < k \/ j = k \/ k < j
    BY <1>5, <1>10
  <2>. QED
    BY <1>5, <1>10, <2>1
(* the entries, with the failure that was not logged *)
<1>11. ASSUME NEW k \in 1 .. n
       PROVE  /\ SameProgram(P[k], E[k]) /\ SameLines(P[k], E[k])
              /\ E[k].computeUnits = P[k].computeUnits
              /\ E[k].failed = TRUE <=> P[k].failed = TRUE \/ (ErrorOf = n /\ k = n)
              /\ Len(E) = n /\ E[k] \in Row
  <2>1. P # <<>>
    BY <1>5, <1>8
  <2>2. /\ Len(RuntimeError(p, ErrorOf).entries) = Len(P)
        /\ \A j \in 1 .. Len(P) :
             /\ SameProgram(P[j], RuntimeError(p, ErrorOf).entries[j])
             /\ SameLines(P[j], RuntimeError(p, ErrorOf).entries[j])
             /\ RuntimeError(p, ErrorOf).entries[j].computeUnits = P[j].computeUnits
             /\ RuntimeError(p, ErrorOf).entries[j].failed = TRUE <=>
                  P[j].failed = TRUE \/ (ErrorOf = Len(P) /\ j = Len(P))
    BY <1>8, <2>1, RuntimeErrorDoes
  <2>. HIDE DEF P, E
  <2>3. /\ Len(E) = n
        /\ SameProgram(P[k], E[k]) /\ SameLines(P[k], E[k])
        /\ E[k].computeUnits = P[k].computeUnits
        /\ E[k].failed = TRUE <=> P[k].failed = TRUE \/ (ErrorOf = n /\ k = n)
    BY <1>5, <1>9, <2>2 DEF E
  <2>. QED
    BY <2>3 DEF SameProgram
<1>12. n = 0 => Len(E) \in Nat /\ \A k \in 1 .. Len(E) : E[k].invokedProgram = NoData /\ E[k].logs = {}
  <2>1. SUFFICES ASSUME n = 0
                 PROVE  Len(E) \in Nat /\ \A k \in 1 .. Len(E) : E[k].invokedProgram = NoData /\ E[k].logs = {}
    OBVIOUS
  <2>2. P = <<>>
    <3>1. Len(P) = 0
      BY <1>5, <2>1
    <3>2. P \in Seq(Row)
      BY <1>8
    <3>. HIDE DEF P
    <3>. QED
      BY <3>1, <3>2, EmptySeq
  <2>. QED
    BY <1>8, <1>9, <2>2, RuntimeErrorOfNothing
<1>. HIDE DEF P, E
(* each instruction takes its own *)
<1>13. ASSUME NEW k \in 1 .. n PROVE Takes(programs[own[k]], E[k])
  <2>1. Tells(P[k], own[k], log) /\ programs[own[k]] = tx[own[k]].program
    BY <1>2, <1>5
  <2>2. E[k].invokedProgram = P[k].invokedProgram /\ (P[k].logs # {} => E[k].logs # {})
    BY <1>11 DEF SameProgram, SameLines
  <2>. QED
    BY <2>1, <2>2 DEF Takes, Tells
<1>14. ASSUME NEW i \in 1 .. N, NEW k \in 1 .. Len(E), Len(E) \in Nat,
              \A j \in 1 .. n : own[j] # i, k <= n => i < own[k]
       PROVE  ~Takes(programs[i], E[k])
  <2>1. programs[i] = tx[i].program /\ programs[i] # NoData
    BY <1>2, <1>3
  <2>2. CASE n = 0
    BY <1>12, <2>1, <2>2 DEF Takes
  <2>3. CASE n # 0
    <3>1. 1 \in 1 .. n
      BY <1>5, <2>3
    <3>2. k \in 1 .. n
      <4>1. Len(E) = n
        BY <1>11, <3>1
      <4>. QED
        BY <4>1
    <3>3. i < own[k] /\ own[k] <= at /\ own[k] \in 1 .. N
      BY <1>5, <1>6, <1>14, <3>2
    <3>4. i < at /\ i \in 1 .. N - 1
      BY <1>1, <3>3
    <3>5. programs[i] \in Precompile
      BY <1>2, <1>6, <1>7, <1>14, <2>1, <3>4
    <3>6. E[k].invokedProgram = P[k].invokedProgram /\ Tells(P[k], own[k], log)
      BY <1>5, <1>11, <3>2 DEF SameProgram
    <3>7. E[k].invokedProgram \in Logging \cup {NoData}
      BY <3>6 DEF Tells
    <3>. QED
      BY <1>3, <2>1, <3>5, <3>7 DEF Takes
  <2>. QED
    BY <2>2, <2>3
<1>15. ASSUME NEW i \in 1 .. N
       PROVE  /\ \A k \in 1 .. n : own[k] = i => shown[i] = E[k]
              /\ (\A k \in 1 .. n : own[k] # i) => shown[i] = NoData
  <2>1. Len(E) \in Nat /\ n <= Len(E)
    <3>1. CASE n = 0
      BY <1>12, <3>1
    <3>2. CASE n # 0
      <4>1. 1 \in 1 .. n /\ n \in Nat
        BY <1>5, <3>2
      <4>2. Len(E) = n
        BY <1>11, <4>1
      <4>. QED
        BY <4>1, <4>2
    <3>. QED
      BY <3>1, <3>2
  <2>. DEFINE m == Len(E)
  <2>2. m \in Nat /\ n <= m
    BY <2>1
  <2>3. \A j \in 1 .. N, k \in 1 .. m :
          (\A q \in 1 .. n : own[q] # j) /\ (k <= n => j < own[k]) => ~Takes(programs[j], E[k])
    BY <1>14, <2>1
  <2>4. \A k \in 1 .. n : Takes(programs[own[k]], E[k])
    BY <1>13
  <2>5. shown[i] = rows(E, programs)[i]
    BY DEF shown, E
  <2>6. /\ \A k \in 1 .. n : own[k] = i => rows(E, programs)[i] = E[k]
        /\ (\A k \in 1 .. n : own[k] # i) => rows(E, programs)[i] = NoData
    <3>1. N \in Nat /\ Len(programs) = N /\ own \in Seq(1 .. N) /\ n = Len(own)
      BY <1>1, <1>2, <1>5 DEF n
    <3>2. \A j, k \in 1 .. Len(own) : j < k => own[j] < own[k]
      BY <1>5, <3>1
    <3>3. \A k \in 1 .. Len(own) : Takes(programs[own[k]], E[k])
      BY <2>4, <3>1
    <3>4. \A j \in 1 .. N, k \in 1 .. m :
            (\A q \in 1 .. Len(own) : own[q] # j) /\ (k <= Len(own) => j < own[k]) => ~Takes(programs[j], E[k])
      BY <2>3, <3>1
    <3>5. m \in Nat /\ Len(E) = m /\ Len(own) <= m
      BY <2>2, <3>1
    <3>. HIDE DEF m
    <3>6. \A j \in 1 .. N :
            /\ \A k \in 1 .. Len(own) : own[k] = j => rows(E, programs)[j] = E[k]
            /\ (\A k \in 1 .. Len(own) : own[k] # j) => rows(E, programs)[j] = NoData
      <4>1. InOrder(E, programs, N, own, m)
        BY <3>1, <3>2, <3>3, <3>4, <3>5 DEF InOrder
      <4>2. EachHasItsOwn(E, programs, N, own)
        BY <4>1, EachTakesItsOwn
      <4>. QED
        BY <4>2 DEF EachHasItsOwn
    <3>. QED
      BY <3>1, <3>6
  <2>. QED
    BY <2>5, <2>6
(* what a row shows *)
<1>16. ASSUME NEW i \in 1 .. N PROVE ShowsItsLogs(i)
  <2>1. LinesOf(log, i) = {l \in ToSet(log) : l.ix = i /\ ~(l.kind = "invoke" /\ l.depth = 1)}
    BY DEF LinesOf
  <2>2. CASE \A k \in 1 .. n : own[k] # i
    <3>1. shown[i] = NoData
      BY <1>15, <2>2
    <3>2. LinesOf(log, i) = {}
      BY <1>5, <2>2 DEF LinesOf
    <3>. QED
      BY <2>1, <3>1, <3>2 DEF ShowsItsLogs
  <2>3. ASSUME NEW k \in 1 .. n, own[k] = i PROVE ShowsItsLogs(i)
    <3>. DEFINE s == shown[i]
    <3>1. s = E[k] /\ s # NoData
      BY <1>3, <1>11, <1>15, <2>3
    <3>2. Tells(P[k], i, log) /\ SameLines(P[k], E[k])
      BY <1>5, <1>11, <2>3
    <3>. HIDE DEF s
    <3>3. {l.line : l \in s.logs} \ {NoData} = LinesOf(log, i)
      <4>1. NoData \notin LinesOf(log, i)
        <5>1. \A l \in ToSet(log) : l \in LogEntry
          BY <1>1 DEF ToSet
        <5>. QED
          BY <1>3, <5>1 DEF LinesOf
      <4>2. {l.line : l \in P[k].logs} \ {NoData} = LinesOf(log, i)
        BY <3>2, <4>1 DEF Tells
      <4>. QED
        BY <3>1, <3>2, <4>2 DEF SameLines
    <3>4. \A l \in s.logs : l.indent >= 1
      BY <3>1, <3>2 DEF SameLines, Tells
    <3>. QED
      BY <2>1, <3>1, <3>3, <3>4 DEF ShowsItsLogs, s
  <2>. QED
    BY <2>2, <2>3
<1>17. ASSUME NEW i \in 1 .. N PROVE ShowsItsUnits(i)
  <2>1. SUFFICES ASSUME shown[i] # NoData
                 PROVE  shown[i].computeUnits =
                          Cardinality({l \in ToSet(log) : l.kind = "consumed" /\ l.ix = i /\ l.height = 1})
    BY DEF ShowsItsUnits
  <2>. DEFINE tops == {l \in ToSet(log) : l.kind = "consumed" /\ l.ix = i /\ l.height = 1}
              units == shown[i].computeUnits
  <2>2. PICK k \in 1 .. n : own[k] = i
    BY <1>15, <2>1
  <2>3. units = P[k].computeUnits /\ Tells(P[k], i, log)
    BY <1>5, <1>11, <1>15, <2>2
  <2>4. tops = {l \in ToSet(log) : IsTop(l, i)}
    BY DEF IsTop
  <2>. HIDE DEF tops, units
  <2>5. CASE \A l \in ToSet(log) : ~IsTop(l, i)
    <3>1. tops = {} /\ units = 0
      BY <2>3, <2>4, <2>5 DEF Tells
    <3>. QED
      BY <3>1, FS_EmptySet DEF tops, units
  <2>6. ASSUME NEW l \in ToSet(log), IsTop(l, i)
        PROVE  shown[i].computeUnits =
                 Cardinality({x \in ToSet(log) : x.kind = "consumed" /\ x.ix = i /\ x.height = 1})
    <3>1. units = 1
      BY <2>3, <2>6 DEF Tells
    <3>2. \A x \in LogEntry : IsTop(x, i) => x = [kind |-> "consumed", ix |-> i, units |-> 1, height |-> 1]
      BY DEF LogEntry, IsTop
    <3>3. \A x \in ToSet(log) : x \in LogEntry
      BY <1>1 DEF ToSet
    <3>4. tops = {l}
      BY <2>4, <2>6, <3>2, <3>3
    <3>. QED
      BY <3>1, <3>4, FS_Singleton DEF tops, units
  <2>. QED
    BY <2>5, <2>6
<1>18. ASSUME NEW i \in 1 .. N PROVE ShowsItsFailure(i)
  <2>. DEFINE isLogged == \E l \in ToSet(log) : l.kind \in {"failed", "verify"}
              allHave == Precompile \cap ToSet(programs) = {}
  <2>1. SUFFICES ASSUME isLogged \/ allHave, shown[i] # NoData
                 PROVE  shown[i].failed <=> err = i
    BY DEF ShowsItsFailure
  <2>2. PICK k \in 1 .. n : own[k] = i
    BY <1>15, <2>1
  <2>3. shown[i] = E[k] /\ Tells(P[k], i, log) /\ E[k] \in Row
    BY <1>5, <1>11, <1>15, <2>2
  <2>4. shown[i].failed \in BOOLEAN
    BY <2>3 DEF Row
  <2>5. shown[i].failed = TRUE <=> P[k].failed = TRUE \/ (ErrorOf = n /\ k = n)
    BY <1>11, <2>3
  <2>6. P[k].failed = TRUE <=> \E l \in ToSet(log) : l.ix = i /\ IsFailure(l)
    BY <2>3 DEF Tells
  <2>7. (P[k].failed = TRUE \/ (ErrorOf = n /\ k = n)) <=> err = i
    <3>1. CASE isLogged
      <4>1. PICK l \in ToSet(log) : IsFailure(l)
        BY <3>1 DEF IsFailure
      <4>2. err > 0 /\ l.ix = err /\ err = at
        BY <1>6, <4>1
      <4>3. err = i => P[k].failed = TRUE
        BY <2>6, <4>1, <4>2
      <4>4. P[k].failed = TRUE => err = i
        BY <1>6, <2>6
      <4>5. ErrorOf = n /\ k = n => err = i
        <5>1. SUFFICES ASSUME k = n PROVE err = i
          OBVIOUS
        <5>2. PICK j \in 1 .. n : own[j] = at
          BY <1>5, <4>1, <4>2
        <5>3. ~(j < k)
          <6>1. own[j] = at /\ own[k] <= at /\ own[j] \in Nat /\ own[k] \in Nat
            BY <1>5, <1>6, <5>2
          <6>2. j < k => own[j] < own[k]
            BY <1>5
          <6>. QED
            BY <6>1, <6>2
        <5>4. j = k
          BY <1>5, <5>1, <5>3
        <5>. QED
          BY <2>2, <4>2, <5>2, <5>4
      <4>. QED
        BY <4>3, <4>4, <4>5
    <3>2. CASE ~isLogged /\ allHave
      <4>1. ~(P[k].failed = TRUE)
        BY <2>6, <3>2 DEF IsFailure
      <4>2. CASE err > 0
        <5>1. /\ err = at /\ at \in 1 .. N /\ tx[at].program \in Precompile \cup Native /\ ErrorOf = at
              /\ \A j \in 1 .. n : own[j] <= at
          BY <1>1, <1>6, <3>2, <4>2 DEF IsFailure, ErrorOf
        <5>2. \A j \in 1 .. N : tx[j].program \notin Precompile
          <6>1. DOMAIN programs = 1 .. N
            BY <1>1 DEF programs
          <6>2. \A j \in 1 .. N : programs[j] \in ToSet(programs)
            BY <6>1 DEF ToSet
          <6>. QED
            BY <1>2, <3>2, <6>2
        <5>3. ASSUME NEW j \in 1 .. N, j < at PROVE \E q \in 1 .. n : own[q] = j
          <6>1. j \in 1 .. N - 1
            BY <1>1, <5>1, <5>3
          <6>2. tx[j].program \in Logging
            BY <1>2, <1>7, <5>2, <6>1
          <6>. QED
            BY <1>6, <5>3, <6>2
        <5>4. (at = n /\ k = n) <=> own[k] = at
          <6>1. N \in Nat /\ own \in Seq(1 .. N) /\ at \in 1 .. N /\ n = Len(own)
            BY <1>1, <1>5, <5>1 DEF n
          <6>2. \A j, q \in 1 .. Len(own) : j < q => own[j] < own[q]
            BY <1>5, <6>1
          <6>3. \A j \in 1 .. N : j < at => \E q \in 1 .. Len(own) : own[q] = j
            BY <5>3, <6>1
          <6>4. \A q \in 1 .. Len(own) : own[q] <= at
            BY <5>1, <6>1
          <6>5. UpTo(N, own, at)
            BY <6>2, <6>3, <6>4 DEF UpTo
          <6>6. \A j \in 1 .. Len(own) : (at = Len(own) /\ j = Len(own)) <=> own[j] = at
            BY <6>1, <6>5, CountedToItsOwn
          <6>7. k \in 1 .. Len(own) /\ n = Len(own)
            BY <5>1, <6>1
          <6>. QED
            BY <6>6, <6>7
        <5>. QED
          BY <2>2, <4>1, <5>1, <5>4
      <4>3. CASE ~(err > 0)
        <5>1. ErrorOf = 0 /\ n # 0 /\ err # i
          BY <1>1, <1>5, <4>3 DEF ErrorOf
        <5>. QED
          BY <4>1, <5>1
      <4>. QED
        BY <4>2, <4>3
    <3>. QED
      BY <2>1, <3>1, <3>2
  <2>. QED
    BY <2>4, <2>5, <2>7, Zenon
<1>. QED
  BY <1>1, <1>16, <1>17, <1>18

(* Reading a log never fails, wherever it was cut; and where the log tells *)
(* what its lines belong to, the row of an instruction shows the lines,    *)
(* the compute units and the failure of that instruction, for any number   *)
(* of instructions and any depth of invocations.                           *)
THEOREM RowsOfTheLog == Spec => []RowsAreOfInstruction
<1>1. ASSUME IInv, RowsInv PROVE entries.threw = FALSE
  <2>. DEFINE p == ParseOf(log)
  <2>1. p \in Parse /\ p.threw = FALSE /\ ErrorOf \in Nat
    BY <1>1 DEF RowsInv, Started, Logged, ErrorOf, IInv, TypeOK
  <2>2. entries = RuntimeError(p, ErrorOf)
    BY DEF entries, parseProgramLogs, ErrorOf, ParseOf
  <2>. HIDE DEF p
  <2>3. CASE p.entries = <<>>
    BY <2>1, <2>2, <2>3, RuntimeErrorOfNothing
  <2>4. CASE p.entries # <<>>
    BY <2>1, <2>2, <2>4, RuntimeErrorDoes
  <2>. QED
    BY <2>3, <2>4
<1>2. IInv /\ RowsInv => RowsAreOfInstruction
  BY <1>1, RowsAreTold DEF RowsAreOfInstruction
<1>3. Init => IInv /\ RowsInv
  BY InitIsRead, InitIsTold
<1>4. (IInv /\ RowsInv) /\ [Next]_vars => (IInv /\ RowsInv)'
  BY NextIsRead, NextIsTold
<1>. QED
  BY <1>2, <1>3, <1>4, PTL DEF Spec

-------------------------------------------------------------------------------
(* The lines of a log are in the order of the instructions they are of, up *)
(* to instruction n; the line that says that lines are missing is of none. *)
Ordered(logs, n) ==
  /\ \A k \in 1 .. Len(logs) : logs[k].ix <= n
  /\ \A j, k \in 1 .. Len(logs) :
       j < k /\ logs[k].kind # "truncated" => logs[j].ix <= logs[k].ix

LogState == [log : Seq(LogEntry), written : Nat]

LEMMA IxIsNat == \A l \in LogEntry : l.ix \in Nat
  BY DEF LogEntry

LEMMA MoreIsOrdered ==
  ASSUME NEW logs \in Seq(LogEntry), NEW n \in Nat, Ordered(logs, n), NEW line \in LogEntry,
         line.ix = n \/ line = Truncated
  PROVE  Ordered(Append(logs, line), n)
<1>. DEFINE more == Append(logs, line)
<1>1. /\ Len(logs) \in Nat /\ Len(more) = Len(logs) + 1 /\ more[Len(logs) + 1] = line
      /\ \A k \in 1 .. Len(logs) : more[k] = logs[k] /\ logs[k] \in LogEntry
  OBVIOUS
<1>2. line.ix \in Nat /\ line.ix <= n /\ (line.kind # "truncated" => line.ix = n)
  BY IxIsNat DEF Truncated
<1>. HIDE DEF more
<1>3. ASSUME NEW k \in 1 .. Len(more) PROVE more[k].ix <= n
  <2>1. CASE k \in 1 .. Len(logs)
    BY <1>1, <2>1 DEF Ordered
  <2>2. CASE k = Len(logs) + 1
    BY <1>1, <1>2, <2>2
  <2>. QED
    BY <1>1, <2>1, <2>2
<1>4. ASSUME NEW j \in 1 .. Len(more), NEW k \in 1 .. Len(more), j < k, more[k].kind # "truncated"
      PROVE  more[j].ix <= more[k].ix
  <2>1. CASE k \in 1 .. Len(logs)
    <3>1. j \in 1 .. Len(logs)
      BY <1>1, <1>4, <2>1
    <3>. QED
      BY <1>1, <1>4, <2>1, <3>1 DEF Ordered
  <2>2. CASE k = Len(logs) + 1
    BY <1>1, <1>2, <1>3, <1>4, <2>2
  <2>. QED
    BY <1>1, <2>1, <2>2
<1>. QED
  BY <1>3, <1>4 DEF Ordered, more

LEMMA LineIsOrdered ==
  ASSUME limit \in Nat, NEW w \in LogState, NEW n \in Nat, Ordered(w.log, n),
         NEW line \in LogEntry, line.ix = n
  PROVE  LogLine(w, line) \in LogState /\ Ordered(LogLine(w, line).log, n)
<1>1. Size(line) \in Nat /\ w.log \in Seq(LogEntry) /\ w.written \in Nat
  BY DEF Size, LogState
<1>2. Truncated \in LogEntry
  BY DEF Truncated, LogEntry
<1>3. CASE LogLine(w, line) = [log |-> Append(w.log, line), written |-> w.written + Size(line)]
  <2>1. LogLine(w, line).log = Append(w.log, line) /\ LogLine(w, line) \in LogState
    BY <1>1, <1>3 DEF LogState
  <2>. QED
    BY <1>1, <2>1, MoreIsOrdered
<1>4. CASE LogLine(w, line) = w
  BY <1>4
<1>5. CASE LogLine(w, line) = [w EXCEPT !.log = Append(w.log, Truncated)]
  <2>. DEFINE cut == [w EXCEPT !.log = Append(w.log, Truncated)]
  <2>1. cut.log = Append(w.log, Truncated) /\ cut \in LogState
    <3>1. Append(w.log, Truncated) \in Seq(LogEntry)
      BY <1>1, <1>2
    <3>. QED
      BY <3>1 DEF LogState
  <2>2. Ordered(Append(w.log, Truncated), n)
    BY <1>1, <1>2, MoreIsOrdered
  <2>3. LogLine(w, line) = cut
    BY <1>5
  <2>. HIDE DEF cut
  <2>. QED
    BY <2>1, <2>2, <2>3
<1>. QED
  BY <1>3, <1>4, <1>5 DEF LogLine

(* Lines of the runtime are of the instruction that runs.                  *)
LEMMA LinesAreOfAt ==
  ASSUME at \in Nat
  PROVE  /\ \A kind \in {"log", "text", "verify"} : Line(kind) \in LogEntry /\ Line(kind).ix = at
         /\ \A p \in Logging, d \in Nat \ {0} : InvokeOf(p, d) \in LogEntry /\ InvokeOf(p, d).ix = at
         /\ \A p \in Logging \cup Native, kind \in {"success", "failed"} :
              EndOf(kind, p) \in LogEntry /\ EndOf(kind, p).ix = at
BY DEF Line, InvokeOf, EndOf, LogEntry

LEMMA NextIsOrdered == IInv /\ Ordered(log, at) /\ [Next]_vars => Ordered(log, at)'
<1>. SUFFICES ASSUME IInv, Ordered(log, at), [Next]_vars PROVE Ordered(log, at)'
  OBVIOUS
<1>1. /\ at \in Nat /\ limit \in Nat /\ log \in Seq(LogEntry) /\ written \in Nat
      /\ frames \in Seq(Logging) /\ Len(frames) \in Nat
  BY BoundsAssumption DEF IInv, TypeOK
<1>2. Logged \in LogState /\ Ordered(Logged.log, at)
  BY <1>1 DEF Logged, LogState
<1>3. ASSUME NEW w \in LogState, Ordered(w.log, at), Write(w), at' \in Nat, at' >= at
      PROVE  Ordered(log, at)'
  <2>1. log' = w.log /\ log' \in Seq(LogEntry)
    BY <1>3 DEF Write, LogState
  <2>2. \A k \in 1 .. Len(log') : log'[k].ix \in Nat
    BY <2>1, IxIsNat
  <2>3. \A k \in 1 .. Len(log') : log'[k].ix <= at'
    BY <1>1, <1>3, <2>1, <2>2 DEF Ordered
  <2>. QED
    BY <1>3, <2>1, <2>3 DEF Ordered
<1>4. ASSUME UNCHANGED log, at' \in Nat, at' >= at PROVE Ordered(log, at)'
  <2>1. \A k \in 1 .. Len(log) : log[k].ix \in Nat
    BY <1>1, IxIsNat
  <2>2. \A k \in 1 .. Len(log) : log[k].ix <= at'
    BY <1>1, <1>4, <2>1 DEF Ordered
  <2>. QED
    BY <1>4, <2>2 DEF Ordered
<1>5. ASSUME frames # <<>>
      PROVE  /\ Last(frames) \in Logging
             /\ \A kind \in {"success", "failed"} : End(kind) \in LogState /\ Ordered(End(kind).log, at)
  <2>1. Last(frames) \in Logging
    BY <1>1, <1>5 DEF Last
  <2>2. Consumed \in LogEntry /\ Consumed.ix = at
    BY <1>1 DEF Consumed, LogEntry
  <2>3. LogLine(Logged, Consumed) \in LogState /\ Ordered(LogLine(Logged, Consumed).log, at)
    BY <1>1, <1>2, <2>2, LineIsOrdered
  <2>4. ASSUME NEW kind \in {"success", "failed"}
        PROVE  End(kind) \in LogState /\ Ordered(End(kind).log, at)
    <3>1. EndOf(kind, Last(frames)) \in LogEntry /\ EndOf(kind, Last(frames)).ix = at
      BY <1>1, <2>1, LinesAreOfAt
    <3>. QED
      BY <1>1, <2>3, <3>1, LineIsOrdered DEF End
  <2>. QED
    BY <2>1, <2>4
<1>6. CASE Invoke
  <2>1. tx[at].program \in Logging /\ Write(LogLine(Logged, InvokeOf(tx[at].program, 1))) /\ at' = at
    BY <1>6 DEF Invoke
  <2>2. InvokeOf(tx[at].program, 1) \in LogEntry /\ InvokeOf(tx[at].program, 1).ix = at
    BY <1>1, <2>1, LinesAreOfAt
  <2>. QED
    BY <1>1, <1>2, <1>3, <2>1, <2>2, LineIsOrdered
<1>7. CASE \E p \in Logging : Cpi(p)
  <2>1. PICK p \in Logging : Cpi(p)
    BY <1>7
  <2>2. Write(LogLine(Logged, InvokeOf(p, Len(frames) + 1))) /\ at' = at
    BY <2>1 DEF Cpi
  <2>3. InvokeOf(p, Len(frames) + 1) \in LogEntry /\ InvokeOf(p, Len(frames) + 1).ix = at
    BY <1>1, LinesAreOfAt
  <2>. QED
    BY <1>1, <1>2, <1>3, <2>2, <2>3, LineIsOrdered
<1>8. CASE Say
  <2>1. at' = at /\ frames # <<>>
    BY <1>8 DEF Say, Running
  <2>2. PICK line : Write(LogLine(Logged, line)) /\ (line = Line("log") \/ \E bytes \in Bytes : line = DataOf(bytes))
    BY <1>8 DEF Say
  <2>3. line \in LogEntry /\ line.ix = at
    <3>1. CASE line = Line("log")
      BY <1>1, <3>1, LinesAreOfAt
    <3>2. ASSUME NEW bytes \in Bytes, line = DataOf(bytes) PROVE line \in LogEntry /\ line.ix = at
      BY <1>1, <1>5, <2>1, <3>2 DEF DataOf, LogEntry
    <3>. QED
      BY <2>2, <3>1, <3>2
  <2>. QED
    BY <1>1, <1>2, <1>3, <2>1, <2>2, <2>3, LineIsOrdered
<1>9. CASE Return
  <2>1. Write(End("success")) /\ at' \in {at, at + 1} /\ frames # <<>>
    BY <1>9 DEF Return, Running
  <2>. QED
    BY <1>1, <1>3, <1>5, <2>1
<1>10. CASE FailVerification
  <2>1. Write(LogLine(End("success"), Line("verify"))) /\ at' = at /\ frames # <<>>
    BY <1>10 DEF FailVerification, Running
  <2>2. Line("verify") \in LogEntry /\ Line("verify").ix = at
    BY <1>1, LinesAreOfAt
  <2>3. End("success") \in LogState /\ Ordered(End("success").log, at)
    BY <1>5, <2>1
  <2>. QED
    BY <1>1, <1>3, <2>1, <2>2, <2>3, LineIsOrdered
<1>11. CASE Fail \/ Unwind
  <2>1. Write(End("failed")) /\ at' = at /\ frames # <<>>
    BY <1>11 DEF Fail, Unwind, Running
  <2>. QED
    BY <1>1, <1>3, <1>5, <2>1
<1>12. CASE RunPrecompile \/ FailTransaction \/ UNCHANGED vars
  <2>1. UNCHANGED log /\ at' \in {at, at + 1}
    BY <1>12 DEF RunPrecompile, FailTransaction, vars
  <2>. QED
    BY <1>1, <1>4, <2>1
<1>13. CASE RunNative
  <2>. DEFINE text == LogLine(Logged, Line("text"))
  <2>1. tx[at].program \in Native /\ at' \in {at, at + 1}
    BY <1>13 DEF RunNative
  <2>2. Write(Logged) \/ Write(text) \/ Write(LogLine(text, EndOf("success", tx[at].program)))
    BY <1>13 DEF RunNative
  <2>3. Line("text") \in LogEntry /\ Line("text").ix = at
    BY <1>1, LinesAreOfAt
  <2>4. text \in LogState /\ Ordered(text.log, at)
    BY <1>1, <1>2, <2>3, LineIsOrdered
  <2>. HIDE DEF text
  <2>5. EndOf("success", tx[at].program) \in LogEntry /\ EndOf("success", tx[at].program).ix = at
    BY <1>1, <2>1, LinesAreOfAt
  <2>6. LogLine(text, EndOf("success", tx[at].program)) \in LogState
        /\ Ordered(LogLine(text, EndOf("success", tx[at].program)).log, at)
    BY <1>1, <2>4, <2>5, LineIsOrdered
  <2>. QED
    BY <1>1, <1>2, <1>3, <2>1, <2>2, <2>4, <2>6
<1>. QED
  BY <1>6, <1>7, <1>8, <1>9, <1>10, <1>11, <1>12, <1>13 DEF Next

-------------------------------------------------------------------------------
(* The telemetry of a program in the first n lines is all of it, in the    *)
(* order of the lines.                                                     *)
IsPlaced(told, n, p, pos) ==
  /\ pos \in [1 .. Len(told) -> 1 .. n]
  /\ \A e \in 1 .. Len(told) : told[e] = log[pos[e]] /\ IsTelemetryOf(log[pos[e]], p)
  /\ \A d, e \in 1 .. Len(told) : d < e => pos[d] < pos[e]
  /\ \A k \in 1 .. n : IsTelemetryOf(log[k], p) => \E e \in 1 .. Len(told) : pos[e] = k

TellsAll(told, n, p) == told \in Seq(LogEntry) /\ \E pos : IsPlaced(told, n, p, pos)

LEMMA OneMoreIsTold ==
  ASSUME log \in Seq(LogEntry), NEW n \in Nat, n + 1 <= Len(log), NEW p,
         NEW told, TellsAll(told, n, p)
  PROVE  TellsAll(IF IsTelemetryOf(log[n + 1], p) THEN Append(told, log[n + 1]) ELSE told, n + 1, p)
<1>1. PICK pos : IsPlaced(told, n, p, pos)
  BY DEF TellsAll
<1>2. told \in Seq(LogEntry) /\ Len(told) \in Nat /\ Len(log) \in Nat /\ n + 1 \in 1 .. Len(log)
      /\ log[n + 1] \in LogEntry
  BY DEF TellsAll
<1>3. CASE ~IsTelemetryOf(log[n + 1], p)
  <2>1. pos \in [1 .. Len(told) -> 1 .. n + 1]
    BY <1>1, <1>2 DEF IsPlaced
  <2>2. ASSUME NEW k \in 1 .. n + 1, IsTelemetryOf(log[k], p) PROVE \E e \in 1 .. Len(told) : pos[e] = k
    <3>1. k \in 1 .. n
      BY <1>3, <2>2
    <3>. QED
      BY <1>1, <2>2, <3>1, Zenon DEF IsPlaced
  <2>3. IsPlaced(told, n + 1, p, pos)
    BY <1>1, <2>1, <2>2, Zenon DEF IsPlaced
  <2>. QED
    BY <1>2, <1>3, <2>3, Zenon DEF TellsAll
<1>4. CASE IsTelemetryOf(log[n + 1], p)
  <2>. DEFINE line == log[n + 1]
              m == Len(told)
              more == Append(told, line)
              at1 == [e \in 1 .. m + 1 |-> IF e = m + 1 THEN n + 1 ELSE pos[e]]
  <2>1. /\ m \in Nat /\ Len(more) = m + 1 /\ more \in Seq(LogEntry) /\ more[m + 1] = line
        /\ \A e \in 1 .. m : more[e] = told[e]
    BY <1>2
  <2>2. /\ \A e \in 1 .. m : at1[e] = pos[e] /\ pos[e] \in 1 .. n /\ pos[e] \in Nat
        /\ at1[m + 1] = n + 1 /\ DOMAIN at1 = 1 .. m + 1
        /\ \A e \in 1 .. m : told[e] = log[pos[e]] /\ IsTelemetryOf(log[pos[e]], p)
        /\ \A d, e \in 1 .. m : d < e => pos[d] < pos[e]
        /\ \A k \in 1 .. n : IsTelemetryOf(log[k], p) => \E e \in 1 .. m : pos[e] = k
    <3>1. /\ pos \in [1 .. m -> 1 .. n]
          /\ \A e \in 1 .. m : told[e] = log[pos[e]] /\ IsTelemetryOf(log[pos[e]], p)
          /\ \A d, e \in 1 .. m : d < e => pos[d] < pos[e]
          /\ \A k \in 1 .. n : IsTelemetryOf(log[k], p) => \E e \in 1 .. m : pos[e] = k
      BY <1>1, Zenon DEF IsPlaced
    <3>2. \A e \in 1 .. m : pos[e] \in 1 .. n
      BY <3>1
    <3>. HIDE DEF m
    <3>3. \A e \in 1 .. m : at1[e] = pos[e] /\ pos[e] \in Nat
      BY <2>1, <3>2
    <3>4. at1[m + 1] = n + 1 /\ DOMAIN at1 = 1 .. m + 1
      BY <2>1
    <3>. HIDE DEF at1
    <3>. QED
      BY <3>1, <3>2, <3>3, <3>4, Zenon
  <2>. HIDE DEF m, more, at1
  <2>3. \A e \in 1 .. m + 1 : e \in 1 .. m \/ e = m + 1
    BY <2>1
  <2>4. \A e \in 1 .. m + 1 : at1[e] \in 1 .. n + 1
    BY <2>1, <2>2, <2>3
  <2>5. \A e \in 1 .. m + 1 : more[e] = log[at1[e]] /\ IsTelemetryOf(log[at1[e]], p)
    BY <1>4, <2>1, <2>2, <2>3, Zenon
  <2>6. ASSUME NEW d \in 1 .. m + 1, NEW e \in 1 .. m + 1, d < e PROVE at1[d] < at1[e]
    <3>1. d \in 1 .. m
      BY <2>1, <2>6
    <3>2. CASE e = m + 1
      BY <2>2, <3>1, <3>2
    <3>3. CASE e \in 1 .. m
      BY <2>2, <2>6, <3>1, <3>3
    <3>. QED
      BY <2>3, <3>2, <3>3
  <2>7. ASSUME NEW k \in 1 .. n + 1, IsTelemetryOf(log[k], p) PROVE \E e \in 1 .. m + 1 : at1[e] = k
    <3>1. CASE k = n + 1
      <4>1. m + 1 \in 1 .. m + 1
        BY <2>1
      <4>. QED
        BY <2>2, <3>1, <4>1
    <3>2. CASE k \in 1 .. n
      <4>1. PICK e \in 1 .. m : pos[e] = k
        BY <2>2, <2>7, <3>2
      <4>2. e \in 1 .. m + 1
        BY <2>1
      <4>. QED
        BY <2>2, <4>1, <4>2
    <3>. QED
      BY <3>1, <3>2
  <2>8. at1 \in [1 .. m + 1 -> 1 .. n + 1]
    <3>1. at1 = [e \in 1 .. m + 1 |-> at1[e]]
      BY DEF at1
    <3>. QED
      BY <2>4, <3>1, Zenon
  <2>9. IsPlaced(more, n + 1, p, at1)
    BY <2>1, <2>5, <2>6, <2>7, <2>8, Zenon DEF IsPlaced
  <2>10. TellsAll(more, n + 1, p)
    BY <2>1, <2>9, Zenon DEF TellsAll
  <2>. QED
    BY <1>4, <2>10 DEF more
<1>. QED
  BY <1>3, <1>4

LEMMA TelemetryTellsAll ==
  ASSUME log \in Seq(LogEntry), NEW p
  PROVE  TellsAll(telemetryOf(p)[Len(log)], Len(log), p)
<1>. DEFINE t == telemetryOf(p)
            S == {n \in Nat : n <= Len(log) => TellsAll(t[n], n, p)}
<1>1. Len(log) \in Nat
  OBVIOUS
<1>2. t = [n \in 0 .. Len(log) |->
             IF n = 0 THEN <<>>
             ELSE IF IsTelemetryOf(log[n], p) THEN Append(t[n-1], log[n]) ELSE t[n-1]]
  BY <1>1, TelemetryIsDefined
<1>. HIDE DEF t
<1>3. 0 \in S
  <2>1. t[0] = <<>>
    BY <1>1, <1>2
  <2>2. IsPlaced(<<>>, 0, p, <<>>)
    BY DEF IsPlaced
  <2>3. TellsAll(<<>>, 0, p)
    BY <2>2 DEF TellsAll
  <2>. QED
    BY <2>1, <2>3
<1>4. ASSUME NEW n \in Nat, n \in S PROVE n + 1 \in S
  <2>1. CASE n + 1 <= Len(log)
    <3>1. n + 1 \in 0 .. Len(log) /\ n + 1 # 0 /\ (n + 1) - 1 = n /\ n <= Len(log)
      BY <1>1, <2>1
    <3>2. t[n + 1] = IF IsTelemetryOf(log[n + 1], p) THEN Append(t[n], log[n + 1]) ELSE t[n]
      BY <1>2, <3>1, Zenon
    <3>3. TellsAll(t[n], n, p)
      BY <1>4, <3>1
    <3>4. TellsAll(t[n + 1], n + 1, p)
      BY <2>1, <3>2, <3>3, OneMoreIsTold
    <3>. QED
      BY <3>4
  <2>2. CASE ~ (n + 1 <= Len(log))
    BY <2>2
  <2>. QED
    BY <2>1, <2>2
<1>. HIDE DEF S
<1>5. Nat \subseteq S
  BY <1>3, <1>4, Induction
<1>. QED
  BY <1>1, <1>5 DEF S, t

-------------------------------------------------------------------------------
(* The events of one program.                                              *)
EventsFollow(evs, progs, nms, logs, slot) ==
  \A n \in 0 .. Len(nms) :
    evs[n] = IF n = 0 THEN <<>>
             ELSE IF isFirstAttack(progs, nms, n)
             THEN evs[n-1] \o extractCombatTelemetryFromLogs(logs, progs[n], slot)
             ELSE evs[n-1]

LEMMA EventsUpToAreDefined ==
  ASSUME NEW progs, NEW nms, Len(nms) \in Nat, NEW logs, NEW slot
  PROVE  EventsFollow(eventsUpTo(progs, nms, logs, slot), progs, nms, logs, slot)
<1>. DEFINE next(f, n) == IF isFirstAttack(progs, nms, n)
                          THEN f[n-1] \o extractCombatTelemetryFromLogs(logs, progs[n], slot)
                          ELSE f[n-1]
            Is(f, N) == f = [n \in 0 .. N |-> IF n = 0 THEN <<>> ELSE next(f, n)]
            S == {N \in Nat : \E f : Is(f, N)}
<1>1. 0 \in S
  <2>1. Is([n \in 0 .. 0 |-> <<>>], 0)
    OBVIOUS
  <2>. QED
    BY <2>1
<1>2. ASSUME NEW N \in Nat, N \in S PROVE N + 1 \in S
  <2>1. PICK f : Is(f, N)
    BY <1>2
  <2>. DEFINE last == IF isFirstAttack(progs, nms, N + 1)
                      THEN f[N] \o extractCombatTelemetryFromLogs(logs, progs[N + 1], slot)
                      ELSE f[N]
              g == [n \in 0 .. N + 1 |-> IF n = N + 1 THEN last ELSE f[n]]
  <2>2. ASSUME NEW n \in 0 .. N + 1
        PROVE  g[n] = IF n = 0 THEN <<>> ELSE next(g, n)
    <3>1. CASE n = N + 1
      <4>1. g[n - 1] = f[N] /\ n # 0 /\ g[n] = last
        BY <3>1
      <4>. HIDE DEF g
      <4>2. next(g, n) = last
        BY <3>1, <4>1
      <4>. QED
        BY <4>1, <4>2, Zenon
    <3>2. CASE n \in 1 .. N
      <4>1. g[n] = f[n] /\ g[n - 1] = f[n - 1]
        BY <3>2
      <4>2. n # 0 /\ n \in 0 .. N
        BY <3>2
      <4>3. f[n] = next(f, n)
        BY <4>2, <2>1, Zenon
      <4>. QED
        BY <4>1, <4>2, <4>3, Zenon
    <3>3. CASE n = 0
      BY <3>3, <2>1
    <3>. QED
      BY <3>1, <3>2, <3>3
  <2>3. Is(g, N + 1)
    <3>. HIDE DEF next
    <3>. QED
      BY <2>2
  <2>. HIDE DEF g, Is
  <2>4. \E h : Is(h, N + 1)
    BY <2>3
  <2>. QED
    BY <2>4
<1>. HIDE DEF S
<1>3. Len(nms) \in S
  BY <1>1, <1>2, Induction
<1>4. PICK f : Is(f, Len(nms))
  BY <1>3 DEF S
<1>5. Is(eventsUpTo(progs, nms, logs, slot), Len(nms))
  BY <1>4, Zenon DEF eventsUpTo
<1>. DEFINE h == eventsUpTo(progs, nms, logs, slot)
<1>6. h = [n \in 0 .. Len(nms) |-> IF n = 0 THEN <<>> ELSE next(h, n)]
  BY <1>5
<1>. HIDE DEF h
<1>7. ASSUME NEW n \in 0 .. Len(nms)
      PROVE  h[n] = IF n = 0 THEN <<>> ELSE next(h, n)
  <2>. HIDE DEF next
  <2>. QED
    BY <1>6, Zenon
<1>. QED
  BY <1>7, Zenon DEF h, EventsFollow

(* Where the attacks are all of one program, what is shown is the telemetry *)
(* of that program.                                                        *)
LEMMA EventsOfOneProgram ==
  ASSUME NEW progs, NEW nms, Len(nms) \in Nat, NEW logs, NEW slot, NEW p,
         extractCombatTelemetryFromLogs(logs, p, slot) \in Seq(LogEntry),
         NEW first \in 1 .. Len(nms), isAttack(nms[first]),
         \A i \in 1 .. Len(nms) : isAttack(nms[i]) => progs[i] = p
  PROVE  combatEvents(progs, nms, logs, slot) = extractCombatTelemetryFromLogs(logs, p, slot)
<1>. DEFINE f == eventsUpTo(progs, nms, logs, slot)
            all == extractCombatTelemetryFromLogs(logs, p, slot)
            any(n) == \E i \in 1 .. n : isAttack(nms[i])
            S == {n \in Nat : n <= Len(nms) => f[n] = IF any(n) THEN all ELSE <<>>}
<1>1. EventsFollow(f, progs, nms, logs, slot)
  BY EventsUpToAreDefined
<1>. HIDE DEF f
<1>2. 0 \in S
  <2>1. f[0] = <<>>
    BY <1>1 DEF EventsFollow
  <2>2. ~any(0)
    OBVIOUS
  <2>. QED
    BY <2>1, <2>2
<1>3. ASSUME NEW n \in Nat, n \in S PROVE n + 1 \in S
  <2>1. SUFFICES ASSUME n + 1 <= Len(nms) PROVE f[n + 1] = IF any(n + 1) THEN all ELSE <<>>
    OBVIOUS
  <2>2. n + 1 \in 1 .. Len(nms) /\ n + 1 \in 0 .. Len(nms) /\ n + 1 # 0 /\ (n + 1) - 1 = n /\ n <= Len(nms)
        /\ 1 .. n \subseteq 1 .. Len(nms) /\ 1 .. n + 1 = 1 .. n \cup {n + 1}
    BY <2>1
  <2>3. f[n + 1] = IF isFirstAttack(progs, nms, n + 1)
                   THEN f[n] \o extractCombatTelemetryFromLogs(logs, progs[n + 1], slot)
                   ELSE f[n]
    BY <1>1, <2>2, Zenon DEF EventsFollow
  <2>4. f[n] = IF any(n) THEN all ELSE <<>>
    BY <1>3, <2>2
  <2>5. isFirstAttack(progs, nms, n + 1) <=>
          isAttack(nms[n + 1]) /\ \A m \in 1 .. n : isAttack(nms[m]) => progs[m] # progs[n + 1]
    BY <2>2 DEF isFirstAttack
  <2>6. CASE isAttack(nms[n + 1]) /\ ~any(n)
    <3>1. isFirstAttack(progs, nms, n + 1) /\ progs[n + 1] = p /\ any(n + 1)
      BY <2>2, <2>5, <2>6
    <3>2. f[n + 1] = <<>> \o all
      BY <2>3, <2>4, <2>6, <3>1, Zenon
    <3>3. <<>> \o all = all
      <4>. HIDE DEF all
      <4>1. all \in Seq(LogEntry)
        BY DEF all
      <4>. QED
        BY <4>1
    <3>. QED
      BY <3>1, <3>2, <3>3, Zenon
  <2>7. CASE any(n)
    <3>1. any(n + 1) /\ ~isFirstAttack(progs, nms, n + 1)
      <4>1. PICK m \in 1 .. n : isAttack(nms[m])
        BY <2>7
      <4>2. m \in 1 .. Len(nms) /\ progs[m] = p
        BY <2>2, <4>1
      <4>3. isAttack(nms[n + 1]) => progs[n + 1] = p
        BY <2>2
      <4>. QED
        BY <2>2, <2>5, <4>1, <4>2, <4>3
    <3>. QED
      BY <2>3, <2>4, <2>7, <3>1, Zenon
  <2>8. CASE ~isAttack(nms[n + 1]) /\ ~any(n)
    <3>1. ~any(n + 1)
      BY <2>2, <2>8
    <3>2. ~isFirstAttack(progs, nms, n + 1)
      BY <2>5, <2>8
    <3>. QED
      BY <2>3, <2>4, <2>8, <3>1, <3>2, Zenon
  <2>. QED
    BY <2>6, <2>7, <2>8
<1>4. any(Len(nms))
  OBVIOUS
<1>. HIDE DEF any, all, S
<1>5. Len(nms) \in S
  BY <1>2, <1>3, Induction
<1>6. f[Len(nms)] = all
  BY <1>4, <1>5 DEF S
<1>. QED
  BY <1>6 DEF combatEvents, f, all

-------------------------------------------------------------------------------
LEMMA PairingUpToIsDefined ==
  ASSUME NEW nms, Len(nms) \in Nat, NEW evs
  PROVE  pairingUpTo(nms, evs) =
           [n \in 0 .. Len(nms) |->
              IF n = 0 THEN [i \in DOMAIN nms |-> 0]
              ELSE IF isAttack(nms[n]) THEN take(pairingUpTo(nms, evs)[n-1], n, evs, kindOf(nms[n]))
              ELSE pairingUpTo(nms, evs)[n-1]]
<1>. DEFINE zero == [i \in DOMAIN nms |-> 0]
            next(f, n) == IF isAttack(nms[n]) THEN take(f[n-1], n, evs, kindOf(nms[n])) ELSE f[n-1]
            Is(f, N) == f = [n \in 0 .. N |-> IF n = 0 THEN zero ELSE next(f, n)]
            S == {N \in Nat : \E f : Is(f, N)}
<1>1. 0 \in S
  <2>. HIDE DEF zero
  <2>1. Is([n \in 0 .. 0 |-> zero], 0)
    OBVIOUS
  <2>. QED
    BY <2>1
<1>2. ASSUME NEW N \in Nat, N \in S PROVE N + 1 \in S
  <2>. HIDE DEF zero
  <2>1. PICK f : Is(f, N)
    BY <1>2
  <2>. DEFINE last == IF isAttack(nms[N + 1]) THEN take(f[N], N + 1, evs, kindOf(nms[N + 1])) ELSE f[N]
              g == [n \in 0 .. N + 1 |-> IF n = N + 1 THEN last ELSE f[n]]
  <2>2. ASSUME NEW n \in 0 .. N + 1
        PROVE  g[n] = IF n = 0 THEN zero ELSE next(g, n)
    <3>1. CASE n = N + 1
      <4>1. g[n - 1] = f[N] /\ n # 0 /\ g[n] = last
        BY <3>1
      <4>. HIDE DEF g
      <4>2. next(g, n) = last
        BY <3>1, <4>1
      <4>. QED
        BY <4>1, <4>2, Zenon
    <3>2. CASE n \in 1 .. N
      <4>1. g[n] = f[n] /\ g[n - 1] = f[n - 1]
        BY <3>2
      <4>2. n # 0 /\ n \in 0 .. N
        BY <3>2
      <4>3. f[n] = next(f, n)
        BY <4>2, <2>1, Zenon
      <4>. QED
        BY <4>1, <4>2, <4>3, Zenon
    <3>3. CASE n = 0
      BY <3>3, <2>1
    <3>. QED
      BY <3>1, <3>2, <3>3
  <2>3. Is(g, N + 1)
    <3>. HIDE DEF next
    <3>. QED
      BY <2>2
  <2>. HIDE DEF g, Is
  <2>4. \E h : Is(h, N + 1)
    BY <2>3
  <2>. QED
    BY <2>4
<1>. HIDE DEF S
<1>3. Len(nms) \in S
  BY <1>1, <1>2, Induction
<1>4. PICK f : Is(f, Len(nms))
  BY <1>3 DEF S
<1>. QED
  BY <1>4, Zenon DEF pairingUpTo

(* Every attack has one event, of its kind, and the events are in the order *)
(* of the attacks.                                                         *)
OnePerAttack(nms, evs) ==
  /\ \A e \in 1 .. Len(evs) : /\ evs[e].ix \in 1 .. Len(nms) /\ isAttack(nms[evs[e].ix])
                              /\ evs[e].bytes.kind = kindOf(nms[evs[e].ix])
  /\ \A d, e \in 1 .. Len(evs) : d < e => evs[d].ix < evs[e].ix
  /\ \A i \in 1 .. Len(nms) : isAttack(nms[i]) => \E e \in 1 .. Len(evs) : evs[e].ix = i

(* The attacks among the first n instructions have theirs, no other has one. *)
HaveTheirs(pairs, n, nms, evs) ==
  /\ DOMAIN pairs = 1 .. Len(nms)
  /\ \A i \in 1 .. Len(nms) :
       IF i <= n /\ isAttack(nms[i]) THEN pairs[i] \in 1 .. Len(evs) /\ evs[pairs[i]].ix = i
                                     ELSE pairs[i] = 0

LEMMA TakesItsOwn ==
  ASSUME NEW nms, Len(nms) \in Nat, NEW evs, Len(evs) \in Nat, DOMAIN evs = 1 .. Len(evs),
         OnePerAttack(nms, evs), NEW n \in Nat, n + 1 <= Len(nms), isAttack(nms[n + 1]),
         NEW pairs, HaveTheirs(pairs, n, nms, evs)
  PROVE  HaveTheirs(take(pairs, n + 1, evs, kindOf(nms[n + 1])), n + 1, nms, evs)
<1>. DEFINE N == Len(nms)
            M == Len(evs)
            free == {e \in DOMAIN evs : evs[e].bytes.kind = kindOf(nms[n + 1])
                                        /\ \A j \in DOMAIN pairs : pairs[j] # e}
<1>1. /\ N \in Nat /\ M \in Nat /\ DOMAIN evs = 1 .. M /\ n + 1 \in 1 .. N
  OBVIOUS
<1>2. /\ \A e \in 1 .. M : evs[e].ix \in 1 .. N /\ isAttack(nms[evs[e].ix])
                           /\ evs[e].bytes.kind = kindOf(nms[evs[e].ix])
      /\ \A d, e \in 1 .. M : d < e => evs[d].ix < evs[e].ix
      /\ \A i \in 1 .. N : isAttack(nms[i]) => \E e \in 1 .. M : evs[e].ix = i
  BY DEF OnePerAttack
<1>3. /\ DOMAIN pairs = 1 .. N
      /\ \A i \in 1 .. N :
           IF i <= n /\ isAttack(nms[i]) THEN pairs[i] \in 1 .. M /\ evs[pairs[i]].ix = i
                                         ELSE pairs[i] = 0
  BY DEF HaveTheirs
<1>4. PICK own \in 1 .. M : evs[own].ix = n + 1
  BY <1>1, <1>2
<1>. HIDE DEF N, M
<1>5. own \in free
  <2>1. evs[own].bytes.kind = kindOf(nms[n + 1])
    BY <1>2, <1>4
  <2>2. ASSUME NEW j \in 1 .. N PROVE pairs[j] # own
    <3>1. CASE j <= n /\ isAttack(nms[j])
      <4>1. evs[pairs[j]].ix = j /\ j # n + 1
        BY <1>1, <1>3, <3>1
      <4>. QED
        BY <1>4, <4>1
    <3>2. CASE ~(j <= n /\ isAttack(nms[j]))
      <4>1. pairs[j] = 0 /\ own # 0
        BY <1>1, <1>3, <1>4, <3>2
      <4>. QED
        BY <4>1
    <3>. QED
      BY <3>1, <3>2
  <2>. QED
    BY <1>1, <1>3, <1>4, <2>1, <2>2
<1>6. ASSUME NEW f \in free PROVE own <= f
  <2>1. f \in 1 .. M /\ \A j \in 1 .. N : pairs[j] # f
    BY <1>1, <1>3
  <2>2. SUFFICES ASSUME f < own PROVE FALSE
    BY <1>1, <1>4, <2>1
  <2>. DEFINE i == evs[f].ix
  <2>3. i < evs[own].ix /\ i \in 1 .. N /\ isAttack(nms[i])
    BY <1>2, <1>4, <2>1, <2>2
  <2>4. i <= n
    BY <1>1, <1>4, <2>3
  <2>5. pairs[i] \in 1 .. M /\ evs[pairs[i]].ix = i
    BY <1>3, <2>3, <2>4
  <2>6. pairs[i] = f
    <3>. DEFINE e == pairs[i]
    <3>1. e \in 1 .. M /\ evs[e].ix = evs[f].ix
      BY <2>5
    <3>. HIDE DEF e, i
    <3>2. ~(e < f) /\ ~(f < e)
      <4>1. evs[e].ix \in 1 .. N /\ evs[f].ix \in 1 .. N
        BY <1>2, <2>1, <3>1
      <4>2. e < f => evs[e].ix < evs[f].ix
        BY <1>2, <2>1, <3>1
      <4>3. f < e => evs[f].ix < evs[e].ix
        BY <1>2, <2>1, <3>1
      <4>. QED
        BY <1>1, <3>1, <4>1, <4>2, <4>3
    <3>3. e = f
      BY <1>1, <2>1, <3>1, <3>2
    <3>. QED
      BY <3>3 DEF e
  <2>. QED
    BY <2>1, <2>3, <2>6
<1>7. \A e \in free : e \in Nat
  BY <1>1
<1>. DEFINE least == CHOOSE e \in free : \A f \in free : e <= f
<1>8. least = own
  <2>1. \A e \in free : (\A f \in free : e <= f) => e = own
    BY <1>5, <1>6, <1>7
  <2>. HIDE DEF free
  <2>. QED
    BY <1>5, <1>6, <2>1
<1>9. take(pairs, n + 1, evs, kindOf(nms[n + 1])) = [pairs EXCEPT ![n + 1] = own]
  <2>1. take(pairs, n + 1, evs, kindOf(nms[n + 1])) =
          IF free = {} THEN pairs ELSE [pairs EXCEPT ![n + 1] = least]
    BY Zenon DEF take
  <2>. HIDE DEF free, least
  <2>. QED
    BY <1>5, <1>8, <2>1
<1>. DEFINE new == [pairs EXCEPT ![n + 1] = own]
<1>10. DOMAIN new = 1 .. N /\ new[n + 1] = own /\ \A i \in 1 .. N : i # n + 1 => new[i] = pairs[i]
  BY <1>1, <1>3
<1>. HIDE DEF new
<1>11. ASSUME NEW i \in 1 .. N
       PROVE  IF i <= n + 1 /\ isAttack(nms[i]) THEN new[i] \in 1 .. M /\ evs[new[i]].ix = i
                                                ELSE new[i] = 0
  <2>1. CASE i = n + 1
    BY <1>1, <1>4, <1>10, <2>1
  <2>2. CASE i # n + 1
    <3>1. i <= n + 1 <=> i <= n
      BY <1>1, <2>2
    <3>. QED
      BY <1>3, <1>10, <2>2, <3>1
  <2>. QED
    BY <2>1, <2>2
<1>. QED
  BY <1>9, <1>10, <1>11 DEF HaveTheirs, new, N, M

LEMMA PairedInOrder ==
  ASSUME NEW nms, Len(nms) \in Nat, DOMAIN nms = 1 .. Len(nms),
         NEW evs, Len(evs) \in Nat, DOMAIN evs = 1 .. Len(evs), OnePerAttack(nms, evs)
  PROVE  HaveTheirs(pairing(nms, evs), Len(nms), nms, evs)
<1>. DEFINE f == pairingUpTo(nms, evs)
            S == {n \in Nat : n <= Len(nms) => HaveTheirs(f[n], n, nms, evs)}
<1>1. f = [n \in 0 .. Len(nms) |->
             IF n = 0 THEN [i \in DOMAIN nms |-> 0]
             ELSE IF isAttack(nms[n]) THEN take(f[n-1], n, evs, kindOf(nms[n]))
             ELSE f[n-1]]
  BY PairingUpToIsDefined
<1>. HIDE DEF f
<1>2. 0 \in S
  <2>1. f[0] = [i \in 1 .. Len(nms) |-> 0]
    BY <1>1
  <2>2. HaveTheirs(f[0], 0, nms, evs)
    BY <2>1 DEF HaveTheirs
  <2>. QED
    BY <2>2
<1>3. ASSUME NEW n \in Nat, n \in S PROVE n + 1 \in S
  <2>1. SUFFICES ASSUME n + 1 <= Len(nms) PROVE HaveTheirs(f[n + 1], n + 1, nms, evs)
    OBVIOUS
  <2>2. n + 1 \in 0 .. Len(nms) /\ n + 1 # 0 /\ (n + 1) - 1 = n /\ n <= Len(nms)
    BY <2>1
  <2>3. f[n + 1] = IF isAttack(nms[n + 1]) THEN take(f[n], n + 1, evs, kindOf(nms[n + 1])) ELSE f[n]
    BY <1>1, <2>2, Zenon
  <2>4. HaveTheirs(f[n], n, nms, evs)
    BY <1>3, <2>2
  <2>5. CASE isAttack(nms[n + 1])
    <3>1. HaveTheirs(take(f[n], n + 1, evs, kindOf(nms[n + 1])), n + 1, nms, evs)
      BY <2>1, <2>4, <2>5, TakesItsOwn
    <3>. QED
      BY <2>3, <2>5, <3>1
  <2>6. CASE ~isAttack(nms[n + 1])
    <3>1. f[n + 1] = f[n]
      BY <2>3, <2>6
    <3>2. ASSUME NEW i \in 1 .. Len(nms)
          PROVE  i <= n + 1 /\ isAttack(nms[i]) <=> i <= n /\ isAttack(nms[i])
      <4>1. CASE i = n + 1
        BY <2>6, <4>1
      <4>2. CASE i # n + 1
        BY <4>2
      <4>. QED
        BY <4>1, <4>2
    <3>. QED
      BY <2>4, <3>1, <3>2 DEF HaveTheirs
  <2>. QED
    BY <2>5, <2>6
<1>. HIDE DEF S
<1>4. Len(nms) \in S
  BY <1>2, <1>3, Induction
<1>. QED
  BY <1>4 DEF S, f, pairing

-------------------------------------------------------------------------------
LEMMA AllAreTaken ==
  ASSUME NEW A, NEW T, IsFiniteSet(A), IsFiniteSet(T), Cardinality(T) = Cardinality(A),
         NEW f \in [A -> T], \A i, j \in A : f[i] = f[j] => i = j
  PROVE  \A k \in T : \E i \in A : f[i] = k
<1>1. SUFFICES ASSUME NEW k \in T, \A i \in A : f[i] # k PROVE FALSE
  OBVIOUS
<1>2. IsFiniteSet(T \ {k}) /\ Cardinality(T \ {k}) = Cardinality(T) - 1
  BY FS_RemoveElement
<1>3. Cardinality(T \ {k}) < Cardinality(A)
  BY <1>2, FS_CardinalityType
<1>4. f \in [A -> T \ {k}]
  BY <1>1
<1>5. \E i, j \in A : i # j /\ f[i] = f[j]
  BY <1>2, <1>3, <1>4, FS_PigeonHole
<1>. QED
  BY <1>5

(* The telemetry in the log, and the attacks.                              *)
telemetry == {k \in DOMAIN log : log[k].kind = "data" /\ log[k].program \in Sage
                                                      /\ Canonical(log[k].bytes)}
attacks == {i \in DOMAIN tx : isAttack(names[i])}

EachLoggedOne ==
  /\ Cardinality(telemetry) = Cardinality(attacks)
  /\ \A i \in attacks : \E k \in telemetry : log[k].ix = i /\ log[k].bytes.kind = kindOf(names[i])
                                               /\ log[k].program = programs[i]

(* Where every attack has logged one event and there are no others, each   *)
(* event is of an attack, and no two of the same one.                      *)
LEMMA EventsAreOfAttacks ==
  ASSUME tx \in Seq(Instruction), log \in Seq(LogEntry), EachLoggedOne
  PROVE  /\ \A k \in telemetry : /\ log[k].ix \in attacks
                                 /\ log[k].bytes.kind = kindOf(names[log[k].ix])
                                 /\ log[k].program = programs[log[k].ix]
         /\ \A j, k \in telemetry : log[j].ix = log[k].ix => j = k
<1>1. IsFiniteSet(attacks) /\ IsFiniteSet(telemetry)
  <2>1. IsFiniteSet(1 .. Len(tx)) /\ IsFiniteSet(1 .. Len(log))
    BY FS_Interval
  <2>2. attacks \in SUBSET (1 .. Len(tx)) /\ telemetry \in SUBSET (1 .. Len(log))
    BY DEF attacks, telemetry
  <2>. QED
    BY <2>1, <2>2, FS_Subset
<1>. DEFINE Own(k, i) == log[k].ix = i /\ log[k].bytes.kind = kindOf(names[i])
                         /\ log[k].program = programs[i]
            f == [i \in attacks |-> CHOOSE k \in telemetry : Own(k, i)]
<1>2. \A i \in attacks : \E k \in telemetry : Own(k, i)
  BY DEF EachLoggedOne
<1>3. \A i \in attacks : f[i] \in telemetry /\ Own(f[i], i)
  <2>. HIDE DEF Own
  <2>. QED
    BY <1>2
<1>4. f \in [attacks -> telemetry]
  <2>1. f = [i \in attacks |-> f[i]]
    OBVIOUS
  <2>. HIDE DEF f
  <2>. QED
    BY <1>3, <2>1, Zenon
<1>. HIDE DEF f
<1>5. \A i, j \in attacks : f[i] = f[j] => i = j
  <2>1. \A i \in attacks : log[f[i]].ix = i
    BY <1>3, Zenon
  <2>. QED
    BY <2>1, Zenon
<1>6. \A k \in telemetry : \E i \in attacks : f[i] = k
  BY <1>1, <1>4, <1>5, AllAreTaken DEF EachLoggedOne
<1>7. \A k \in telemetry : \E i \in attacks : f[i] = k /\ Own(k, i)
  <2>. HIDE DEF Own
  <2>. QED
    BY <1>3, <1>6
<1>8. \A j, k \in telemetry : log[j].ix = log[k].ix => j = k
  <2>1. \A k \in telemetry : f[log[k].ix] = k
    BY <1>7, Zenon
  <2>. QED
    BY <2>1, Zenon
<1>9. \A k \in telemetry : log[k].ix \in attacks /\ Own(k, log[k].ix)
  BY <1>7, Zenon
<1>. QED
  BY <1>8, <1>9, Zenon

LEMMA AttacksAreOfSage ==
  ASSUME tx \in Seq(Instruction), NEW i \in attacks
  PROVE  programs[i] \in Sage /\ kindOf(names[i]) \in {Fleet, Starbase}
<1>1. i \in 1 .. Len(tx) /\ tx[i] \in Instruction /\ isAttack(tx[i].name)
      /\ programs[i] = tx[i].program
  BY DEF attacks, names, programs
<1>2. tx[i].program \in Sage
  BY <1>1 DEF Instruction, isAttack
<1>. QED
  BY <1>1, <1>2 DEF kindOf

(* What is shown of one program is one event per attack.                   *)
LEMMA EventsAreOnePerAttack ==
  ASSUME tx \in Seq(Instruction), log \in Seq(LogEntry), Ordered(log, at), EachLoggedOne,
         NEW p \in Sage, \A i \in attacks : programs[i] = p,
         NEW evs, TellsAll(evs, Len(log), p)
  PROVE  OnePerAttack(names, evs)
<1>1. /\ names = [i \in 1 .. Len(tx) |-> tx[i].name] /\ Len(tx) \in Nat
      /\ Len(names) = Len(tx) /\ attacks = {i \in 1 .. Len(names) : isAttack(names[i])}
      /\ Len(log) \in Nat /\ DOMAIN log = 1 .. Len(log)
  BY DEF names, attacks
<1>2. PICK pos : IsPlaced(evs, Len(log), p, pos)
  BY DEF TellsAll
<1>. DEFINE M == Len(evs)
<1>3. /\ \A e \in 1 .. M : pos[e] \in 1 .. Len(log)
      /\ \A e \in 1 .. M : evs[e] = log[pos[e]] /\ IsTelemetryOf(log[pos[e]], p)
      /\ \A d, e \in 1 .. M : d < e => pos[d] < pos[e]
      /\ \A k \in 1 .. Len(log) : IsTelemetryOf(log[k], p) => \E e \in 1 .. M : pos[e] = k
  BY <1>2 DEF IsPlaced
<1>4. /\ \A k \in telemetry : /\ log[k].ix \in attacks
                              /\ log[k].bytes.kind = kindOf(names[log[k].ix])
                              /\ log[k].program = programs[log[k].ix]
      /\ \A j, k \in telemetry : log[j].ix = log[k].ix => j = k
  BY EventsAreOfAttacks
<1>5. \A k \in 1 .. Len(log) : IsTelemetryOf(log[k], p) <=> k \in telemetry
  <2>1. \A k \in telemetry : log[k].program = p
    BY <1>4
  <2>. QED
    BY <1>1, <2>1 DEF telemetry, IsTelemetryOf
<1>6. \A e \in 1 .. M : pos[e] \in telemetry
  BY <1>3, <1>5
<1>7. \A e \in 1 .. M : evs[e].ix \in attacks /\ evs[e].bytes.kind = kindOf(names[evs[e].ix])
  BY <1>3, <1>4, <1>6
<1>8. ASSUME NEW d \in 1 .. M, NEW e \in 1 .. M, d < e PROVE evs[d].ix < evs[e].ix
  <2>. DEFINE j == pos[d]
              k == pos[e]
  <2>1. j < k /\ j \in telemetry /\ k \in telemetry /\ j \in 1 .. Len(log) /\ k \in 1 .. Len(log)
    BY <1>3, <1>6, <1>8
  <2>2. evs[d].ix = log[j].ix /\ evs[e].ix = log[k].ix
    BY <1>3
  <2>. HIDE DEF j, k
  <2>3. log[k].kind # "truncated"
    BY <2>1 DEF telemetry
  <2>4. log[j].ix <= log[k].ix
    BY <2>1, <2>3 DEF Ordered
  <2>5. log[j].ix # log[k].ix
    <3>1. j \in Nat /\ k \in Nat /\ j # k
      BY <1>1, <2>1
    <3>. QED
      BY <1>4, <2>1, <3>1, Zenon
  <2>6. log[j].ix \in Nat /\ log[k].ix \in Nat
    <3>1. log[j] \in LogEntry /\ log[k] \in LogEntry
      BY <2>1
    <3>. QED
      BY <3>1, IxIsNat
  <2>. QED
    BY <2>2, <2>4, <2>5, <2>6
<1>9. ASSUME NEW i \in attacks PROVE \E e \in 1 .. M : evs[e].ix = i
  <2>1. PICK k \in telemetry : log[k].ix = i
    BY DEF EachLoggedOne
  <2>2. k \in 1 .. Len(log)
    BY <1>1 DEF telemetry
  <2>3. PICK e \in 1 .. M : pos[e] = k
    BY <1>3, <1>5, <2>1, <2>2
  <2>. QED
    BY <1>3, <2>1, <2>3
<1>10. \A i : i \in attacks <=> i \in 1 .. Len(names) /\ isAttack(names[i])
  BY <1>1
<1>. HIDE DEF M
<1>11. /\ \A e \in 1 .. M : /\ evs[e].ix \in 1 .. Len(names) /\ isAttack(names[evs[e].ix])
                            /\ evs[e].bytes.kind = kindOf(names[evs[e].ix])
       /\ \A d, e \in 1 .. M : d < e => evs[d].ix < evs[e].ix
       /\ \A i \in 1 .. Len(names) : isAttack(names[i]) => \E e \in 1 .. M : evs[e].ix = i
  BY <1>7, <1>8, <1>9, <1>10, Zenon
<1>. QED
  BY <1>11, Zenon DEF OnePerAttack, M

(* The premise of the pairing.                                             *)
OneProgramToldAll ==
  /\ Finished /\ err = 0
  /\ Cardinality({programs[i] : i \in attacks}) = 1
  /\ EachLoggedOne

LEMMA AttacksAreOfOneProgram ==
  ASSUME tx \in Seq(Instruction), Cardinality({programs[i] : i \in attacks}) = 1
  PROVE  \E p \in Sage, first \in attacks : \A i \in attacks : programs[i] = p
<1>. DEFINE P == {programs[i] : i \in attacks}
            g == [i \in attacks |-> programs[i]]
<1>1. IsFiniteSet(attacks)
  <2>1. IsFiniteSet(1 .. Len(tx)) /\ attacks \in SUBSET (1 .. Len(tx))
    BY FS_Interval DEF attacks
  <2>. QED
    BY <2>1, FS_Subset
<1>2. g \in Surjection(attacks, P)
  BY DEF Surjection
<1>. HIDE DEF g
<1>3. IsFiniteSet(P)
  <2>. HIDE DEF P
  <2>. QED
    BY <1>1, <1>2, FS_Surjection
<1>4. \E p : P = {p}
  <2>. HIDE DEF P
  <2>1. Cardinality(P) = 1
    BY DEF P
  <2>. QED
    BY <1>3, <2>1, FS_Singleton
<1>5. PICK p : P = {p}
  BY <1>4
<1>6. \A i \in attacks : programs[i] = p
  BY <1>5
<1>7. \E first : first \in attacks
  BY <1>5
<1>8. PICK first : first \in attacks
  BY <1>7
<1>9. programs[first] \in Sage
  BY <1>8, AttacksAreOfSage
<1>. QED
  BY <1>6, <1>8, <1>9

LEMMA EachAttackHasItsOwn ==
  ASSUME IInv, Ordered(log, at), OneProgramToldAll
  PROVE  \A i \in attacks : pairing(names, events)[i] # 0 /\ events[pairing(names, events)[i]].ix = i
<1>1. /\ tx \in Seq(Instruction) /\ log \in Seq(LogEntry) /\ DataIsOwn(log) /\ Len(tx) \in Nat
      /\ names = [i \in 1 .. Len(tx) |-> tx[i].name] /\ Len(names) = Len(tx) /\ DOMAIN names = 1 .. Len(tx)
  BY DEF IInv, TypeOK, IsRead, Logged, names
<1>2. PICK p \in Sage, first \in attacks : \A i \in attacks : programs[i] = p
  BY <1>1, AttacksAreOfOneProgram DEF OneProgramToldAll
<1>. DEFINE evs == extractCombatTelemetryFromLogs(log, p, Slot)
<1>3. evs = telemetryOf(p)[Len(log)]
  BY <1>1, EventsAreTelemetry DEF extractCombatTelemetryFromLogs
<1>4. TellsAll(evs, Len(log), p)
  BY <1>1, <1>3, TelemetryTellsAll
<1>. HIDE DEF evs
<1>5. evs \in Seq(LogEntry)
  BY <1>4 DEF TellsAll
<1>6. \A i : i \in attacks <=> i \in 1 .. Len(names) /\ isAttack(names[i])
  BY <1>1 DEF attacks
<1>7. events = evs
  <2>1. first \in 1 .. Len(names) /\ isAttack(names[first]) /\ Len(names) \in Nat
        /\ \A i \in 1 .. Len(names) : isAttack(names[i]) => programs[i] = p
    BY <1>1, <1>2, <1>6
  <2>2. combatEvents(programs, names, log, Slot) = extractCombatTelemetryFromLogs(log, p, Slot)
    BY <1>5, <2>1, EventsOfOneProgram DEF evs
  <2>. QED
    BY <2>2 DEF events, OneProgramToldAll, evs
<1>8. OnePerAttack(names, evs)
  BY <1>1, <1>2, <1>4, EventsAreOnePerAttack DEF OneProgramToldAll
<1>9. HaveTheirs(pairing(names, evs), Len(names), names, evs)
  BY <1>1, <1>5, <1>8, PairedInOrder
<1>10. ASSUME NEW i \in attacks
       PROVE  pairing(names, evs)[i] # 0 /\ evs[pairing(names, evs)[i]].ix = i
  <2>1. i \in 1 .. Len(names) /\ isAttack(names[i])
    BY <1>6, Zenon
  <2>3. i <= Len(names)
    <3>1. Len(names) \in Nat
      BY <1>1, Zenon
    <3>. QED
      BY <2>1, <3>1
  <2>2. pairing(names, evs)[i] \in 1 .. Len(evs) /\ evs[pairing(names, evs)[i]].ix = i
    BY <1>9, <2>1, <2>3, Zenon DEF HaveTheirs
  <2>. QED
    BY <1>5, <2>2
<1>. QED
  BY <1>7, <1>10

(* Where every attack has logged its one event, all of one program, and    *)
(* nothing else has, the combat card shows each attack with its own event  *)
(* (getCombatVisualizations), for any number of attacks, whatever other    *)
(* programs log and wherever the log is cut.                               *)
THEOREM AttacksAreShownTheirEvents == Spec => []PairedWithOwnEvent
<1>1. IInv /\ Ordered(log, at) => PairedWithOwnEvent
  BY EachAttackHasItsOwn DEF PairedWithOwnEvent, OneProgramToldAll, EachLoggedOne, telemetry, attacks
<1>2. Init => IInv /\ Ordered(log, at)
  BY InitIsRead DEF Init, Ordered
<1>3. (IInv /\ Ordered(log, at)) /\ [Next]_vars => (IInv /\ Ordered(log, at))'
  BY NextIsRead, NextIsOrdered
<1>. QED
  BY <1>1, <1>2, <1>3, PTL DEF Spec

-------------------------------------------------------------------------------
(* The replay of a combat, told from the telemetry of any two shots.       *)

(* The sums of the first damages are those its definition gives.           *)
LEMMA SumsAreDefined ==
  ASSUME NEW d, Len(COMBAT_DAMAGE_TYPES) \in Nat
  PROVE  Combat!sums(d) =
           [n \in 0 .. Len(COMBAT_DAMAGE_TYPES) |->
              IF n = 0 THEN d[Combat!other]
              ELSE Combat!sums(d)[n-1] + d[COMBAT_DAMAGE_TYPES[n]]]
<1>. DEFINE Is(f, N) == f = [n \in 0 .. N |-> IF n = 0 THEN d[Combat!other]
                                              ELSE f[n-1] + d[COMBAT_DAMAGE_TYPES[n]]]
            S == {N \in Nat : \E f : Is(f, N)}
<1>1. 0 \in S
  <2>1. Is([n \in 0 .. 0 |-> d[Combat!other]], 0)
    OBVIOUS
  <2>. QED
    BY <2>1
<1>2. ASSUME NEW N \in Nat, N \in S PROVE N + 1 \in S
  <2>1. PICK f : Is(f, N)
    BY <1>2
  <2>. DEFINE g == [n \in 0 .. N + 1 |-> IF n = N + 1 THEN f[N] + d[COMBAT_DAMAGE_TYPES[N + 1]]
                                         ELSE f[n]]
  <2>2. ASSUME NEW n \in 0 .. N + 1
        PROVE  g[n] = IF n = 0 THEN d[Combat!other] ELSE g[n-1] + d[COMBAT_DAMAGE_TYPES[n]]
    <3>1. CASE n = N + 1
      <4>1. g[n - 1] = f[N]
        BY <3>1
      <4>. QED
        BY <3>1, <4>1
    <3>2. CASE n \in 1 .. N
      <4>1. g[n] = f[n] /\ g[n - 1] = f[n - 1]
        BY <3>2
      <4>. QED
        BY <3>2, <4>1, <2>1
    <3>3. CASE n = 0
      BY <3>3, <2>1
    <3>. QED
      BY <3>1, <3>2, <3>3
  <2>3. Is(g, N + 1)
    BY <2>2
  <2>. HIDE DEF g, Is
  <2>4. \E h : Is(h, N + 1)
    BY <2>3
  <2>. QED
    BY <2>4
<1>. HIDE DEF S
<1>3. Len(COMBAT_DAMAGE_TYPES) \in S
  BY <1>1, <1>2, Induction
<1>4. PICK f : Is(f, Len(COMBAT_DAMAGE_TYPES))
  BY <1>3 DEF S
<1>. QED
  BY <1>4, Zenon DEF Combat!sums

(* So are the states of the loop over the types.                           *)
LEMMA BestIsDefined ==
  ASSUME NEW d, Len(COMBAT_DAMAGE_TYPES) \in Nat
  PROVE  Combat!considered(d) =
           [n \in 0 .. Len(COMBAT_DAMAGE_TYPES) |->
              IF n = 0 THEN [type |-> NoData, damage |-> 0, tied |-> FALSE]
              ELSE Combat!Consider(Combat!considered(d)[n-1], COMBAT_DAMAGE_TYPES[n],
                                   d[COMBAT_DAMAGE_TYPES[n]])]
<1>. DEFINE none == [type |-> NoData, damage |-> 0, tied |-> FALSE]
            next(best, n) == Combat!Consider(best, COMBAT_DAMAGE_TYPES[n], d[COMBAT_DAMAGE_TYPES[n]])
            Is(f, N) == f = [n \in 0 .. N |-> IF n = 0 THEN none ELSE next(f[n-1], n)]
            S == {N \in Nat : \E f : Is(f, N)}
<1>. HIDE DEF none, next
<1>1. 0 \in S
  <2>1. Is([n \in 0 .. 0 |-> none], 0)
    OBVIOUS
  <2>. QED
    BY <2>1
<1>2. ASSUME NEW N \in Nat, N \in S PROVE N + 1 \in S
  <2>1. PICK f : Is(f, N)
    BY <1>2
  <2>. DEFINE g == [n \in 0 .. N + 1 |-> IF n = N + 1 THEN next(f[N], N + 1) ELSE f[n]]
  <2>2. ASSUME NEW n \in 0 .. N + 1
        PROVE  g[n] = IF n = 0 THEN none ELSE next(g[n-1], n)
    <3>1. CASE n = N + 1
      <4>1. g[n - 1] = f[N]
        BY <3>1
      <4>. QED
        BY <3>1, <4>1
    <3>2. CASE n \in 1 .. N
      <4>1. g[n] = f[n] /\ g[n - 1] = f[n - 1]
        BY <3>2
      <4>. QED
        BY <3>2, <4>1, <2>1
    <3>3. CASE n = 0
      BY <3>3, <2>1
    <3>. QED
      BY <3>1, <3>2, <3>3
  <2>3. Is(g, N + 1)
    BY <2>2
  <2>. HIDE DEF g, Is
  <2>4. \E h : Is(h, N + 1)
    BY <2>3
  <2>. QED
    BY <2>4
<1>. HIDE DEF S
<1>3. Len(COMBAT_DAMAGE_TYPES) \in S
  BY <1>1, <1>2, Induction
<1>4. PICK f : Is(f, Len(COMBAT_DAMAGE_TYPES))
  BY <1>3 DEF S
<1>. QED
  BY <1>4, Zenon DEF Combat!considered, none, next

(* A damage is a number, and no damage is 0.                               *)
LEMMA TotalIsNat ==
  ASSUME Combat!ConstantsAssumption, NEW d \in [Combat!Types \cup {Combat!other} -> Nat]
  PROVE  /\ Combat!total(d) \in Nat
         /\ d = Combat!NoDamage => Combat!total(d) = 0
<1> DEFINE N == Len(COMBAT_DAMAGE_TYPES)
           S == {n \in Nat : n <= N => /\ Combat!sums(d)[n] \in Nat
                                       /\ d = Combat!NoDamage => Combat!sums(d)[n] = 0}
<1>1. COMBAT_DAMAGE_TYPES \in Seq(Combat!Types) /\ N \in Nat
  BY DEF Combat!ConstantsAssumption
<1>2. \A n \in 1 .. N : COMBAT_DAMAGE_TYPES[n] \in Combat!Types
  BY <1>1
<1>3. \A t \in Combat!Types \cup {Combat!other} : d[t] \in Nat /\ (d = Combat!NoDamage => d[t] = 0)
  BY DEF Combat!NoDamage
<1>4. 0 \in S
  BY <1>1, <1>3, SumsAreDefined
<1>5. ASSUME NEW n \in Nat, n \in S PROVE n + 1 \in S
  <2>1. SUFFICES ASSUME n + 1 <= N PROVE n + 1 \in S
    OBVIOUS
  <2>2. Combat!sums(d)[n + 1] = Combat!sums(d)[n] + d[COMBAT_DAMAGE_TYPES[n + 1]]
    BY <1>1, <2>1, SumsAreDefined
  <2>3. COMBAT_DAMAGE_TYPES[n + 1] \in Combat!Types
    BY <1>1, <1>2, <2>1
  <2>. QED
    BY <1>1, <1>3, <1>5, <2>1, <2>2, <2>3
<1>. HIDE DEF S
<1>6. N \in S
  BY <1>1, <1>4, <1>5, Induction
<1>. QED
  BY <1>1, <1>6 DEF S, Combat!total

-------------------------------------------------------------------------------
(* What the loop has after n types: the greatest damage among them, a type *)
(* of that damage, and whether another one does as much.                   *)
IsBest(best, d, n) ==
  LET first == {COMBAT_DAMAGE_TYPES[i] : i \in 1 .. n}
  IN  /\ best = [type |-> best.type, damage |-> best.damage, tied |-> best.tied]
      /\ best.damage \in Nat /\ best.tied \in BOOLEAN
      /\ \A t \in first : d[t] <= best.damage
      /\ best.damage = 0 => best.type = NoData /\ best.tied = FALSE
      /\ best.damage > 0 => best.type \in first /\ d[best.type] = best.damage
      /\ best.tied => \E t \in first : t # best.type /\ d[t] = best.damage
      /\ ~best.tied => \A t \in first : t # best.type => d[t] < best.damage \/ best.damage = 0

LEMMA BestIs ==
  ASSUME Combat!ConstantsAssumption, NEW d \in [Combat!Types -> Nat]
  PROVE  /\ \A t \in Combat!Types : d[t] <= Combat!bestOf(d).damage
         /\ Combat!bestOf(d).damage \in Nat /\ Combat!bestOf(d).tied \in BOOLEAN
         /\ LET best == Combat!bestOf(d)
            IN  best.damage > 0 =>
                  /\ best.type \in Combat!Types /\ d[best.type] = best.damage
                  /\ best.tied <=> \E t \in Combat!Types : t # best.type /\ d[t] = best.damage
<1> DEFINE N == Len(COMBAT_DAMAGE_TYPES)
           T == COMBAT_DAMAGE_TYPES
           S == {n \in Nat : n <= N => IsBest(Combat!considered(d)[n], d, n)}
<1>1. T \in Seq(Combat!Types) /\ N \in Nat /\ DOMAIN T = 1 .. N
  BY DEF Combat!ConstantsAssumption
<1>2. \A n \in 1 .. N : T[n] \in Combat!Types /\ d[T[n]] \in Nat
  BY <1>1
<1>3. \A i, j \in 1 .. N : i # j => T[i] # T[j]
  BY <1>1 DEF Combat!ConstantsAssumption, Combat!IsInjective
<1>4. 0 \in S
  <2>1. 0 \in 0 .. N
    BY <1>1
  <2>2. Combat!considered(d)[0] = [type |-> NoData, damage |-> 0, tied |-> FALSE]
    BY <1>1, <2>1, BestIsDefined, Zenon
  <2>3. IsBest([type |-> NoData, damage |-> 0, tied |-> FALSE], d, 0)
    BY DEF IsBest
  <2>. QED
    BY <2>2, <2>3
<1>5. ASSUME NEW n \in Nat, n \in S PROVE n + 1 \in S
  <2>1. SUFFICES ASSUME n + 1 <= N PROVE IsBest(Combat!considered(d)[n + 1], d, n + 1)
    OBVIOUS
  <2> DEFINE b == Combat!considered(d)[n]
             c == Combat!considered(d)[n + 1]
             t == T[n + 1]
             first == {T[i] : i \in 1 .. n}
             more == {T[i] : i \in 1 .. n + 1}
  <2>2. c = Combat!Consider(b, t, d[t])
    BY <1>1, <2>1, BestIsDefined
  <2>3. IsBest(b, d, n)
    BY <1>5, <2>1
  <2>4. t \in Combat!Types /\ d[t] \in Nat /\ t \notin first /\ more = first \cup {t}
    <3>1. t \in Combat!Types /\ d[t] \in Nat
      BY <1>1, <1>2, <2>1
    <3>2. t \notin first
      BY <1>1, <1>3, <2>1
    <3>3. 1 .. n + 1 = (1 .. n) \cup {n + 1}
      OBVIOUS
    <3>. QED
      BY <3>1, <3>2, <3>3
  <2>5. \A u \in first : u \in Combat!Types /\ d[u] \in Nat
    BY <1>1, <1>2, <2>1
  <2> HIDE DEF b, c, t, first, more
  <2>6. IsBest(b, d, n) <=>
          /\ b = [type |-> b.type, damage |-> b.damage, tied |-> b.tied]
          /\ b.damage \in Nat /\ b.tied \in BOOLEAN
          /\ \A u \in first : d[u] <= b.damage
          /\ b.damage = 0 => b.type = NoData /\ b.tied = FALSE
          /\ b.damage > 0 => b.type \in first /\ d[b.type] = b.damage
          /\ b.tied => \E u \in first : u # b.type /\ d[u] = b.damage
          /\ ~b.tied => \A u \in first : u # b.type => d[u] < b.damage \/ b.damage = 0
    BY DEF IsBest, first
  <2>7. IsBest(c, d, n + 1) <=>
          /\ c = [type |-> c.type, damage |-> c.damage, tied |-> c.tied]
          /\ c.damage \in Nat /\ c.tied \in BOOLEAN
          /\ \A u \in more : d[u] <= c.damage
          /\ c.damage = 0 => c.type = NoData /\ c.tied = FALSE
          /\ c.damage > 0 => c.type \in more /\ d[c.type] = c.damage
          /\ c.tied => \E u \in more : u # c.type /\ d[u] = c.damage
          /\ ~c.tied => \A u \in more : u # c.type => d[u] < c.damage \/ c.damage = 0
    BY DEF IsBest, more
  <2>8. CASE d[t] > b.damage
    <3>1. c = [type |-> t, damage |-> d[t], tied |-> FALSE]
      BY <2>2, <2>8 DEF Combat!Consider
    <3>. QED
      BY <2>3, <2>4, <2>5, <2>6, <2>7, <2>8, <3>1 DEF c
  <2>9. CASE d[t] = b.damage /\ d[t] > 0
    <3>1. c = [b EXCEPT !.tied = TRUE]
      BY <2>2, <2>4, <2>9 DEF Combat!Consider
    <3>2. c = [type |-> b.type, damage |-> b.damage, tied |-> TRUE]
      BY <2>3, <2>6, <3>1
    <3>. QED
      BY <2>3, <2>4, <2>5, <2>6, <2>7, <2>9, <3>2 DEF c
  <2>10. CASE ~(d[t] > b.damage) /\ ~(d[t] = b.damage /\ d[t] > 0)
    <3>1. c = b
      BY <2>2, <2>10 DEF Combat!Consider
    <3>. QED
      BY <2>3, <2>4, <2>5, <2>6, <2>7, <2>10, <3>1 DEF c
  <2>. QED
    BY <2>8, <2>9, <2>10
<1>. HIDE DEF S
<1>6. IsBest(Combat!bestOf(d), d, N)
  <2>1. N \in S
    BY <1>1, <1>4, <1>5, Induction
  <2>. QED
    BY <1>1, <2>1 DEF S, Combat!bestOf
<1>7. {T[i] : i \in 1 .. N} = Combat!Types
  BY <1>1 DEF Combat!Types, Combat!ToSet
<1>. HIDE DEF T, N
<1>8. \A t \in Combat!Types : d[t] \in Nat
  OBVIOUS
<1>. QED
  BY <1>6, <1>7, <1>8 DEF IsBest, T

-------------------------------------------------------------------------------
(* What a shot at c may be.                                                *)
Fires(s, c) ==
  LET damage == Combat!total(s.damage)
  IN  /\ s.result \in {"none", "miss", "dodge", "hit"} /\ s.crit \in BOOLEAN /\ s.blocked \in Nat
      /\ s.damage \in [Combat!Types \cup {Combat!other} -> Nat] /\ damage \in Nat
      /\ s.sp \in Nat /\ s.hp \in Nat
      /\ s.sp <= c.spQ6 \div Q6_SCALE /\ s.hp <= c.hp
      /\ s.sp + s.hp <= damage
      /\ s.crit => damage + s.blocked > 0
      /\ s.result # "hit" => ~s.crit /\ s.blocked = 0 /\ damage = 0

Combatant == [hp : Hp, spQ6 : SpQ6]

LEMMA CombatantIs ==
  ASSUME Combat!ConstantsAssumption, NEW c \in Combatant
  PROVE  c.hp \in Nat /\ c.hp > 0 /\ c.spQ6 \in Nat /\ c.spQ6 \div Q6_SCALE \in Nat
<1>1. c.hp \in Hp /\ c.spQ6 \in SpQ6
  BY DEF Combatant
<1>2. c.hp \in Nat /\ c.hp > 0 /\ c.spQ6 \in Nat /\ Q6_SCALE \in Nat /\ Q6_SCALE > 0
  BY <1>1 DEF Combat!ConstantsAssumption
<1>. QED
  BY <1>2, SMT

LEMMA ShotsFire ==
  ASSUME Combat!ConstantsAssumption, NEW c \in Combatant, NEW s \in Combat!ShotsAt(c)
  PROVE  Fires(s, c)
<1>1. c.hp \in Nat /\ c.spQ6 \div Q6_SCALE \in Nat
  BY CombatantIs
<1>2. CASE \E r \in {"none", "miss", "dodge"} :
             s = [result |-> r, crit |-> FALSE, blocked |-> 0, damage |-> Combat!NoDamage,
                  sp |-> 0, hp |-> 0]
  <2>1. Combat!NoDamage \in [Combat!Types \cup {Combat!other} -> Nat]
    BY DEF Combat!NoDamage
  <2>2. Combat!total(Combat!NoDamage) = 0
    BY <2>1, TotalIsNat
  <2>3. /\ s.result \in {"none", "miss", "dodge"} /\ s.crit = FALSE /\ s.blocked = 0
        /\ s.damage = Combat!NoDamage /\ s.sp = 0 /\ s.hp = 0
    BY <1>2
  <2>. QED
    <3>1. s.crit \in BOOLEAN /\ ~s.crit
      BY <2>3
    <3>2. Combat!total(s.damage) = 0 /\ s.damage \in [Combat!Types \cup {Combat!other} -> Nat]
      BY <2>1, <2>2, <2>3
    <3>. HIDE DEF Combat!NoDamage
    <3>. QED
      BY <1>1, <2>3, <3>1, <3>2 DEF Fires
<1>3. CASE /\ s \in {Combat!Shot("hit", crit, b, d, sp, hp) :
                       crit \in BOOLEAN, b \in Blocks, d \in Damages,
                       sp \in 0 .. (c.spQ6 \div Q6_SCALE), hp \in 0 .. c.hp}
           /\ s.sp + s.hp <= Combat!total(s.damage)
           /\ s.crit => Combat!total(s.damage) + s.blocked > 0
  <2>1. PICK crit \in BOOLEAN, b \in Blocks, d \in Damages, sp \in 0 .. (c.spQ6 \div Q6_SCALE),
             hp \in 0 .. c.hp : s = Combat!Shot("hit", crit, b, d, sp, hp)
    BY <1>3
  <2>2. /\ s.result = "hit" /\ s.crit = crit /\ s.blocked = b /\ s.damage = d /\ s.sp = sp /\ s.hp = hp
    BY <2>1 DEF Combat!Shot
  <2>3. b \in Nat /\ d \in [Combat!Types \cup {Combat!other} -> Nat]
    BY DEF Combat!ConstantsAssumption
  <2>4. Combat!total(d) \in Nat
    BY <2>3, TotalIsNat
  <2>. QED
    BY <1>1, <1>3, <2>2, <2>3, <2>4 DEF Fires
<1>. QED
  BY <1>2, <1>3 DEF Combat!ShotsAt, Combat!Shot

(* What the telemetry tells of a shot, and of its target.                  *)
LEMMA SummaryIs ==
  ASSUME Combat!ConstantsAssumption, NEW v \in 1 .. 3, NEW c, NEW s, Fires(s, c)
  PROVE  /\ Combat!summary(v, s) \in Combat!CombatShotSummary
         /\ Combat!summary(v, s) # NoData
<1> DEFINE byType == [t \in Combat!Types |-> s.damage[t]]
<1>1. byType \in [Combat!Types -> Nat] /\ s.damage[Combat!other] \in Nat
  BY DEF Fires
<1>2. Combat!summary(v, s) \in Combat!CombatShotSummary
  BY <1>1 DEF Fires, Combat!summary, Combat!CombatShotSummary
<1>. QED
  BY <1>2 DEF Combat!ConstantsAssumption

(* The type a shot is given is the one that dominates its damage, and none *)
(* where there is none or the version does not tell.                       *)
Dominates(s, t) ==
  \A u \in (Combat!Types \cup {Combat!other}) \ {t} : s.damage[u] < s.damage[t]

LEMMA DominantIs ==
  ASSUME Combat!ConstantsAssumption, NEW v \in 1 .. 3, NEW c, NEW s, Fires(s, c)
  PROVE  LET type == Combat!getDominantCombatDamageType(Combat!summary(v, s))
         IN  /\ type \in Combat!Types \cup {NoData}
             /\ v > 1 => IF type = NoData THEN \A t \in Combat!Types : ~Dominates(s, t)
                         ELSE Dominates(s, type)
<1> DEFINE byType == [t \in Combat!Types |-> s.damage[t]]
           sum == Combat!summary(v, s)
           best == Combat!bestOf(byType)
           o == s.damage[Combat!other]
           type == Combat!getDominantCombatDamageType(sum)
<1>1. byType \in [Combat!Types -> Nat] /\ o \in Nat /\ Combat!other \notin Combat!Types
  BY DEF Fires, Combat!ConstantsAssumption
<1>2. NoData \notin Combat!Types \cup Nat \cup [Combat!Types -> Nat]
  BY DEF Combat!ConstantsAssumption
<1>3. sum # NoData
  BY SummaryIs
<1>4. CASE v = 1
  <2>1. sum.effectiveDamageByType = NoData
    BY <1>4 DEF Combat!summary
  <2>2. type = NoData
    BY <2>1 DEF Combat!getDominantCombatDamageType, Combat!isUntyped
  <2>. QED
    BY <1>4, <2>2
<1>5. CASE v > 1
  <2>1. sum.effectiveDamageByType = byType /\ sum.otherEffectiveDamage = o
    BY <1>5 DEF Combat!summary
  <2>2. ~Combat!isUntyped(sum)
    BY <1>1, <1>2, <1>3, <2>1 DEF Combat!isUntyped
  <2>3. type = IF best.damage = 0 \/ best.tied \/ o >= best.damage THEN NoData ELSE best.type
    BY <2>1, <2>2 DEF Combat!getDominantCombatDamageType
  <2>4. /\ \A t \in Combat!Types : byType[t] <= best.damage
        /\ best.damage \in Nat /\ best.tied \in BOOLEAN
        /\ best.damage > 0 =>
             /\ best.type \in Combat!Types /\ byType[best.type] = best.damage
             /\ best.tied <=> \E t \in Combat!Types : t # best.type /\ byType[t] = best.damage
    BY <1>1, BestIs
  <2>5. \A t \in Combat!Types : byType[t] = s.damage[t] /\ s.damage[t] \in Nat
    BY <1>1
  <2> HIDE DEF best, byType, sum, o, type
  <2>6. CASE best.damage = 0 \/ best.tied \/ o >= best.damage
    <3>1. type = NoData
      BY <2>3, <2>6
    <3>2. ASSUME NEW t \in Combat!Types, Dominates(s, t) PROVE FALSE
      <4>1. o < s.damage[t]
        BY <1>1, <3>2 DEF Dominates, o
      <4>2. best.damage > 0 /\ ~(o >= best.damage) /\ best.tied
        BY <1>1, <2>4, <2>5, <2>6, <4>1
      <4>3. PICK u \in Combat!Types : u # best.type /\ s.damage[u] = best.damage
        BY <2>4, <2>5, <4>2
      <4>4. \A w \in Combat!Types \ {t} : s.damage[w] < s.damage[t]
        BY <3>2 DEF Dominates
      <4>. QED
        BY <2>4, <2>5, <4>2, <4>3, <4>4
    <3>. QED
      BY <3>1, <3>2 DEF type, sum
  <2>7. CASE ~(best.damage = 0 \/ best.tied \/ o >= best.damage)
    <3>1. type = best.type /\ best.type \in Combat!Types /\ s.damage[best.type] = best.damage
      BY <2>3, <2>4, <2>5, <2>7
    <3>2. \A u \in Combat!Types \ {best.type} : s.damage[u] < s.damage[best.type]
      BY <2>4, <2>5, <2>7, <3>1
    <3>3. s.damage[Combat!other] < s.damage[best.type]
      BY <1>1, <2>4, <2>7, <3>1 DEF o
    <3>4. Dominates(s, type)
      BY <3>1, <3>2, <3>3 DEF Dominates
    <3>5. type # NoData
      BY <1>2, <3>1
    <3>. QED
      BY <3>1, <3>4, <3>5 DEF type, sum
  <2>. QED
    BY <2>6, <2>7
<1>. QED
  BY <1>4, <1>5

LEMMA WholeOfWhole ==
  ASSUME NEW h \in Nat, NEW q \in Nat, q > 0
  PROVE  (h * q) \div q = h
OBVIOUS

LEMMA AppliedIs ==
  ASSUME Combat!ConstantsAssumption, NEW v \in 1 .. 3, NEW c \in Combatant, NEW s, Fires(s, c)
  PROVE  LET target == Combat!snapshot(v, c, s)
         IN  /\ Combat!getAppliedCombatHpDamage(target) = s.hp
             /\ Combat!getAppliedCombatSpDamage(target) = s.sp
             /\ target.destroyed <=> s.hp = c.hp
             /\ Combat!projectedWhole(target.projectedHpQ6) = target.postHp + s.hp
             /\ Combat!projectedWhole(target.projectedSpQ6) = target.postSp + s.sp
             /\ target.postHp \in Int /\ target.postSp \in Int
<1> DEFINE target == Combat!snapshot(v, c, s)
           whole == c.spQ6 \div Q6_SCALE
<1>1. c.hp \in Nat /\ whole \in Nat
  BY CombatantIs
<1>2. /\ target.projectedHpQ6 = c.hp * Q6_SCALE /\ target.projectedSpQ6 = c.spQ6
      /\ target.postHp = c.hp - s.hp /\ target.postSp = whole - s.sp
      /\ target.hpDamageTaken = s.hp
      /\ target.spDamageTaken = IF v = 1 THEN NoData ELSE s.sp
      /\ target.destroyed = (s.hp = c.hp)
  BY DEF Combat!snapshot, Combat!destroyedBy
<1>3. s.sp \in Nat /\ s.hp \in Nat /\ s.sp <= whole /\ s.hp <= c.hp
  BY DEF Fires
<1>4. NoData \notin Nat /\ Q6_SCALE \in Nat /\ Q6_SCALE > 0
  BY DEF Combat!ConstantsAssumption
<1>5. (c.hp * Q6_SCALE) \div Q6_SCALE = c.hp
  BY <1>1, <1>4, WholeOfWhole
<1> HIDE DEF target, whole
<1>6. Combat!getAppliedCombatSpDamage(target) = s.sp
  <2>1. CASE v = 1
    <3>1. target.projectedSpQ6 \div Q6_SCALE = whole
      BY <1>2 DEF whole
    <3>2. Combat!getAppliedCombatSpDamage(target)
            = IF whole > target.postSp THEN whole - target.postSp ELSE 0
      BY <1>2, <2>1, <3>1 DEF Combat!getAppliedCombatSpDamage
    <3>. QED
      BY <1>1, <1>2, <1>3, <3>2
  <2>2. CASE v # 1
    BY <1>2, <1>3, <1>4, <2>2 DEF Combat!getAppliedCombatSpDamage
  <2>. QED
    BY <2>1, <2>2
<1>7. Combat!projectedWhole(target.projectedHpQ6) = c.hp /\ Combat!projectedWhole(target.projectedSpQ6) = whole
  BY <1>2, <1>5 DEF Combat!projectedWhole, whole
<1>8. Combat!getAppliedCombatHpDamage(target) = s.hp
  BY <1>2 DEF Combat!getAppliedCombatHpDamage
<1>. QED
  <2>1. target.destroyed <=> s.hp = c.hp
    BY <1>2, Zenon
  <2>2. /\ c.hp = target.postHp + s.hp /\ whole = target.postSp + s.sp
        /\ target.postHp \in Int /\ target.postSp \in Int
    BY <1>1, <1>2, <1>3
  <2>. QED
    BY <1>6, <1>7, <1>8, <2>1, <2>2, Zenon DEF target

(* What floats over the target of a shot.                                  *)
OnlyIf(condition, S) == IF condition THEN S ELSE {}

Floats(attempted, s, c, type) ==
  IF ~attempted THEN {Combat!Remark("NO SHOT")}
  ELSE IF s.result = "dodge" THEN {Combat!Remark("DODGE")}
  ELSE IF s.result # "hit" THEN {Combat!Remark("MISS")}
  ELSE IF s.sp = 0 /\ s.hp = 0
  THEN {IF Combat!total(s.damage) + s.blocked > 0 THEN Combat!Text("BLOCKED", 0, s.crit, NoData)
        ELSE Combat!Remark("NO DAMAGE")}
  ELSE OnlyIf(s.sp > 0, {Combat!Text("SP", s.sp, s.crit, type)})
       \cup OnlyIf(s.hp > 0, {Combat!Text("HP", s.hp, s.crit /\ s.sp = 0, type)})
       \cup OnlyIf(s.hp = c.hp, {Combat!Remark("DESTROYED")})

LEMMA SetOfBoth ==
  ASSUME NEW T, NEW x \in Seq(T), NEW y \in Seq(T)
  PROVE  x \o y \in Seq(T) /\ Combat!ToSet(x \o y) = Combat!ToSet(x) \cup Combat!ToSet(y)
<1> DEFINE r == x \o y
<1>1. /\ DOMAIN x = 1 .. Len(x) /\ DOMAIN y = 1 .. Len(y) /\ DOMAIN r = 1 .. Len(x) + Len(y)
      /\ Len(x) \in Nat /\ Len(y) \in Nat /\ r \in Seq(T)
  OBVIOUS
<1>2. \A i \in 1 .. Len(x) : r[i] = x[i]
  BY <1>1
<1>3. \A i \in 1 .. Len(y) : r[Len(x) + i] = y[i]
  BY <1>1
<1>4. \A i \in 1 .. Len(x) + Len(y) : r[i] = IF i <= Len(x) THEN x[i] ELSE y[i - Len(x)]
  BY <1>1
<1> HIDE DEF r
<1>5. Combat!ToSet(r) \subseteq Combat!ToSet(x) \cup Combat!ToSet(y)
  <2>1. ASSUME NEW i \in 1 .. Len(x) + Len(y) PROVE r[i] \in Combat!ToSet(x) \cup Combat!ToSet(y)
    <3>1. CASE i <= Len(x)
      BY <1>1, <1>4, <3>1 DEF Combat!ToSet
    <3>2. CASE i > Len(x)
      <4>1. i - Len(x) \in DOMAIN y /\ r[i] = y[i - Len(x)]
        BY <1>1, <1>4, <3>2
      <4>. QED
        BY <4>1 DEF Combat!ToSet
    <3>. QED
      BY <1>1, <3>1, <3>2
  <2>. QED
    BY <1>1, <2>1 DEF Combat!ToSet
<1>6. Combat!ToSet(x) \subseteq Combat!ToSet(r)
  BY <1>1, <1>2 DEF Combat!ToSet
<1>7. Combat!ToSet(y) \subseteq Combat!ToSet(r)
  <2>1. ASSUME NEW i \in 1 .. Len(y) PROVE y[i] \in Combat!ToSet(r)
    <3>1. Len(x) + i \in DOMAIN r
      BY <1>1
    <3>. QED
      BY <1>3, <3>1 DEF Combat!ToSet
  <2>. QED
    BY <1>1, <2>1 DEF Combat!ToSet
<1>. QED
  BY <1>1, <1>5, <1>6, <1>7 DEF r

LEMMA SetOfOne ==
  ASSUME NEW T, NEW x \in T
  PROVE  <<x>> \in Seq(T) /\ Combat!ToSet(<<x>>) = {x}
<1>1. ASSUME NEW s, s = <<x>> PROVE s \in Seq(T) /\ Combat!ToSet(s) = {x}
  BY <1>1 DEF Combat!ToSet
<1>. QED
  BY <1>1

LEMMA SetOfNone ==
  ASSUME NEW T
  PROVE  <<>> \in Seq(T) /\ Combat!ToSet(<<>>) = {}
BY DEF Combat!ToSet

LEMMA SetIf ==
  ASSUME NEW T, NEW x \in T, NEW condition, NEW s, s = IF condition THEN <<x>> ELSE <<>>
  PROVE  s \in Seq(T) /\ Combat!ToSet(s) = OnlyIf(condition, {x})
BY SetOfOne, SetOfNone DEF OnlyIf

LEMMA RemarkIsText ==
  ASSUME NEW x \in {"NO SHOT", "DODGE", "MISS", "NO DAMAGE", "DESTROYED", "DOWNGRADED", "DISRUPTED"}
  PROVE  Combat!Remark(x) \in Combat!FloatingText
BY DEF Combat!Remark, Combat!Text, Combat!FloatingText

LEMMA TextsAre ==
  ASSUME Combat!ConstantsAssumption, NEW v \in 1 .. 3, NEW c \in Combatant, NEW s, Fires(s, c),
         NEW attempted \in BOOLEAN, NEW shot, NEW hint \in Nat,
         \/ shot = Combat!summary(v, s)
         \/ shot = NoData /\ hint = Combat!total(s.damage) + s.blocked /\ s.result = "hit" /\ ~s.crit
  PROVE  LET target == Combat!snapshot(v, c, s)
             texts == Combat!getFloatingCombatText(attempted, shot, target, hint)
             type == Combat!getDominantCombatDamageType(shot)
         IN  /\ texts \in Seq(Combat!FloatingText)
             /\ Combat!ToSet(texts) = Floats(attempted, s, c, type)
<1> DEFINE target == Combat!snapshot(v, c, s)
           texts == Combat!getFloatingCombatText(attempted, shot, target, hint)
           type == Combat!getDominantCombatDamageType(shot)
           raw == Combat!total(s.damage) + s.blocked
           FT == Combat!FloatingText
           ofSp == Combat!Text("SP", s.sp, s.crit, type)
           ofHp == Combat!Text("HP", s.hp, s.crit /\ s.sp = 0, type)
           end == Combat!Remark("DESTROYED")
           p == IF s.sp > 0 THEN <<ofSp>> ELSE <<>>
           q == IF s.hp > 0 THEN <<ofHp>> ELSE <<>>
           r == IF target.destroyed THEN <<end>> ELSE <<>>
           blocked == Combat!Text("BLOCKED", 0, s.crit, NoData)
<1>1. type \in Combat!Types \cup {NoData}
  <2>1. CASE shot = Combat!summary(v, s)
    BY <2>1, DominantIs
  <2>2. CASE shot = NoData
    BY <2>2 DEF Combat!getDominantCombatDamageType, Combat!isUntyped
  <2>. QED
    BY <2>1, <2>2
<1>2. /\ s.sp \in Nat /\ s.hp \in Nat /\ s.crit \in BOOLEAN /\ s.blocked \in Nat
      /\ Combat!total(s.damage) \in Nat /\ raw \in Nat
  BY DEF Fires
<1>3. /\ Combat!getAppliedCombatHpDamage(target) = s.hp
      /\ Combat!getAppliedCombatSpDamage(target) = s.sp
      /\ target.destroyed <=> s.hp = c.hp
  BY AppliedIs
<1>4. /\ (shot # NoData /\ shot.crit) = s.crit
      /\ (shot # NoData /\ shot.dodged) <=> s.result = "dodge"
      /\ (shot # NoData /\ ~shot.hit) <=> s.result # "hit"
      /\ (IF shot = NoData THEN hint ELSE shot.rawDamage) = raw
      /\ (shot # NoData /\ shot.blockedDamage > 0) => raw > 0
  <2>1. CASE shot = Combat!summary(v, s)
    <3>1. shot # NoData
      BY <2>1, SummaryIs
    <3>2. /\ shot.crit = s.crit /\ shot.dodged = (s.result = "dodge") /\ shot.hit = (s.result = "hit")
          /\ shot.rawDamage = raw /\ shot.blockedDamage = s.blocked
      BY <2>1 DEF Combat!summary
    <3>3. s.blocked > 0 => raw > 0
      BY <1>2
    <3>4. (shot # NoData /\ shot.crit) = s.crit
      BY <1>2, <3>1, <3>2
    <3>. QED
      BY <3>1, <3>2, <3>3, <3>4, Zenon
  <2>2. CASE shot = NoData /\ hint = raw /\ s.result = "hit" /\ ~s.crit
    <3>1. (shot # NoData /\ shot.crit) = s.crit
      BY <1>2, <2>2
    <3>. QED
      BY <2>2, <3>1
  <2>. QED
    BY <2>1, <2>2
<1>5. ofSp \in FT /\ ofHp \in FT /\ end \in FT /\ blocked \in FT
  <2>1. (s.crit /\ s.sp = 0) \in BOOLEAN
    OBVIOUS
  <2>. QED
    BY <1>1, <1>2, <2>1, RemarkIsText DEF Combat!Text, Combat!FloatingText
<1> HIDE DEF target, raw, FT, type, ofSp, ofHp, end
<1>6. /\ p \in Seq(FT) /\ Combat!ToSet(p) = OnlyIf(s.sp > 0, {ofSp})
      /\ q \in Seq(FT) /\ Combat!ToSet(q) = OnlyIf(s.hp > 0, {ofHp})
      /\ r \in Seq(FT) /\ Combat!ToSet(r) = OnlyIf(target.destroyed, {end})
  BY <1>5, SetIf
<1> HIDE DEF p, q, r
<1>7. Combat!getFloatingCombatText(attempted, shot, target, hint) =
        IF ~attempted THEN <<Combat!Remark("NO SHOT")>>
        ELSE IF s.result = "dodge" THEN <<Combat!Remark("DODGE")>>
        ELSE IF s.result # "hit" THEN <<Combat!Remark("MISS")>>
        ELSE IF s.sp = 0 /\ s.hp = 0
        THEN IF raw > 0 THEN <<blocked>> ELSE <<Combat!Remark("NO DAMAGE")>>
        ELSE p \o q \o r
  BY <1>3, <1>4, Zenon DEF Combat!getFloatingCombatText, p, q, r, type, ofSp, ofHp, end
<1> HIDE DEF texts, blocked
<1>8. ASSUME ~attempted \/ s.result = "dodge" \/ s.result # "hit"
      PROVE  texts \in Seq(FT) /\ Combat!ToSet(texts) = Floats(attempted, s, c, type)
  <2>1. PICK x \in {"NO SHOT", "DODGE", "MISS"} :
          texts = <<Combat!Remark(x)>> /\ Floats(attempted, s, c, type) = {Combat!Remark(x)}
    BY <1>7, <1>8 DEF Floats, texts
  <2>2. Combat!Remark(x) \in FT
    BY RemarkIsText DEF FT
  <2>. QED
    BY <2>1, <2>2, SetOfOne
<1>9. ASSUME attempted /\ s.result = "hit" /\ s.sp = 0 /\ s.hp = 0
      PROVE  texts \in Seq(FT) /\ Combat!ToSet(texts) = Floats(attempted, s, c, type)
  <2>1. CASE raw > 0
    <3>1. texts = <<blocked>> /\ Floats(attempted, s, c, type) = {blocked}
      BY <1>7, <1>9, <2>1 DEF Floats, texts, raw, blocked
    <3>. QED
      BY <1>5, <3>1, SetOfOne
  <2>2. CASE ~(raw > 0)
    <3>1. /\ texts = <<Combat!Remark("NO DAMAGE")>>
          /\ Floats(attempted, s, c, type) = {Combat!Remark("NO DAMAGE")}
      BY <1>7, <1>9, <2>2 DEF Floats, texts, raw
    <3>2. Combat!Remark("NO DAMAGE") \in FT
      BY RemarkIsText DEF FT
    <3>. QED
      BY <3>1, <3>2, SetOfOne
  <2>. QED
    BY <2>1, <2>2
<1>10. ASSUME attempted /\ s.result = "hit" /\ ~(s.sp = 0 /\ s.hp = 0)
       PROVE  texts \in Seq(FT) /\ Combat!ToSet(texts) = Floats(attempted, s, c, type)
  <2>1. texts = p \o q \o r
    BY <1>7, <1>10 DEF texts
  <2>2. /\ p \o q \o r \in Seq(FT)
        /\ Combat!ToSet(p \o q \o r) = Combat!ToSet(p) \cup Combat!ToSet(q) \cup Combat!ToSet(r)
    <3>1. p \o q \in Seq(FT) /\ Combat!ToSet(p \o q) = Combat!ToSet(p) \cup Combat!ToSet(q)
      BY <1>6, SetOfBoth
    <3>2. ASSUME NEW x \in Seq(FT), Combat!ToSet(x) = Combat!ToSet(p) \cup Combat!ToSet(q)
          PROVE  /\ x \o r \in Seq(FT)
                 /\ Combat!ToSet(x \o r) = Combat!ToSet(p) \cup Combat!ToSet(q) \cup Combat!ToSet(r)
      <4>1. x \o r \in Seq(FT) /\ Combat!ToSet(x \o r) = Combat!ToSet(x) \cup Combat!ToSet(r)
        BY <1>6, SetOfBoth
      <4>. QED
        BY <3>2, <4>1
    <3>. QED
      BY <3>1, <3>2
  <2>3. Floats(attempted, s, c, type) = Combat!ToSet(p) \cup Combat!ToSet(q) \cup Combat!ToSet(r)
    <3>1. s.result # "dodge" /\ ~(s.result # "hit")
      BY <1>10
    <3>2. OnlyIf(target.destroyed, {end}) = OnlyIf(s.hp = c.hp, {end})
      BY <1>3, Zenon DEF OnlyIf
    <3>. QED
      BY <1>6, <1>10, <3>1, <3>2, Zenon DEF Floats, ofSp, ofHp, end
  <2>. QED
    BY <2>1, <2>2, <2>3
<1>11. texts \in Seq(FT) /\ Combat!ToSet(texts) = Floats(attempted, s, c, type)
  BY <1>8, <1>9, <1>10, Zenon
<1>. QED
  BY <1>11, Zenon DEF texts, type, target, FT

(* What happens to the target of a hit.                                    *)
Words(s, c) ==
  {t \in {"SP", "HP", "DESTROYED", "BLOCKED", "NO DAMAGE"} :
     \/ t = "SP" /\ s.sp > 0
     \/ t = "HP" /\ s.hp > 0
     \/ t = "DESTROYED" /\ Combat!destroyedBy(c, s)
     \/ t = "BLOCKED" /\ s.sp + s.hp = 0 /\ Combat!total(s.damage) + s.blocked > 0
     \/ t = "NO DAMAGE" /\ Combat!total(s.damage) + s.blocked = 0}

LEMMA WordsAre ==
  ASSUME NEW s, NEW c
  PROVE  Words(s, c) =
           OnlyIf(s.sp > 0, {"SP"}) \cup OnlyIf(s.hp > 0, {"HP"}) \cup OnlyIf(s.hp = c.hp, {"DESTROYED"})
             \cup OnlyIf(s.sp + s.hp = 0 /\ Combat!total(s.damage) + s.blocked > 0, {"BLOCKED"})
             \cup OnlyIf(Combat!total(s.damage) + s.blocked = 0, {"NO DAMAGE"})
<1> DEFINE raw == Combat!total(s.damage) + s.blocked
           A == s.sp > 0
           B == s.hp > 0
           C == s.hp = c.hp
           D == s.sp + s.hp = 0 /\ raw > 0
           E == raw = 0
<1>1. Words(s, c) =
        {t \in {"SP", "HP", "DESTROYED", "BLOCKED", "NO DAMAGE"} :
           \/ t = "SP" /\ A
           \/ t = "HP" /\ B
           \/ t = "DESTROYED" /\ C
           \/ t = "BLOCKED" /\ D
           \/ t = "NO DAMAGE" /\ E}
  BY Zenon DEF Words, Combat!destroyedBy
<1> HIDE DEF A, B, C, D, E
<1>2. Words(s, c) = OnlyIf(A, {"SP"}) \cup OnlyIf(B, {"HP"}) \cup OnlyIf(C, {"DESTROYED"})
                    \cup OnlyIf(D, {"BLOCKED"}) \cup OnlyIf(E, {"NO DAMAGE"})
  BY <1>1 DEF OnlyIf
<1>. QED
  BY <1>2, Zenon DEF A, B, C, D, E, raw

(* What became of a starbase may be told besides.                          *)
Besides == {Combat!Remark("DOWNGRADED"), Combat!Remark("DISRUPTED")}

(* What texts that tell a shot s at c say of it. *)
TellsShot(texts, attempted, s, c, type) ==
  /\ Combat!amountOf(texts, "SP") = IF attempted THEN s.sp ELSE 0
  /\ Combat!amountOf(texts, "HP") = IF attempted THEN s.hp ELSE 0
  /\ (attempted <=> s.result # "none") => Combat!Summary(texts) = Combat!Happened(s, c)
  /\ \A x \in Combat!ToSet(texts) : x.text \in {"SP", "HP"} => x.type = type

LEMMA ToldIs ==
  ASSUME Combat!ConstantsAssumption, NEW c \in Combatant, NEW s, Fires(s, c),
         NEW attempted \in BOOLEAN, NEW type, NEW texts, NEW D \in SUBSET Besides,
         Combat!ToSet(texts) = Floats(attempted, s, c, type) \cup D
  PROVE  TellsShot(texts, attempted, s, c, type)
<1> SUFFICES
      /\ Combat!amountOf(texts, "SP") = IF attempted THEN s.sp ELSE 0
      /\ Combat!amountOf(texts, "HP") = IF attempted THEN s.hp ELSE 0
      /\ (attempted <=> s.result # "none") => Combat!Summary(texts) = Combat!Happened(s, c)
      /\ \A x \in Combat!ToSet(texts) : x.text \in {"SP", "HP"} => x.type = type
  BY Zenon DEF TellsShot
<1> DEFINE raw == Combat!total(s.damage) + s.blocked
           S(t) == {x \in Combat!ToSet(texts) : x.text = t}
           all == Combat!ToSet(texts)
<1>1. /\ s.result \in {"none", "miss", "dodge", "hit"} /\ s.crit \in BOOLEAN
      /\ s.sp \in Nat /\ s.hp \in Nat /\ raw \in Nat
      /\ s.result # "hit" => ~s.crit /\ s.sp = 0 /\ s.hp = 0 /\ raw = 0
      /\ s.crit => raw > 0
      /\ c.hp > 0 /\ c.hp \in Nat
  BY CombatantIs DEF Fires
<1>2. \A x \in D : x.text \in {"DOWNGRADED", "DISRUPTED"} /\ x.crit = FALSE
  BY DEF Besides, Combat!Remark, Combat!Text
<1> HIDE DEF raw
<1>3. CASE ~attempted \/ s.result # "hit"
  <2>1. PICK w \in {"NO SHOT", "DODGE", "MISS"} :
          /\ Floats(attempted, s, c, type) = {Combat!Remark(w)}
          /\ (attempted <=> s.result # "none") =>
               w = IF s.result = "dodge" THEN "DODGE" ELSE IF s.result = "miss" THEN "MISS" ELSE "NO SHOT"
    <3>1. CASE ~attempted
      BY <1>1, <3>1 DEF Floats
    <3>2. CASE attempted /\ s.result = "dodge"
      BY <1>1, <3>2 DEF Floats
    <3>3. CASE attempted /\ s.result \in {"none", "miss"}
      BY <1>1, <3>3 DEF Floats
    <3>. QED
      BY <1>1, <1>3, <3>1, <3>2, <3>3
  <2> DEFINE m == Combat!Remark(w)
  <2>2. m.text = w /\ m.crit = FALSE /\ all = {m} \cup D
    BY <2>1 DEF Combat!Remark, Combat!Text
  <2> HIDE DEF m
  <2>3. S("SP") = {} /\ S("HP") = {} /\ \A x \in all : x.text \notin {"SP", "HP"} /\ x.crit = FALSE
    BY <1>2, <2>2
  <2>4. Combat!amountOf(texts, "SP") = 0 /\ Combat!amountOf(texts, "HP") = 0
    BY <2>3, Zenon DEF Combat!amountOf
  <2>5. IF attempted THEN s.sp = 0 /\ s.hp = 0 ELSE TRUE
    BY <1>1, <1>3
  <2>6. {x.text : x \in all} \ {"DOWNGRADED", "DISRUPTED"} = {w}
    BY <1>2, <2>2
  <2>7. ASSUME attempted <=> s.result # "none" PROVE Combat!Summary(texts) = Combat!Happened(s, c)
    <3>1. s.result # "hit"
      BY <1>3, <2>7
    <3>2. (\E x \in all : x.crit) = FALSE
      BY <2>3
    <3>3. Combat!Summary(texts) = [texts |-> {w}, sp |-> 0, hp |-> 0, crit |-> FALSE]
      BY <2>4, <2>6, <3>2 DEF Combat!Summary
    <3>4. {IF s.result = "dodge" THEN "DODGE" ELSE IF s.result = "miss" THEN "MISS" ELSE "NO SHOT"} = {w}
      BY <2>1, <2>7
    <3>5. Combat!Happened(s, c) = [texts |-> {w}, sp |-> 0, hp |-> 0, crit |-> FALSE]
      BY <3>1, <3>4, Zenon DEF Combat!Happened
    <3>. QED
      BY <3>3, <3>5
  <2>. QED
    BY <2>3, <2>4, <2>5, <2>7
<1>4. CASE attempted /\ s.result = "hit" /\ s.sp = 0 /\ s.hp = 0
  <2> DEFINE m == IF raw > 0 THEN Combat!Text("BLOCKED", 0, s.crit, NoData) ELSE Combat!Remark("NO DAMAGE")
             w == IF raw > 0 THEN "BLOCKED" ELSE "NO DAMAGE"
  <2>1. all = {m} \cup D
    BY <1>4 DEF Floats, raw
  <2>2. m.text = w /\ m.crit = s.crit
    <3>1. CASE raw > 0
      BY <3>1 DEF Combat!Text
    <3>2. CASE ~(raw > 0)
      <4>1. s.crit = FALSE
        BY <1>1, <3>2
      <4>. QED
        BY <3>2, <4>1 DEF Combat!Text, Combat!Remark
    <3>. QED
      BY <3>1, <3>2
  <2>3. /\ w \in {"BLOCKED", "NO DAMAGE"}
        /\ raw > 0 => w = "BLOCKED"
        /\ ~(raw > 0) => w = "NO DAMAGE"
    OBVIOUS
  <2> HIDE DEF m, w
  <2>4. S("SP") = {} /\ S("HP") = {} /\ \A x \in all : x.text \notin {"SP", "HP"}
    BY <1>2, <2>1, <2>2, <2>3
  <2>5. Combat!amountOf(texts, "SP") = 0 /\ Combat!amountOf(texts, "HP") = 0
    BY <2>4, Zenon DEF Combat!amountOf
  <2>6. {x.text : x \in all} \ {"DOWNGRADED", "DISRUPTED"} = {w}
    BY <1>2, <2>1, <2>2, <2>3
  <2>7. (\E x \in all : x.crit) = s.crit
    BY <1>1, <1>2, <2>1, <2>2
  <2>8. Combat!Summary(texts) = [texts |-> {w}, sp |-> 0, hp |-> 0, crit |-> s.crit]
    BY <2>5, <2>6, <2>7 DEF Combat!Summary
  <2>9. Words(s, c) = {w}
    <3>1. s.hp # c.hp /\ s.sp + s.hp = 0 /\ ~(s.sp > 0) /\ ~(s.hp > 0)
      BY <1>1, <1>4
    <3>2. Words(s, c) = OnlyIf(raw > 0, {"BLOCKED"}) \cup OnlyIf(raw = 0, {"NO DAMAGE"})
      BY <3>1, WordsAre DEF OnlyIf, raw
    <3>3. CASE raw > 0
      <4>1. ~(raw = 0) /\ w = "BLOCKED"
        BY <1>1, <2>3, <3>3
      <4>. QED
        BY <3>2, <3>3, <4>1 DEF OnlyIf
    <3>4. CASE ~(raw > 0)
      <4>1. raw = 0
        BY <1>1, <3>4
      <4>. QED
        BY <2>3, <3>2, <3>4, <4>1 DEF OnlyIf
    <3>. QED
      BY <3>3, <3>4
  <2>10. Combat!Happened(s, c) = [texts |-> {w}, sp |-> 0, hp |-> 0, crit |-> s.crit]
    BY <1>4, <2>9, Zenon DEF Combat!Happened, Words
  <2>11. Combat!Summary(texts) = Combat!Happened(s, c)
    BY <2>8, <2>10, Zenon
  <2>12. \A x \in Combat!ToSet(texts) : x.text \in {"SP", "HP"} => x.type = type
    BY <2>4
  <2>. QED
    BY <1>4, <2>5, <2>11, <2>12, Zenon
<1>5. CASE attempted /\ s.result = "hit" /\ ~(s.sp = 0 /\ s.hp = 0)
  <2> DEFINE ofSp == Combat!Text("SP", s.sp, s.crit, type)
             ofHp == Combat!Text("HP", s.hp, s.crit /\ s.sp = 0, type)
             end == Combat!Remark("DESTROYED")
             w == Words(s, c)
  <2>1. all = OnlyIf(s.sp > 0, {ofSp}) \cup OnlyIf(s.hp > 0, {ofHp}) \cup OnlyIf(s.hp = c.hp, {end}) \cup D
    BY <1>5 DEF Floats
  <2>2. /\ ofSp.text = "SP" /\ ofSp.amount = s.sp /\ ofSp.crit = s.crit /\ ofSp.type = type
        /\ ofHp.text = "HP" /\ ofHp.amount = s.hp /\ ofHp.crit = (s.crit /\ s.sp = 0) /\ ofHp.type = type
        /\ end.text = "DESTROYED" /\ end.crit = FALSE
    BY DEF Combat!Text, Combat!Remark
  <2> HIDE DEF ofSp, ofHp, end
  <2>3. S("SP") = OnlyIf(s.sp > 0, {ofSp}) /\ S("HP") = OnlyIf(s.hp > 0, {ofHp})
    BY <1>2, <2>1, <2>2 DEF OnlyIf
  <2>4. \A x \in all : x.text \in {"SP", "HP"} => x.type = type
    BY <1>2, <2>1, <2>2 DEF OnlyIf
  <2>5. Combat!amountOf(texts, "SP") = s.sp
    <3>1. Combat!amountOf(texts, "SP") = IF S("SP") = {} THEN 0 ELSE (CHOOSE x \in S("SP") : TRUE).amount
      BY Zenon DEF Combat!amountOf
    <3>. QED
      BY <1>1, <2>2, <2>3, <3>1 DEF OnlyIf
  <2>6. Combat!amountOf(texts, "HP") = s.hp
    <3>1. Combat!amountOf(texts, "HP") = IF S("HP") = {} THEN 0 ELSE (CHOOSE x \in S("HP") : TRUE).amount
      BY Zenon DEF Combat!amountOf
    <3>. QED
      BY <1>1, <2>2, <2>3, <3>1 DEF OnlyIf
  <2>7. (\E x \in all : x.crit) = s.crit
    <3>1. CASE s.crit
      <4>1. s.sp > 0 => ofSp \in all /\ ofSp.crit
        BY <2>1, <2>2, <3>1 DEF OnlyIf
      <4>2. ~(s.sp > 0) => ofHp \in all /\ ofHp.crit
        <5>1. ~(s.sp > 0) => s.sp = 0 /\ s.hp > 0
          BY <1>1, <1>5
        <5>2. ofHp.crit <=> s.crit /\ s.sp = 0
          BY <2>2, Zenon
        <5>. QED
          BY <2>1, <3>1, <5>1, <5>2 DEF OnlyIf
      <4>3. \E x \in all : x.crit
        BY <4>1, <4>2
      <4>. QED
        BY <1>1, <3>1, <4>3
    <3>2. CASE ~s.crit
      <4>1. \A x \in all : ~x.crit
        BY <1>2, <2>1, <2>2, <3>2 DEF OnlyIf
      <4>. QED
        BY <1>1, <3>2, <4>1
    <3>. QED
      BY <3>1, <3>2
  <2>8. {x.text : x \in all} \ {"DOWNGRADED", "DISRUPTED"} = w
    <3>1. w = OnlyIf(s.sp > 0, {"SP"}) \cup OnlyIf(s.hp > 0, {"HP"}) \cup OnlyIf(s.hp = c.hp, {"DESTROYED"})
      <4>1. s.sp + s.hp # 0 /\ raw # 0
        BY <1>1, <1>5 DEF Fires, raw
      <4>. QED
        BY <4>1, WordsAre DEF OnlyIf, raw
    <3> DEFINE X == OnlyIf(s.sp > 0, {ofSp}) \cup OnlyIf(s.hp > 0, {ofHp}) \cup OnlyIf(s.hp = c.hp, {end})
    <3>2. {x.text : x \in X} = w /\ all = X \cup D
      BY <2>1, <2>2, <3>1 DEF OnlyIf
    <3>3. "DOWNGRADED" \notin w /\ "DISRUPTED" \notin w
      BY <3>1 DEF OnlyIf
    <3> HIDE DEF X, w, all
    <3>. QED
      BY <1>2, <3>2, <3>3
  <2>9. Combat!Summary(texts) = [texts |-> w, sp |-> s.sp, hp |-> s.hp, crit |-> s.crit]
    BY <2>5, <2>6, <2>7, <2>8, Zenon DEF Combat!Summary
  <2>10. Combat!Happened(s, c) = [texts |-> w, sp |-> s.sp, hp |-> s.hp, crit |-> s.crit]
    BY <1>5, Zenon DEF Combat!Happened, Words
  <2>. QED
    BY <1>5, <2>4, <2>5, <2>6, <2>9, <2>10
<1>. QED
  BY <1>1, <1>3, <1>4, <1>5

LEMMA SetOfMoreTexts ==
  ASSUME NEW T, NEW s \in Seq(T), NEW x \in T
  PROVE  Append(s, x) \in Seq(T) /\ Combat!ToSet(Append(s, x)) = Combat!ToSet(s) \cup {x}
<1>1. Append(s, x) = s \o <<x>>
  OBVIOUS
<1>2. <<x>> \in Seq(T) /\ Combat!ToSet(<<x>>) = {x}
  BY SetOfOne
<1>3. ASSUME NEW y \in Seq(T), Combat!ToSet(y) = {x}
      PROVE  s \o y \in Seq(T) /\ Combat!ToSet(s \o y) = Combat!ToSet(s) \cup {x}
  BY <1>3, SetOfBoth
<1>. QED
  BY <1>1, <1>2, <1>3

-------------------------------------------------------------------------------
(* The combat, and once it is logged the event that tells of it.           *)
CombatIs ==
  /\ combat = [kind |-> combat.kind, start |-> combat.start,
               primary |-> combat.primary, return |-> combat.return]
  /\ combat.kind \in {"fleet-vs-fleet", "fleet-vs-starbase"}
  /\ combat.start \in [Combat!Side -> Combatant]
  /\ Fires(combat.primary, combat.start["right"])
  /\ Fires(combat.return, combat.start["left"])
  /\ combat.kind = "fleet-vs-starbase" =>
       combat.return.result \in {"none", "hit"} /\ ~combat.return.crit

EventIs ==
  IF phase # "logged" THEN event = NoData
  ELSE event = NoData \/ \E v \in 1 .. 3, downgraded \in BOOLEAN : event = Combat!telemetry(v, downgraded)

ReplayInv == CombatIs /\ EventIs

LEMMA InitIsReplay ==
  ASSUME Combat!ConstantsAssumption
  PROVE  Combat!Init => ReplayInv
<1> SUFFICES ASSUME Combat!Init PROVE ReplayInv
  OBVIOUS
<1>1. PICK kind \in {"fleet-vs-fleet", "fleet-vs-starbase"}, start \in [Combat!Side -> Combatant] :
        combat = [kind |-> kind, start |-> start, primary |-> Combat!NoShot, return |-> Combat!NoShot]
  BY DEF Combat!Init, Combatant
<1>2. /\ combat.kind = kind /\ combat.start = start
      /\ combat.primary = Combat!NoShot /\ combat.return = Combat!NoShot
  BY <1>1
<1>3. ASSUME NEW side \in Combat!Side PROVE Fires(Combat!NoShot, start[side])
  <2>1. start[side] \in Combatant
    OBVIOUS
  <2>2. Combat!NoShot \in Combat!ShotsAt(start[side])
    BY DEF Combat!NoShot, Combat!ShotsAt
  <2>. QED
    BY <2>1, <2>2, ShotsFire
<1>4. Combat!NoShot.result = "none" /\ ~Combat!NoShot.crit
  BY DEF Combat!NoShot, Combat!Shot
<1>5. phase # "logged" /\ event = NoData
  BY DEF Combat!Init
<1> HIDE DEF Combat!NoShot
<1>. QED
  BY <1>1, <1>2, <1>3, <1>4, <1>5 DEF ReplayInv, CombatIs, EventIs, Combat!Side

LEMMA NextIsReplay ==
  ASSUME Combat!ConstantsAssumption
  PROVE  ReplayInv /\ [Combat!Next]_<<phase, combat, event>> => ReplayInv'
<1> SUFFICES ASSUME ReplayInv, [Combat!Next]_<<phase, combat, event>> PROVE ReplayInv'
  OBVIOUS
<1> USE DEF ReplayInv
<1>1. combat.start["left"] \in Combatant /\ combat.start["right"] \in Combatant
  BY DEF CombatIs, Combat!Side
<1>2. CASE Combat!Attack
  <2>1. PICK s \in Combat!ShotsAt(combat.start["right"]) : combat' = [combat EXCEPT !.primary = s]
    BY <1>2 DEF Combat!Attack
  <2>2. Fires(s, combat.start["right"])
    BY <1>1, ShotsFire
  <2>3. combat' = [kind |-> combat.kind, start |-> combat.start, primary |-> s, return |-> combat.return]
    BY <2>1 DEF CombatIs
  <2>4. CombatIs'
    BY <2>2, <2>3 DEF CombatIs
  <2>. QED
    BY <1>2, <2>4 DEF Combat!Attack, EventIs
<1>3. CASE Combat!ReturnFire
  <2>1. PICK s \in Combat!ShotsAt(combat.start["left"]) :
          /\ combat.kind = "fleet-vs-starbase" => s.result \in {"none", "hit"} /\ ~s.crit
          /\ combat' = [combat EXCEPT !.return = s]
    BY <1>3 DEF Combat!ReturnFire
  <2>2. Fires(s, combat.start["left"])
    BY <1>1, ShotsFire
  <2>3. combat' = [kind |-> combat.kind, start |-> combat.start, primary |-> combat.primary, return |-> s]
    BY <2>1 DEF CombatIs
  <2>4. CombatIs'
    BY <2>1, <2>2, <2>3 DEF CombatIs
  <2>. QED
    BY <1>3, <2>4 DEF Combat!ReturnFire, EventIs
<1>4. CASE combat' = combat /\ phase' = "logged" /\ phase = "returned"
           /\ (event' = event \/ \E v \in 1 .. 3 : Combat!Log(v))
  <2>1. CombatIs'
    BY <1>4 DEF CombatIs
  <2>2. ASSUME NEW v \in 1 .. 3, NEW downgraded \in BOOLEAN
        PROVE  Combat!telemetry(v, downgraded)' = Combat!telemetry(v, downgraded)
    BY <1>4 DEF Combat!telemetry, Combat!disrupted
  <2>3. EventIs'
    <3>1. CASE event' = event
      BY <1>4, <3>1 DEF EventIs
    <3>2. CASE \E v \in 1 .. 3 : Combat!Log(v)
      <4>1. PICK v \in 1 .. 3, downgraded \in BOOLEAN : event' = Combat!telemetry(v, downgraded)
        BY <3>2 DEF Combat!Log
      <4>2. event' = Combat!telemetry(v, downgraded)'
        BY <2>2, <4>1
      <4>. QED
        BY <1>4, <4>2 DEF EventIs
    <3>. QED
      BY <1>4, <3>1, <3>2
  <2>. QED
    BY <2>1, <2>3
<1>5. CASE UNCHANGED <<phase, combat, event>>
  BY <1>5 DEF CombatIs, EventIs, Combat!telemetry, Combat!disrupted
<1>6. ASSUME NEW v \in 1 .. 3, Combat!Log(v) PROVE combat' = combat /\ phase' = "logged" /\ phase = "returned"
  BY <1>6 DEF Combat!Log
<1>7. ASSUME Combat!LogNothing
      PROVE  combat' = combat /\ phase' = "logged" /\ phase = "returned" /\ event' = event
  BY <1>7 DEF Combat!LogNothing
<1>. QED
  BY <1>2, <1>3, <1>4, <1>5, <1>6, <1>7 DEF Combat!Next

-------------------------------------------------------------------------------
(* Both shots of an event, as the replay has them.                         *)
LEMMA PrimaryIs ==
  ASSUME Combat!ConstantsAssumption, CombatIs, NEW v \in 1 .. 3, NEW downgraded \in BOOLEAN,
         event = Combat!telemetry(v, downgraded)
  PROVE  LET p == combat.primary
             view == Combat!primaryShot
             type == Combat!getDominantCombatDamageType(Combat!summary(v, p))
         IN  /\ view # NoData /\ view.attempted \in BOOLEAN
             /\ view.attempted <=> v = 1 \/ p.result # "none"
             /\ \E D : D \subseteq Besides /\
                  Combat!ToSet(view.texts) = Floats(view.attempted, p, combat.start["right"], type) \cup D
<1> DEFINE p == combat.primary
           view == Combat!primaryShot
           type == Combat!getDominantCombatDamageType(Combat!summary(v, p))
           c == combat.start["right"]
           attempted == event.attackerShot.attempted # FALSE
           texts == Combat!getFloatingCombatText(attempted, event.attackerShot, event.target["right"], 0)
           word == IF event.downgraded THEN "DOWNGRADED" ELSE "DISRUPTED"
           D == OnlyIf(event.kind = "fleet-vs-starbase" /\ event.starbaseDestroyedOrDowngraded,
                   {Combat!Remark(word)})
           FT == Combat!FloatingText
<1>1. c \in Combatant /\ Fires(p, c)
  BY DEF CombatIs, Combat!Side
<1>2. /\ event.attackerShot = Combat!summary(v, p)
      /\ event.target["right"] = Combat!snapshot(v, c, p)
  BY DEF Combat!telemetry
<1>3. attempted <=> v = 1 \/ p.result # "none"
  <2>1. event.attackerShot.attempted = IF v = 1 THEN NoData ELSE p.result # "none"
    BY <1>2 DEF Combat!summary
  <2>2. NoData \notin BOOLEAN
    BY DEF Combat!ConstantsAssumption
  <2>. QED
    BY <2>1, <2>2
<1> HIDE DEF p, c, attempted
<1>4. texts \in Seq(FT) /\ Combat!ToSet(texts) = Floats(attempted, p, c, type)
  <2>1. attempted \in BOOLEAN
    BY DEF attempted
  <2>2. ASSUME NEW shot, shot = Combat!summary(v, p)
        PROVE  LET t == Combat!getFloatingCombatText(attempted, shot, Combat!snapshot(v, c, p), 0)
               IN  /\ t \in Seq(Combat!FloatingText)
                   /\ Combat!ToSet(t) = Floats(attempted, p, c, Combat!getDominantCombatDamageType(shot))
    BY <1>1, <2>1, <2>2, TextsAre
  <2>. QED
    BY <1>2, <2>2
<1> HIDE DEF texts, type
<1>5. view = Combat!ShotView(attempted,
               IF event.kind = "fleet-vs-starbase" /\ event.starbaseDestroyedOrDowngraded
               THEN Append(texts, Combat!Remark(word)) ELSE texts)
  BY Zenon DEF Combat!primaryShot, attempted, texts
<1>6. /\ view.attempted = attempted /\ view.texts \in Seq(FT)
      /\ view = [attempted |-> attempted, texts |-> view.texts]
      /\ Combat!ToSet(view.texts) = Combat!ToSet(texts) \cup D
  <2>1. Combat!Remark(word) \in FT
    BY RemarkIsText
  <2>2. CASE event.kind = "fleet-vs-starbase" /\ event.starbaseDestroyedOrDowngraded
    <3>1. view = [attempted |-> attempted, texts |-> Append(texts, Combat!Remark(word))]
      BY <1>5, <2>2 DEF Combat!ShotView
    <3>2. /\ Append(texts, Combat!Remark(word)) \in Seq(FT)
          /\ Combat!ToSet(Append(texts, Combat!Remark(word))) = Combat!ToSet(texts) \cup {Combat!Remark(word)}
      BY <1>4, <2>1, SetOfMoreTexts
    <3>. QED
      BY <2>2, <3>1, <3>2 DEF OnlyIf
  <2>3. CASE ~(event.kind = "fleet-vs-starbase" /\ event.starbaseDestroyedOrDowngraded)
    <3>1. view = [attempted |-> attempted, texts |-> texts]
      BY <1>5, <2>3 DEF Combat!ShotView
    <3>. QED
      BY <1>4, <2>3, <3>1 DEF OnlyIf
  <2>. QED
    BY <2>2, <2>3
<1>7. D \subseteq Besides
  BY DEF OnlyIf, Besides
<1>8. attempted \in BOOLEAN
  BY DEF attempted
<1>9. view # NoData
  <2>1. view \in [attempted : BOOLEAN, texts : Seq(FT)]
    BY <1>6, <1>8
  <2>. QED
    BY <2>1 DEF Combat!ConstantsAssumption
<1> HIDE DEF view, D, FT
<1>. QED
  BY <1>3, <1>4, <1>6, <1>7, <1>8, <1>9 DEF view, p, c, type

LEMMA ReturnIs ==
  ASSUME Combat!ConstantsAssumption, CombatIs, NEW v \in 1 .. 3, NEW downgraded \in BOOLEAN,
         event = Combat!telemetry(v, downgraded)
  PROVE  LET r == combat.return
             c == combat.start["left"]
             view == Combat!returnShot
             type == Combat!getDominantCombatDamageType(
                       IF combat.kind = "fleet-vs-fleet" THEN Combat!summary(v, r) ELSE NoData)
         IN  \/ /\ view # NoData /\ view.attempted = TRUE /\ r.result # "none"
                /\ Combat!ToSet(view.texts) = Floats(TRUE, r, c, type)
             \/ /\ view = NoData /\ r.sp = 0 /\ r.hp = 0
                /\ \/ r.result = "none"
                   \/ v = 1 /\ Combat!Happened(r, c).texts \subseteq {"MISS", "NO DAMAGE"}
                   \/ combat.kind = "fleet-vs-starbase" /\ Combat!Happened(r, c).texts = {"NO DAMAGE"}
<1> DEFINE r == combat.return
           c == combat.start["left"]
           view == Combat!returnShot
           fleet == combat.kind = "fleet-vs-fleet"
           shot == IF fleet THEN Combat!summary(v, r) ELSE NoData
           type == Combat!getDominantCombatDamageType(shot)
           raw == Combat!total(r.damage) + r.blocked
           texts == Combat!getFloatingCombatText(TRUE, shot, Combat!snapshot(v, c, r), raw)
           FT == Combat!FloatingText
<1>1. c \in Combatant /\ Fires(r, c)
  BY DEF CombatIs, Combat!Side
<1>2. /\ event.defenderShot = shot /\ event.target["left"] = Combat!snapshot(v, c, r)
      /\ event.retaliationDamage = raw /\ event.kind = combat.kind
  BY DEF Combat!telemetry
<1>3. /\ r.result \in {"none", "miss", "dodge", "hit"} /\ r.blocked \in Nat
      /\ Combat!total(r.damage) \in Nat /\ r.sp \in Nat /\ r.hp \in Nat /\ raw \in Nat
      /\ r.sp + r.hp <= Combat!total(r.damage)
      /\ r.result # "hit" => raw = 0 /\ r.blocked = 0 /\ Combat!total(r.damage) = 0
  BY <1>1 DEF Fires
<1>4. ~fleet => r.result \in {"none", "hit"} /\ ~r.crit
  BY DEF CombatIs
<1>5. Combat!returnAttempted <=>
        IF fleet THEN (IF v = 1 THEN raw > 0 \/ r.result = "dodge" ELSE r.result # "none") ELSE raw > 0
  <2>1. CASE fleet
    <3>1. /\ event.defenderShot = Combat!summary(v, r)
          /\ Combat!returnAttempted = Combat!wasShotAttempted(event.defenderShot)
      BY <1>2, <2>1 DEF Combat!returnAttempted
    <3> DEFINE sum == Combat!summary(v, r)
    <3>2. /\ sum.attempted = (IF v = 1 THEN NoData ELSE r.result # "none")
          /\ sum.rawDamage = raw /\ sum.blockedDamage = r.blocked
          /\ sum.effectiveDamage = Combat!total(r.damage) /\ sum.dodged = (r.result = "dodge")
      BY DEF Combat!summary
    <3>3. NoData \notin BOOLEAN
      BY DEF Combat!ConstantsAssumption
    <3> HIDE DEF sum
    <3>4. CASE v = 1
      <4>1. Combat!wasShotAttempted(sum) <=>
              raw > 0 \/ r.blocked > 0 \/ Combat!total(r.damage) > 0 \/ r.result = "dodge"
        BY <3>2, <3>4, Zenon DEF Combat!wasShotAttempted
      <4>2. r.blocked > 0 \/ Combat!total(r.damage) > 0 => raw > 0
        BY <1>3
      <4>. QED
        BY <2>1, <3>1, <3>4, <4>1, <4>2, Zenon DEF sum
    <3>5. CASE v # 1
      <4>1. sum.attempted \in BOOLEAN /\ (sum.attempted <=> r.result # "none")
        BY <3>2, <3>5
      <4>2. Combat!wasShotAttempted(sum) <=> r.result # "none"
        BY <3>3, <4>1 DEF Combat!wasShotAttempted
      <4>. QED
        BY <2>1, <3>1, <3>5, <4>2, Zenon DEF sum
    <3>. QED
      BY <3>4, <3>5
  <2>2. CASE ~fleet
    BY <1>2, <2>2 DEF Combat!returnAttempted
  <2>. QED
    BY <2>1, <2>2
<1> HIDE DEF r, c, fleet, raw
<1>6. CASE Combat!returnAttempted
  <2>1. r.result # "none" /\ (~fleet => r.result = "hit")
    BY <1>3, <1>4, <1>5, <1>6
  <2>2. texts \in Seq(FT) /\ Combat!ToSet(texts) = Floats(TRUE, r, c, type)
    <3>1. \/ shot = Combat!summary(v, r)
          \/ shot = NoData /\ raw = Combat!total(r.damage) + r.blocked /\ r.result = "hit" /\ ~r.crit
      BY <1>4, <2>1 DEF raw
    <3> HIDE DEF shot
    <3>2. ASSUME NEW attempted \in BOOLEAN
          PROVE  LET t == Combat!getFloatingCombatText(attempted, shot, Combat!snapshot(v, c, r), raw)
                 IN  /\ t \in Seq(Combat!FloatingText)
                     /\ Combat!ToSet(t) = Floats(attempted, r, c, Combat!getDominantCombatDamageType(shot))
      BY <1>1, <1>3, <3>1, TextsAre
    <3>. QED
      BY <3>2
  <2> HIDE DEF shot, texts, type
  <2>3. view = [attempted |-> TRUE, texts |-> texts]
    BY <1>2, <1>6, Zenon DEF Combat!returnShot, Combat!ShotView, texts
  <2>4. view # NoData
    <3>1. view \in [attempted : BOOLEAN, texts : Seq(FT)]
      BY <2>2, <2>3
    <3>. QED
      BY <3>1 DEF Combat!ConstantsAssumption
  <2>5. view.attempted = TRUE /\ Combat!ToSet(view.texts) = Floats(TRUE, r, c, type)
    BY <2>2, <2>3
  <2> HIDE DEF view
  <2>. QED
    BY <2>1, <2>4, <2>5, Zenon DEF view, r, c, type, shot, fleet
<1>7. CASE ~Combat!returnAttempted
  <2>1. view = NoData
    BY <1>7 DEF Combat!returnShot
  <2>2. raw = 0 \/ (fleet /\ v # 1 /\ r.result = "none")
    BY <1>3, <1>5, <1>7
  <2>3. raw = 0 /\ Combat!total(r.damage) = 0 /\ r.sp = 0 /\ r.hp = 0
    <3>1. raw = 0
      BY <1>3, <2>2
    <3>2. Combat!total(r.damage) = 0
      BY <1>3, <3>1 DEF raw
    <3>. QED
      BY <1>3, <3>1, <3>2
  <2>4. r.result = "hit" => Combat!Happened(r, c).texts = {"NO DAMAGE"}
    <3>1. r.hp # c.hp /\ ~(r.sp > 0) /\ ~(r.hp > 0)
      BY <1>1, <2>3, CombatantIs
    <3>2. Words(r, c) = {"NO DAMAGE"}
      BY <2>3, <3>1, WordsAre DEF OnlyIf, raw
    <3>3. r.result = "hit" => Combat!Happened(r, c)
            = [texts |-> Words(r, c), sp |-> r.sp, hp |-> r.hp, crit |-> r.crit]
      BY Zenon DEF Combat!Happened, Words
    <3>4. [texts |-> Words(r, c), sp |-> r.sp, hp |-> r.hp, crit |-> r.crit].texts = Words(r, c)
      OBVIOUS
    <3>. QED
      BY <3>2, <3>3, <3>4, Zenon
  <2>5. r.result = "miss" => Combat!Happened(r, c).texts = {"MISS"}
    BY DEF Combat!Happened
  <2>6. r.result = "dodge" => ~(fleet /\ v = 1) /\ ~fleet
    BY <1>4, <1>5, <1>7
  <2>7. \/ r.result = "none"
        \/ v = 1 /\ Combat!Happened(r, c).texts \subseteq {"MISS", "NO DAMAGE"}
        \/ ~fleet /\ Combat!Happened(r, c).texts = {"NO DAMAGE"}
    <3>1. CASE fleet /\ v = 1
      BY <1>3, <2>4, <2>5, <2>6, <3>1
    <3>2. CASE fleet /\ v # 1
      BY <1>5, <1>7, <3>2
    <3>3. CASE ~fleet
      BY <1>4, <2>4, <3>3
    <3>. QED
      BY <3>1, <3>2, <3>3
  <2>8. ~fleet => combat.kind = "fleet-vs-starbase"
    BY DEF fleet, CombatIs
  <2>. QED
    BY <2>1, <2>3, <2>7, <2>8 DEF r, c
<1>. QED
  BY <1>6, <1>7

LEMMA ReplayIsSo ==
  ASSUME Combat!ConstantsAssumption, ReplayInv
  PROVE  Combat!ReplayTellsTheShots
<1> SUFFICES ASSUME Combat!Told
             PROVE  Combat!ShotsAreTold /\ Combat!TypeIsDominant /\ Combat!BarsMoveWithShots
  BY DEF Combat!ReplayTellsTheShots
<1> DEFINE p == combat.primary
           r == combat.return
           R == combat.start["right"]
           L == combat.start["left"]
           view == Combat!primaryShot
           back == Combat!returnShot
           fleet == combat.kind = "fleet-vs-fleet"
<1>1. PICK v \in 1 .. 3, downgraded \in BOOLEAN : event = Combat!telemetry(v, downgraded)
  BY DEF Combat!Told, ReplayInv, EventIs
<1> DEFINE typeP == Combat!getDominantCombatDamageType(Combat!summary(v, p))
           typeR == Combat!getDominantCombatDamageType(IF fleet THEN Combat!summary(v, r) ELSE NoData)
           NoReturn == /\ back = NoData /\ r.sp = 0 /\ r.hp = 0
                       /\ \/ r.result = "none"
                          \/ v = 1 /\ Combat!Happened(r, L).texts \subseteq {"MISS", "NO DAMAGE"}
                          \/ combat.kind = "fleet-vs-starbase" /\ Combat!Happened(r, L).texts = {"NO DAMAGE"}
           Returned == /\ back # NoData /\ back.attempted = TRUE /\ r.result # "none"
                       /\ Combat!ToSet(back.texts) = Floats(TRUE, r, L, typeR)
<1>2. /\ event.version = v /\ event.kind = combat.kind
      /\ event.target["right"] = Combat!snapshot(v, R, p)
      /\ event.target["left"] = Combat!snapshot(v, L, r)
  BY <1>1 DEF Combat!telemetry
<1>3. /\ L \in Combatant /\ R \in Combatant /\ Fires(p, R) /\ Fires(r, L)
      /\ combat.kind \in {"fleet-vs-fleet", "fleet-vs-starbase"}
  BY DEF ReplayInv, CombatIs, Combat!Side
<1>4. /\ view # NoData /\ view.attempted \in BOOLEAN
      /\ view.attempted <=> v = 1 \/ p.result # "none"
      /\ \E D : D \subseteq Besides /\ Combat!ToSet(view.texts) = Floats(view.attempted, p, R, typeP) \cup D
  BY <1>1, PrimaryIs DEF ReplayInv
<1>5. Returned \/ NoReturn
  BY <1>1, ReturnIs, Zenon DEF ReplayInv
<1> HIDE DEF p, r, R, L, view, back, fleet, typeP, typeR
<1>6. /\ Combat!amountOf(view.texts, "SP") = IF view.attempted THEN p.sp ELSE 0
      /\ Combat!amountOf(view.texts, "HP") = IF view.attempted THEN p.hp ELSE 0
      /\ (view.attempted <=> p.result # "none") => Combat!Summary(view.texts) = Combat!Happened(p, R)
      /\ \A x \in Combat!ToSet(view.texts) : x.text \in {"SP", "HP"} => x.type = typeP
  <2>1. PICK D : D \subseteq Besides
                 /\ Combat!ToSet(view.texts) = Floats(view.attempted, p, R, typeP) \cup D
    BY <1>4
  <2>2. D \in SUBSET Besides /\ view.attempted \in BOOLEAN
    BY <1>4, <2>1
  <2>3. TellsShot(view.texts, view.attempted, p, R, typeP)
    BY <1>3, <2>1, <2>2, ToldIs, Zenon
  <2>. QED
    BY <2>3, Zenon DEF TellsShot
<1>7. ASSUME Returned
      PROVE  /\ Combat!amountOf(back.texts, "SP") = r.sp
             /\ Combat!amountOf(back.texts, "HP") = r.hp
             /\ Combat!Summary(back.texts) = Combat!Happened(r, L)
             /\ \A x \in Combat!ToSet(back.texts) : x.text \in {"SP", "HP"} => x.type = typeR
  <2>1. /\ {} \in SUBSET Besides /\ TRUE \in BOOLEAN /\ r.result # "none"
        /\ Combat!ToSet(back.texts) = Floats(TRUE, r, L, typeR) \cup {}
    BY <1>7
  <2>2. TellsShot(back.texts, TRUE, r, L, typeR)
    BY <1>3, <2>1, ToldIs, Zenon
  <2>. QED
    BY <2>1, <2>2, Zenon DEF TellsShot
<1>8. /\ r.sp \in Nat /\ r.hp \in Nat /\ p.sp \in Nat /\ p.hp \in Nat
      /\ p.result = "none" => p.sp = 0 /\ p.hp = 0
  BY <1>3 DEF Fires
<1>9. Combat!ShotsAreTold
  <2>1. (event.version > 1 \/ p.result # "none") => Combat!Summary(view.texts) = Combat!Happened(p, R)
    BY <1>2, <1>4, <1>6
  <2>2. back # NoData => Combat!Summary(back.texts) = Combat!Happened(r, L)
    BY <1>5, <1>7
  <2>3. back = NoData =>
          \/ r.result = "none"
          \/ event.version = 1 /\ Combat!Happened(r, L).texts \subseteq {"MISS", "NO DAMAGE"}
          \/ combat.kind = "fleet-vs-starbase" /\ Combat!Happened(r, L).texts = {"NO DAMAGE"}
    BY <1>2, <1>5
  <2>. QED
    BY <2>1, <2>2, <2>3, Zenon DEF Combat!ShotsAreTold, view, back, p, r, R, L
<1>10. Combat!TypeIsDominant
  <2>1. v > 1 => IF typeP = NoData THEN \A t \in Combat!Types : ~Dominates(p, t) ELSE Dominates(p, typeP)
    BY <1>3, DominantIs DEF typeP
  <2>2. v > 1 /\ fleet =>
          IF typeR = NoData THEN \A t \in Combat!Types : ~Dominates(r, t) ELSE Dominates(r, typeR)
    BY <1>3, DominantIs DEF typeR
  <2>3. ASSUME NEW w \in {view} \cup (IF back = NoData THEN {} ELSE {back}), NEW x \in Combat!ToSet(w.texts),
               x.text \in {"SP", "HP"}, v > 1, w = view \/ event.kind = "fleet-vs-fleet"
        PROVE  LET shot == IF w = view THEN p ELSE r
               IN  IF x.type = NoData THEN \A t \in Combat!Types : ~Dominates(shot, t)
                   ELSE Dominates(shot, x.type)
    <3>1. CASE w = view
      <4>1. x.type = typeP
        BY <1>6, <2>3, <3>1
      <4>. QED
        BY <2>1, <2>3, <3>1, <4>1
    <3>2. CASE w # view
      <4>1. w = back /\ back # NoData /\ fleet
        BY <1>2, <2>3, <3>2 DEF fleet
      <4>2. x.type = typeR
        BY <1>5, <1>7, <2>3, <4>1
      <4>. QED
        BY <2>2, <2>3, <3>2, <4>1, <4>2
    <3>. QED
      BY <3>1, <3>2
  <2>. QED
    BY <1>2, <2>3, Zenon DEF Combat!TypeIsDominant, Dominates, view, back, p, r
<1>11. Combat!BarsMoveWithShots
  <2>1. /\ Combat!vitals("right").sp = <<Combat!projectedWhole(event.target["right"].projectedSpQ6),
                                         event.target["right"].postSp>>
        /\ Combat!vitals("right").hp = <<Combat!projectedWhole(event.target["right"].projectedHpQ6),
                                         event.target["right"].postHp>>
        /\ Combat!vitals("left").sp = <<Combat!projectedWhole(event.target["left"].projectedSpQ6),
                                        event.target["left"].postSp>>
        /\ Combat!vitals("left").hp = <<Combat!projectedWhole(event.target["left"].projectedHpQ6),
                                        event.target["left"].postHp>>
    BY DEF Combat!vitals
  <2>2. /\ Combat!vitals("right").sp[1] = Combat!vitals("right").sp[2] + p.sp
        /\ Combat!vitals("right").hp[1] = Combat!vitals("right").hp[2] + p.hp
        /\ Combat!vitals("right").sp[2] \in Int /\ Combat!vitals("right").hp[2] \in Int
    BY <1>2, <1>3, <2>1, AppliedIs
  <2>3. /\ Combat!vitals("left").sp[1] = Combat!vitals("left").sp[2] + r.sp
        /\ Combat!vitals("left").hp[1] = Combat!vitals("left").hp[2] + r.hp
        /\ Combat!vitals("left").sp[2] \in Int /\ Combat!vitals("left").hp[2] \in Int
    BY <1>2, <1>3, <2>1, AppliedIs
  <2>4. /\ Combat!damageImpactPhase("left") = IF back # NoData THEN "return" ELSE "none"
        /\ Combat!damageImpactPhase("right") = IF view.attempted THEN "primary" ELSE "none"
    BY DEF Combat!damageImpactPhase, view, back
  <2>5. ~view.attempted => p.sp = 0 /\ p.hp = 0
    BY <1>4, <1>8
  <2>6. /\ Combat!vitals("right").sp[1] # Combat!vitals("right").sp[2]
             \/ Combat!vitals("right").hp[1] # Combat!vitals("right").hp[2]
             => Combat!damageImpactPhase("right") = "primary"
        /\ Combat!vitals("right").sp[1] = Combat!vitals("right").sp[2] + Combat!amountOf(view.texts, "SP")
        /\ Combat!vitals("right").hp[1] = Combat!vitals("right").hp[2] + Combat!amountOf(view.texts, "HP")
    BY <1>6, <1>8, <2>2, <2>4, <2>5
  <2>7. /\ Combat!vitals("left").sp[1] # Combat!vitals("left").sp[2]
             \/ Combat!vitals("left").hp[1] # Combat!vitals("left").hp[2]
             => Combat!damageImpactPhase("left") = "return"
        /\ back # NoData =>
             /\ Combat!vitals("left").sp[1] = Combat!vitals("left").sp[2] + Combat!amountOf(back.texts, "SP")
             /\ Combat!vitals("left").hp[1] = Combat!vitals("left").hp[2] + Combat!amountOf(back.texts, "HP")
    <3>1. \/ /\ back # NoData
             /\ Combat!amountOf(back.texts, "SP") = r.sp
             /\ Combat!amountOf(back.texts, "HP") = r.hp
          \/ back = NoData /\ r.sp = 0 /\ r.hp = 0
      BY <1>5, <1>7, Zenon
    <3>2. CASE back # NoData
      BY <2>3, <2>4, <3>1, <3>2
    <3>3. CASE back = NoData
      BY <2>3, <3>1, <3>3
    <3>. QED
      BY <3>2, <3>3
  <2> HIDE DEF Returned, NoReturn
  <2>8. "left" # "right"
    OBVIOUS
  <2>. QED
    BY <2>6, <2>7, <2>8 DEF Combat!BarsMoveWithShots, Combat!Side, view, back
<1>. QED
  BY <1>9, <1>10, <1>11

(* The replay agrees with the combat whatever became of the two shots and  *)
(* whichever version of the telemetry told it (CombatVisualizer.tsx:513):  *)
(* for any damages, any types of them and any combatants.                  *)
THEOREM ReplayIsAlwaysTold == Combat!Spec => []ReplayTellsTheShots
<1>1. Combat!Init => ReplayInv
  BY InitIsReplay, CombatAssumption
<1>2. ReplayInv /\ [Combat!Next]_<<phase, combat, event>> => ReplayInv'
  BY NextIsReplay, CombatAssumption
<1>3. ReplayInv => ReplayTellsTheShots
  BY ReplayIsSo, CombatAssumption DEF ReplayTellsTheShots
<1>. QED
  BY <1>1, <1>2, <1>3, PTL DEF Combat!Spec, Combat!vars
===============================================================================
