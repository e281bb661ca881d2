---------------------------- MODULE TransactionLogs ----------------------------
(***************************************************************************)
(* The log of a transaction as the Solana runtime writes it, read by       *)
(* parseProgramLogs for the Program Instruction Logs card and by           *)
(* getCombatVisualizations for the combat card.  The runtime is external:  *)
(* it invokes the instructions in order, programs log, invoke each other   *)
(* and return or fail.  Precompiles log nothing, and native programs that  *)
(* miss the invoke line log what they like.  The log is cut at a limit:    *)
(* lines that do not fit are left out, shorter ones after them may fit.    *)
(*                                                                         *)
(* parseProgramLogs (app/utils/program-logs.ts) turns the log into one     *)
(* entry per instruction, which ProgramLogsCardBody shows in rows.         *)
(* app/utils/combat-telemetry.ts finds the combat telemetry in it: which   *)
(* bytes are telemetry, which data lines are SAGE's own, and which attack  *)
(* instruction an event is shown with.                                     *)
(*                                                                         *)
(* A line is a record whose kind tells what the code's string tests find   *)
(* in it.  The messages of an entry are a set of lines with their indent:  *)
(* nothing depends on their order.  Instructions and errors count from 1.  *)
(* Bytes are [kind, version, length, values, slot]: the first two bytes,   *)
(* how many there are, whether the booleans and the sums of the damages    *)
(* among them are in order, and the slot they name.                        *)
(***************************************************************************)
EXTENDS Integers, Sequences, SequencesExt, FiniteSets

CONSTANTS
  Sage,            \* the programs of the attack instructions
  Other,           \* programs with an invoke line
  Native,          \* NATIVE_PROGRAMS_MISSING_INVOKE_LOG
  Precompile,      \* programs that log nothing
  NoData,          \* the program of an entry without one or of a hole in
                   \* the stack, and no row
  Bytes,           \* what programs may log as data
  Slot,            \* the slot of the transaction
  Limit,           \* the possible limits of the log
  MaxInstructions, \* bound on the instructions
  MaxHeight,       \* bound on the height of the stack
  MaxSaid          \* bound on the lines and invocations programs add

(* Whatever the limit, the first line of a log fits.                       *)
ASSUME BoundsAssumption == Limit \subseteq Nat \ 0 .. 2 /\ MaxInstructions \in Nat

-------------------------------------------------------------------------------
(* The lines the code tells apart: "log" is "Program log: ...", "verify"   *)
(* is "failed to verify ...", "data" and "text" are what is left over.     *)
LineKind == {"log", "truncated", "invoke", "success", "failed", "verify",
             "consumed", "data", "text"}

Entry(program) == [invokedProgram |-> program, logs |-> {}, computeUnits |-> 0,
                   truncated |-> FALSE, failed |-> FALSE]

(* The state of the loop.  threw: prettyLogs[-1] was undefined.            *)
Start == [depth |-> 0, entries |-> <<>>, threw |-> FALSE]

Push(p, entry) == [p EXCEPT !.entries = Append(@, entry)]

(* prettyLogs[prettyLogs.length - 1], and what replaces it.                *)
lastEntry(p) == p.entries[Len(p.entries)]

ChangeLast(p, entry) ==
  IF p.entries = <<>> THEN [p EXCEPT !.threw = TRUE]
  ELSE [p EXCEPT !.entries[Len(p.entries)] = entry]

AddLine(p, line, indent) ==
  ChangeLast(p, [lastEntry(p) EXCEPT !.logs = @ \cup {[line |-> line, indent |-> indent]}])

SetFailed(p) == ChangeLast(p, [lastEntry(p) EXCEPT !.failed = TRUE])

(* Only the units of top-level instructions count: they include the inner. *)
AddUnits(p, units) ==
  IF p.depth # 1 THEN p
  ELSE ChangeLast(p, [lastEntry(p) EXCEPT !.computeUnits = @ + units])

Down(p, n) == [p EXCEPT !.depth = @ - n]

InvokeLine(p, line) ==
  Down(IF p.depth = 0 THEN Push(p, Entry(line.program)) ELSE AddLine(p, line, p.depth), -1)

(* Mutant: "failed to verify" is a failure of the program that runs.      *)
FailedLineOfRunning(p, line) == Down(AddLine(SetFailed(p), line, p.depth), 1)

(* "failed to verify" is a line about the program that has just returned.  *)
FailedLine(p, line) ==
  LET q == IF line.kind = "verify" THEN Down(p, -1) ELSE p
  IN  Down(AddLine(SetFailed(q), line, q.depth), 1)

(* A native program that does not log its invocation begins an entry.      *)
OtherLine(p, line) ==
  LET q == IF p.depth = 0 THEN Down(Push(p, Entry(NoData)), -1) ELSE p
  IN  AddLine(IF line.kind = "consumed" THEN AddUnits(q, line.units) ELSE q, line, q.depth)

(* One turn of logs.forEach.                                               *)
ReadLine(p, line) ==
  CASE line.kind = "log"                   -> AddLine(p, line, p.depth)
    [] line.kind = "truncated"             -> ChangeLast(p, [lastEntry(p) EXCEPT !.truncated = TRUE])
    [] line.kind = "invoke"                -> InvokeLine(p, line)
    [] line.kind = "success"               -> Down(AddLine(p, line, p.depth), 1)
    [] line.kind \in {"failed", "verify"}  -> FailedLine(p, line)
    [] line.kind \in {"consumed", "data", "text"} -> OtherLine(p, line)

(* An instruction that fails without a failed line: error is its index, or *)
(* 0 when the transaction has no instruction error.                        *)
RuntimeError(p, error) ==
  LET q == IF error # 0 /\ p.entries = <<>>
             THEN Push(p, [Entry(NoData) EXCEPT !.failed = TRUE]) ELSE p
  IN  IF error # 0 /\ error = Len(q.entries) /\ ~q.entries[error].failed
        THEN AddLine(SetFailed(q), NoData, 1)
        ELSE q

(* The state of the loop after n lines, for every n.                       *)
linesRead(logs) ==
  LET read[n \in 0 .. Len(logs)] == IF n = 0 THEN Start ELSE ReadLine(read[n-1], logs[n])
  IN  read

parseProgramLogs(logs, error) == RuntimeError(linesRead(logs)[Len(logs)], error)

-------------------------------------------------------------------------------
(* Whether an instruction of the program takes the entry that is next.     *)
Takes(program, entry) ==
  \/ entry.invokedProgram = program
  \/ entry.invokedProgram = NoData /\ entry.logs # {} /\ program \in Native

(* ProgramLogsCardBody: logIndex[i] entries are taken by the first i       *)
(* instructions.                                                           *)
logIndex(entries, programs) ==
  LET taken[i \in 0 .. Len(programs)] ==
        IF i = 0 THEN 0
        ELSE IF taken[i-1] < Len(entries) /\ Takes(programs[i], entries[taken[i-1] + 1])
               THEN taken[i-1] + 1 ELSE taken[i-1]
  IN  taken

(* The entry that the row of an instruction shows, or none.                *)
rows(entries, programs) ==
  LET taken == logIndex(entries, programs)
  IN  [i \in 1 .. Len(programs) |-> IF taken[i] = taken[i-1] THEN NoData ELSE entries[taken[i]]]

-------------------------------------------------------------------------------
Fleet    == 1                 \* FLEET_VS_FLEET_KIND
Starbase == 2                 \* FLEET_VS_STARBASE_KIND
Version  == 1 .. 3

(* The bytes that readCombatant, readShot and so on take from the reader.  *)
combatantBytes(version) == 101 + IF version = 1 THEN 0 ELSE 4
shotBytes(version)      == 35 + IF version = 1 THEN 0 ELSE 1 + 8 * 8 + 8
apBytes                 == 4 + 4
identityBytes           == 2 + 2
headerBytes             == 1 + 1 + 8 + 8

eventBytes(kind, version) ==
  IF kind = Fleet
    THEN headerBytes + 2 * combatantBytes(version) + 2 * shotBytes(version)
         + IF version = 3 THEN 2 * apBytes + 2 * identityBytes ELSE 0
    ELSE headerBytes + 2 * combatantBytes(version) + shotBytes(version) + 8 + 1 + 1 + 1 + 1
         + IF version = 3 THEN apBytes + identityBytes + 2 ELSE 0

expectedLength(kind, version) ==
  IF kind = Fleet THEN IF version = 3 THEN 468 ELSE IF version = 2 THEN 444 ELSE 290
                  ELSE IF version = 3 THEN 362 ELSE IF version = 2 THEN 348 ELSE 267

SUPPORTED_LENGTHS == {290, 267, 444, 348, 468, 362}

(* parseCombatTelemetry does not return null: the reader neither runs out  *)
(* of bytes nor has any left, and meets no value it throws at.             *)
parses(bytes) ==
  /\ bytes.length \in SUPPORTED_LENGTHS
  /\ bytes.version \in Version
  /\ bytes.kind \in {Fleet, Starbase}
  /\ bytes.length = expectedLength(bytes.kind, bytes.version)
  /\ eventBytes(bytes.kind, bytes.version) = bytes.length
  /\ bytes.values

-------------------------------------------------------------------------------
(* The loop of extractCombatTelemetryFromLogs: the programs that run, and  *)
(* the data lines taken for events.                                        *)
NoFrames == [programStack |-> <<>>, events |-> <<>>]

(* Mutant: a program that returns stays the active one.                    *)
CompletedNever(s, line) == s

Completed(s, line) ==
  IF s.programStack # <<>> /\ Last(s.programStack) = line.program
    THEN [s EXCEPT !.programStack = Front(@)] ELSE s

(* programStack.length = depth - 1 cuts the stack; where it is shorter it  *)
(* grows by holes, which belong to no program.                             *)
Invoked(s, line) ==
  [s EXCEPT !.programStack =
     [i \in 1 .. line.depth |-> IF i = line.depth THEN line.program
                                ELSE IF i <= Len(@) THEN @[i] ELSE NoData]]

(* A data line that the active program logged and that is telemetry of the *)
(* slot.                                                                   *)
isEvent(s, line, programId, transactionSlot) ==
  /\ line.kind = "data"
  /\ s.programStack # <<>> /\ Last(s.programStack) = programId
  /\ parses(line.bytes)
  /\ line.bytes.slot = transactionSlot

(* One turn of the loop. *)
ReadFrame(s, line, programId, transactionSlot) ==
  IF line.kind = "invoke" THEN Invoked(s, line)
  ELSE IF line.kind \in {"success", "failed"} THEN Completed(s, line)
  ELSE IF isEvent(s, line, programId, transactionSlot) THEN [s EXCEPT !.events = Append(@, line)]
  ELSE s

(* The state of the loop after n lines, for every n.                       *)
framesRead(logs, programId, transactionSlot) ==
  LET read[n \in 0 .. Len(logs)] ==
        IF n = 0 THEN NoFrames ELSE ReadFrame(read[n-1], logs[n], programId, transactionSlot)
  IN  read

extractCombatTelemetryFromLogs(logs, programId, transactionSlot) ==
  framesRead(logs, programId, transactionSlot)[Len(logs)].events

-------------------------------------------------------------------------------
(* instructionNameToKind.                                                  *)
isAttack(name) == name \in {"attackFleet", "attackStarbase"}
kindOf(name) == IF name = "attackFleet" THEN Fleet ELSE Starbase

(* The first of the attacks of a program.                                  *)
isFirstAttack(programs, names, n) ==
  isAttack(names[n]) /\ \A m \in 1 .. n - 1 : isAttack(names[m]) => programs[m] # programs[n]

(* Mutant: an event is taken again by the next attack of its kind.         *)
takeAny(pairs, i, events, kind) ==
  LET free == {e \in DOMAIN events : events[e].bytes.kind = kind}
  IN  IF free = {} THEN pairs ELSE [pairs EXCEPT ![i] = CHOOSE e \in free : \A f \in free : e <= f]

(* The attack gets the first event of its kind that no attack has yet.     *)
take(pairs, i, events, kind) ==
  LET free == {e \in DOMAIN events : events[e].bytes.kind = kind
                                     /\ \A j \in DOMAIN pairs : pairs[j] # e}
  IN  IF free = {} THEN pairs ELSE [pairs EXCEPT ![i] = CHOOSE e \in free : \A f \in free : e <= f]

(* getCombatVisualizations: the events of one program after those of the   *)
(* other, in the order of their first attacks; those of the attacks among  *)
(* the first n instructions, for every n.                                  *)
eventsUpTo(programs, names, logs, transactionSlot) ==
  LET of[n \in 0 .. Len(names)] ==
        IF n = 0 THEN <<>>
        ELSE IF isFirstAttack(programs, names, n)
        THEN of[n-1] \o extractCombatTelemetryFromLogs(logs, programs[n], transactionSlot)
        ELSE of[n-1]
  IN  of

combatEvents(programs, names, logs, transactionSlot) ==
  eventsUpTo(programs, names, logs, transactionSlot)[Len(names)]

(* The event, by its index, that an instruction is shown with, or 0; after *)
(* the first n instructions, for every n.                                  *)
pairingUpTo(names, events) ==
  LET of[n \in 0 .. Len(names)] ==
        IF n = 0 THEN [i \in DOMAIN names |-> 0]
        ELSE IF isAttack(names[n]) THEN take(of[n-1], n, events, kindOf(names[n])) ELSE of[n-1]
  IN  of

pairing(names, events) == pairingUpTo(names, events)[Len(names)]

-------------------------------------------------------------------------------
VARIABLES
  tx,              \* the instructions, [program, name]
  at,              \* the instruction that runs
  frames,          \* the programs that run, outermost first
  err,             \* meta.err: 0, the instruction that failed, or -1 (another error)
  log,             \* meta.logMessages
  limit, written,  \* the limit of the log and what it has of it
  said             \* lines and invocations programs have added

vars == <<tx, at, frames, err, log, limit, written, said>>

-------------------------------------------------------------------------------
Instruction ==
  [program : Sage, name : {"attackFleet", "attackStarbase"}]
    \cup [program : Other \cup Native \cup Precompile, name : {"other"}]

Logging == Sage \cup Other

programs == [i \in DOMAIN tx |-> tx[i].program]
names == [i \in DOMAIN tx |-> tx[i].name]

(* Rough lengths of the lines.  Telemetry is longer than any of the others. *)
Size(line) ==
  IF line.kind = "data" THEN 6
  ELSE IF line.kind \in {"consumed", "failed"} THEN 3
  ELSE IF line.kind \in {"invoke", "success", "verify"} THEN 2
  ELSE 1

Truncated == [kind |-> "truncated", ix |-> 0]

truncated == Truncated \in ToSet(log)

(* The log after one more line, w being [log, written].                    *)
LogLine(w, line) ==
  IF w.written + Size(line) < limit
    THEN [log |-> Append(w.log, line), written |-> w.written + Size(line)]
    ELSE IF Truncated \in ToSet(w.log) THEN w ELSE [w EXCEPT !.log = Append(@, Truncated)]

Logged == [log |-> log, written |-> written]

Write(w) == log' = w.log /\ written' = w.written

Line(kind) == [kind |-> kind, ix |-> at]
InvokeOf(program, depth) == [kind |-> "invoke", ix |-> at, program |-> program, depth |-> depth]
DataOf(bytes) == [kind |-> "data", ix |-> at, program |-> Last(frames), bytes |-> bytes]
EndOf(kind, program) == [kind |-> kind, ix |-> at, program |-> program]

Running == err = 0 /\ frames # <<>>
Between == err = 0 /\ frames = <<>> /\ at <= Len(tx)
Finished == frames = <<>> /\ (err # 0 \/ at > Len(tx))

-------------------------------------------------------------------------------
Init ==
  /\ tx \in UNION {[1 .. n -> Instruction] : n \in 1 .. MaxInstructions}
  /\ at = 1 /\ frames = <<>> /\ err = 0
  /\ log = <<>> /\ limit \in Limit /\ written = 0
  /\ said = 0

Speak == said < MaxSaid /\ said' = said + 1

Invoke ==
  /\ Between /\ tx[at].program \in Logging
  /\ frames' = <<tx[at].program>>
  /\ Write(LogLine(Logged, InvokeOf(tx[at].program, 1)))
  /\ UNCHANGED <<tx, at, err, limit, said>>

Cpi(program) ==
  /\ Running /\ Len(frames) < MaxHeight /\ Speak
  /\ frames' = Append(frames, program)
  /\ Write(LogLine(Logged, InvokeOf(program, Len(frames) + 1)))
  /\ UNCHANGED <<tx, at, err, limit>>

Say ==
  /\ Running /\ Speak
  /\ \/ Write(LogLine(Logged, Line("log")))
     \/ \E bytes \in Bytes : Write(LogLine(Logged, DataOf(bytes)))
  /\ UNCHANGED <<tx, at, frames, err, limit>>

(* A program that returns or fails first says what it used.                *)
Consumed == [kind |-> "consumed", ix |-> at, units |-> 1, height |-> Len(frames)]

End(kind) == LogLine(LogLine(Logged, Consumed), EndOf(kind, Last(frames)))

Return ==
  /\ Running
  /\ Write(End("success"))
  /\ frames' = Front(frames)
  /\ at' = IF Len(frames) = 1 THEN at + 1 ELSE at
  /\ UNCHANGED <<tx, err, limit, said>>

(* A program returned, but what it did to the accounts is not allowed.     *)
FailVerification ==
  /\ Running
  /\ Write(LogLine(End("success"), Line("verify")))
  /\ frames' = Front(frames)
  /\ err' = at
  /\ UNCHANGED <<tx, at, limit, said>>

Fail ==
  /\ Running
  /\ Write(End("failed"))
  /\ frames' = Front(frames)
  /\ err' = at
  /\ UNCHANGED <<tx, at, limit, said>>

(* The failure of an inner program is one of those that invoked it.        *)
Unwind ==
  /\ err # 0 /\ frames # <<>>
  /\ Write(End("failed"))
  /\ frames' = Front(frames)
  /\ UNCHANGED <<tx, at, err, limit, said>>

RunPrecompile ==
  /\ Between /\ tx[at].program \in Precompile
  /\ \/ at' = at + 1 /\ UNCHANGED err
     \/ err' = at /\ UNCHANGED at
  /\ UNCHANGED <<tx, frames, log, limit, written, said>>

(* A native program that misses the invoke line.                           *)
RunNative ==
  /\ Between /\ tx[at].program \in Native
  /\ LET text == LogLine(Logged, Line("text"))
     IN  Write(Logged) \/ Write(text) \/ Write(LogLine(text, EndOf("success", tx[at].program)))
  /\ \/ at' = at + 1 /\ UNCHANGED err
     \/ err' = at /\ UNCHANGED at
  /\ UNCHANGED <<tx, frames, limit, said>>

(* The transaction fails after its instructions, for one because of rent.  *)
FailTransaction ==
  /\ err = 0 /\ frames = <<>> /\ at > Len(tx)
  /\ err' = -1
  /\ UNCHANGED <<tx, at, frames, log, limit, written, said>>

Next ==
  \/ Invoke \/ (\E program \in Logging : Cpi(program)) \/ Say
  \/ Return \/ FailVerification \/ Fail \/ Unwind
  \/ RunPrecompile \/ RunNative \/ FailTransaction

Spec == Init /\ [][Next]_vars

-------------------------------------------------------------------------------
(* A line says what it is of: the instruction, and the program if it names *)
(* one.                                                                    *)
LogEntry ==
  [kind : {"truncated"}, ix : {0}]
    \cup [kind : {"log", "text", "verify"}, ix : Nat]
    \cup [kind : {"invoke"}, ix : Nat, program : Logging, depth : Nat \ {0}]
    \cup [kind : {"success", "failed"}, ix : Nat, program : Logging \cup Native]
    \cup [kind : {"consumed"}, ix : Nat, units : {1}, height : Nat]
    \cup [kind : {"data"}, ix : Nat, program : Logging, bytes : Bytes]

(* An entry of the reader.                                                 *)
Row == [invokedProgram : Logging \cup {NoData},
        logs : SUBSET [line : LogEntry \cup {NoData}, indent : Int],
        computeUnits : Nat, truncated : BOOLEAN, failed : BOOLEAN]

(* Programs of different kinds are different, and NoData is no program, no *)
(* line and no entry.                                                      *)
ASSUME ProgramsAssumption ==
  /\ Logging \cap Native = {} /\ Logging \cap Precompile = {} /\ Native \cap Precompile = {}
  /\ NoData \notin Logging \cup Native \cup Precompile \cup LogEntry \cup Row

(* The type invariant of the runtime.                                      *)
TypeOK ==
  /\ tx \in Seq(Instruction) /\ at \in 1 .. Len(tx) + 1
  /\ frames \in Seq(Logging) /\ err \in -1 .. Len(tx)
  /\ log \in Seq(LogEntry) /\ limit \in Limit /\ written \in Nat
  /\ said \in Nat

entries == parseProgramLogs(log, IF err = -1 THEN 0 ELSE err)
shown == rows(entries.entries, programs)
events == IF err = 0 THEN combatEvents(programs, names, log, Slot) ELSE <<>>

(* The log is complete, and an instruction without an invoke line is the   *)
(* last one: only then can the code tell what the lines belong to.         *)
Attributable == ~truncated /\ \A i \in 1 .. Len(tx) - 1 : programs[i] \notin Native

(* The row of an instruction shows the lines of the instruction, all of    *)
(* them except its own invocation, and no line of another one; they are    *)
(* "only ever built at indent level 1 or higher".                          *)
ShowsItsLogs(i) ==
  /\ LET lines == IF shown[i] = NoData THEN {} ELSE {l.line : l \in shown[i].logs} \ {NoData}
     IN  lines = {l \in ToSet(log) : l.ix = i /\ ~(l.kind = "invoke" /\ l.depth = 1)}
  /\ shown[i] # NoData => \A l \in shown[i].logs : l.indent >= 1

(* Its compute units are those of its top-level program, which include the *)
(* ones of the programs it invoked.                                        *)
ShowsItsUnits(i) ==
  shown[i] # NoData =>
    shown[i].computeUnits = Cardinality({l \in ToSet(log) : l.kind = "consumed" /\ l.ix = i /\ l.height = 1})

(* It is marked as failed if and only if it is of the instruction that     *)
(* made the transaction fail.  A failure that is not logged is placed by   *)
(* counting entries (program-logs.ts:153): each instruction must have one. *)
ShowsItsFailure(i) ==
  LET failureIsLogged == \E l \in ToSet(log) : l.kind \in {"failed", "verify"}
      allHaveEntries == Precompile \cap ToSet(programs) = {}
  IN  (failureIsLogged \/ allHaveEntries) /\ shown[i] # NoData => (shown[i].failed <=> err = i)

(* However the log was cut and whoever wrote it, reading it finds an entry *)
(* for every line that needs one (program-logs.ts:52, 58, 85, 92); and     *)
(* where the log tells what its lines belong to, the row of an instruction *)
(* is made of the lines of that instruction alone.                         *)
RowsAreOfInstruction ==
  Finished =>
    /\ ~entries.threw
    /\ Attributable => \A i \in DOMAIN tx : ShowsItsLogs(i) /\ ShowsItsUnits(i) /\ ShowsItsFailure(i)

(* Canonical telemetry: what the program writes for a kind and a version.  *)
Canonical(bytes) ==
  /\ bytes.kind \in {Fleet, Starbase} /\ bytes.version \in Version
  /\ bytes.length = eventBytes(bytes.kind, bytes.version)
  /\ bytes.values /\ bytes.slot = Slot

IsTelemetryOf(line, program) ==
  line.kind = "data" /\ line.program = program /\ Canonical(line.bytes)

(* The telemetry of a program in the first n lines of the log, for every n. *)
telemetryOf(program) ==
  LET told[n \in 0 .. Len(log)] ==
        IF n = 0 THEN <<>>
        ELSE IF IsTelemetryOf(log[n], program) THEN Append(told[n-1], log[n])
        ELSE told[n-1]
  IN  told

(* What is taken for telemetry of a SAGE program is exactly what the log   *)
(* has of its telemetry, also where the programs it invokes log the same   *)
(* bytes and where the log was cut (combat-telemetry.ts:454).              *)
TelemetryIsExact ==
  Finished => \A program \in Sage :
    extractCombatTelemetryFromLogs(log, program, Slot) = telemetryOf(program)[Len(log)]

(* Where every attack has logged its one event, all of one program, and    *)
(* nothing else has, an attack is shown with its own event.                *)
PairedWithOwnEvent ==
  LET telemetry == {k \in DOMAIN log : log[k].kind = "data" /\ log[k].program \in Sage
                                                            /\ Canonical(log[k].bytes)}
      attacks == {i \in DOMAIN tx : isAttack(names[i])}
      pairs == pairing(names, events)
  IN  /\ Finished /\ err = 0 /\ ~truncated
      /\ Cardinality({programs[i] : i \in attacks}) = 1
      /\ Cardinality(telemetry) = Cardinality(attacks)
      /\ \A i \in attacks : \E k \in telemetry : log[k].ix = i /\ log[k].bytes.kind = kindOf(names[i])
                                                   /\ log[k].program = programs[i]
      => \A i \in attacks : pairs[i] # 0 /\ events[pairs[i]].ix = i

-------------------------------------------------------------------------------
(* The card of an attack plays its event back.  What the event tells is    *)
(* the combat's and not the log's: the two share no state, and NoData      *)
(* stands for what a version of the telemetry leaves out.                  *)
CONSTANTS COMBAT_DAMAGE_TYPES, Damages, Blocks, Hp, SpQ6, Q6_SCALE
VARIABLES phase, combat, event

Combat == INSTANCE CombatReplay WITH Null <- NoData

ASSUME CombatAssumption == Combat!ConstantsAssumption

(* The replay agrees with the combat whatever became of the two shots and  *)
(* whichever version of the telemetry told it (CombatVisualizer.tsx:513).  *)
ReplayTellsTheShots == Combat!ReplayTellsTheShots
===============================================================================
