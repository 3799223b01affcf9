----------------------------- MODULE NodeHarness -----------------------------
(***************************************************************************)
(* One run of a node task, from the hidden test files to the answer: the   *)
(* test runner node:test runs the files one by one and reports on a stream *)
(* of events, run.js (task-images/node/harness) makes results.json of it,  *)
(* and the executor captures the output, reads the file back, validates    *)
(* and sanitises it.  RunExecution has the container around it.            *)
(*                                                                         *)
(* A text is the set of what its lines are made of: a public "word", a     *)
(* "private" line, a "late" one, public but past the twelfth of the text,  *)
(* an "escape" character, "next" (U+0085, white space to Go and none to    *)
(* JavaScript), and Long lines, each of which takes a unit of the size     *)
(* that the executor reads.  What is blank to both is no piece at all.     *)
(***************************************************************************)
EXTENDS Naturals, Sequences, FiniteSets

CONSTANTS
    File,        \* test files that the mount may hold
    Long,        \* long lines, as they may stand in a text
    Endings,     \* how a test may end: with what status, thrown text and title
    Text,        \* what a file may write to stderr
    Limit,       \* resultsCaptureLimit, in tests and long lines
    Capture,     \* outputCaptureLimit, in writes to stdout
    MaxTests,    \* bound on the tests of a file
    MaxOutput,   \* bound on the writes to stdout of a run
    MaxEvents    \* bound on the events in the stream

Piece == {"word", "private", "late", "escape", "next"} \cup Long

ASSUME LongAssumption == Long \cap {"word", "private", "late", "escape", "next"} = {}
ASSUME TextAssumption == Text \subseteq SUBSET Piece

\* Of an assertion the values count that it has compared, of a pass the title alone.
ASSUME EndingAssumption ==
    \A e \in Endings :
        /\ e \in [status : {"pass", "assertion", "throw"}, thrown : SUBSET Piece, title : SUBSET Piece]
        /\ e.status = "pass" => e.thrown = {}
ASSUME BoundAssumption == {Limit, Capture, MaxTests, MaxOutput, MaxEvents} \subseteq Nat

VARIABLES
    files,      \* the test files found, in the order of the directory
    running,    \* the file node:test has come to
    reported,   \* history: how the tests of each file ended, in their order
    written,    \* history: the writes to stdout, each by its file
    stream,     \* events on their way to run.js
    phase,      \* of the harness process
    tests, loadFailedFiles, stderrByFile,  \* the variables of main
    document,   \* results.json
    stdout,     \* what the executor has captured
    answer      \* what the executor makes of the run

runner == <<files, running, reported, written>>
harness == <<tests, loadFailedFiles, stderrByFile>>
vars == <<runner, stream, phase, harness, document, stdout, answer>>

NoEnding == [status |-> "none", thrown |-> {}, title |-> {}]

EventType == [type : {"test:stdout", "test:stderr", "test:pass", "test:fail", "test:start"},
              file : File, wrapper : BOOLEAN, test : 0..MaxTests,
              ending : Endings \cup {NoEnding}, text : SUBSET Piece]

\* A test is known by its place; its title is what the document calls its name.
TestResult == [name : File \X (1..MaxTests), title : SUBSET Piece,
               status : {"pass", "fail", "error"}, message : SUBSET Piece]

NoDocument == [status |-> "none", message |-> {}, tests |-> <<>>]
NoAnswer == [code |-> "none", results |-> NoDocument, stdout |-> <<>>]

IsDocument(d) ==
    /\ d.status \in {"none", "pass", "fail", "error"}
    /\ d.message \subseteq Piece
    /\ d.tests \in Seq(TestResult)

TypeOK ==
    /\ files \in Seq(File)
    /\ running \in 1..(Len(files) + 1)
    /\ reported \in [File -> Seq(Endings)]
    /\ written \in Seq(File)
    /\ stream \in Seq(EventType)
    /\ phase \in {"starting", "running", "exited", "failed", "killed"}
    /\ tests \in Seq(TestResult)
    /\ loadFailedFiles \subseteq File
    /\ stderrByFile \in [File -> SUBSET Piece]
    /\ IsDocument(document)
    /\ stdout \in Seq(File)
    /\ answer.code \in {"none", "results", "harness_failed", "runner_protocol", "timeout"}
    /\ IsDocument(answer.results)
    /\ answer.stdout \in Seq(File)

Orders(S) ==
    {s \in UNION {[1..n -> S] : n \in 0..Cardinality(S)} :
        \A i, j \in DOMAIN s : s[i] = s[j] => i = j}

Init ==
    /\ files \in Orders(File)
    /\ running = 1
    /\ reported = [f \in File |-> <<>>]
    /\ written = <<>>
    /\ stream = <<>>
    /\ phase = "starting"
    /\ tests = <<>>
    /\ loadFailedFiles = {}
    /\ stderrByFile = [f \in File |-> {}]
    /\ document = NoDocument
    /\ stdout = <<>>
    /\ answer = NoAnswer

----------------------------------------------------------------------------
(* node:test.  A file that does not load, or whose process ends early, has *)
(* no event but its own for what it did not report.                        *)

Busy == phase = "running" /\ running <= Len(files)
Emit(e) == Len(stream) < MaxEvents /\ stream' = Append(stream, e)
Event(type, f) == [type |-> type, file |-> f, wrapper |-> FALSE, test |-> 0,
                   ending |-> NoEnding, text |-> {}]

TestEnds(ending) ==
    LET f == files[running]
        type == IF ending.status = "pass" THEN "test:pass" ELSE "test:fail"
    IN  /\ Busy
        /\ Len(reported[f]) < MaxTests
        /\ reported' = [reported EXCEPT ![f] = Append(@, ending)]
        /\ Emit([Event(type, f) EXCEPT !.test = Len(reported[f]) + 1, !.ending = ending])
        /\ UNCHANGED <<files, running, written, phase, harness, document, stdout, answer>>

FileEnds(type) ==
    /\ Busy
    /\ running' = running + 1
    /\ Emit([Event(type, files[running]) EXCEPT !.wrapper = TRUE])
    /\ UNCHANGED <<files, reported, written, phase, harness, document, stdout, answer>>

FileWrites ==
    /\ Busy
    /\ Len(written) < MaxOutput
    /\ written' = Append(written, files[running])
    /\ Emit(Event("test:stdout", files[running]))
    /\ UNCHANGED <<files, running, reported, phase, harness, document, stdout, answer>>

FileComplains(text) ==
    /\ Busy
    /\ Emit([Event("test:stderr", files[running]) EXCEPT !.text = text])
    /\ UNCHANGED <<runner, phase, harness, document, stdout, answer>>

TestStarts ==
    /\ Busy
    /\ Emit(Event("test:start", files[running]))
    /\ UNCHANGED <<runner, phase, harness, document, stdout, answer>>

----------------------------------------------------------------------------
(* run.js.                                                                 *)

Start ==
    /\ phase = "starting"
    /\ phase' = IF files = <<>> THEN "failed" ELSE "running"
    /\ loadFailedFiles' = {files[i] : i \in DOMAIN files}
    /\ UNCHANGED <<runner, stream, tests, stderrByFile, document, stdout, answer>>

\* The first twelve lines of a text that are not private.
Public(text) == text \ {"private", "late"}

\* Mutant: a diagnostic of which nothing is public is left blank.
DiagnosticMayBeBlank(text) == Public(text)

\* learnerDiagnostic: something is always left to say.
learnerDiagnostic(text) == IF Public(text) = {} THEN {"word"} ELSE Public(text)

\* Mutant: the status is node:test's own word for the failure.
classifyAsReported(ending) ==
    [status |-> ending.status, message |-> learnerDiagnostic(ending.thrown)]

classifyFailure(ending) ==
    IF ending.status = "assertion"
    THEN [status |-> "fail", message |-> {"word"} \cup ending.thrown]
    ELSE [status |-> "error", message |-> learnerDiagnostic(ending.thrown)]

Result(e) ==
    LET told == IF e.type = "test:pass" THEN [status |-> "pass", message |-> {}]
                ELSE classifyFailure(e.ending)
    IN  [name |-> <<e.file, e.test>>, title |-> e.ending.title,
         status |-> told.status, message |-> told.message]

Takes(types) ==
    /\ phase = "running"
    /\ stream # <<>>
    /\ Head(stream).type \in types
    /\ stream' = Tail(stream)

\* Mutant: a full buffer makes room for the latest and drops the oldest.
CapturedLatest(f) == Append(IF Len(stdout) < Capture THEN stdout ELSE Tail(stdout), f)

\* limitedBuffer's limit is in Write; what copies the pipe calls ReadFrom.
Captured(f) == Append(stdout, f)

ForwardStdout ==
    /\ Takes({"test:stdout"})
    /\ stdout' = Captured(Head(stream).file)
    /\ UNCHANGED <<runner, phase, harness, document, answer>>

CollectStderr ==
    /\ Takes({"test:stderr"})
    /\ LET e == Head(stream)
       IN  stderrByFile' = [stderrByFile EXCEPT ![e.file] = @ \cup e.text]
    /\ UNCHANGED <<runner, phase, tests, loadFailedFiles, document, stdout, answer>>

Ignored(e) == e.wrapper \/ e.type = "test:start"

SkipEvent ==
    /\ Takes({"test:pass", "test:fail", "test:start"})
    /\ Ignored(Head(stream))
    /\ UNCHANGED <<runner, phase, harness, document, stdout, answer>>

\* Mutant: results are kept by the test's name alone, whichever file it is of.
RecordedByName(e) ==
    IF \E i \in DOMAIN tests : tests[i].name[2] = e.test
    THEN tests ELSE Append(tests, Result(e))

Recorded(e) == Append(tests, Result(e))

RecordTest ==
    /\ Takes({"test:pass", "test:fail"})
    /\ ~Ignored(Head(stream))
    /\ tests' = Recorded(Head(stream))
    /\ loadFailedFiles' = loadFailedFiles \ {Head(stream).file}
    /\ UNCHANGED <<runner, phase, stderrByFile, document, stdout, answer>>

\* Mutant: a message over the limit is left out.
truncateToNothing(text) == text \ Long

\* truncate: of a message over its limit the beginning stays.
truncate(text) == IF text \cap Long = {} THEN text ELSE (text \ Long) \cup {"word"}

Document ==
    IF tests = <<>>
    THEN [status |-> "error", tests |-> <<>>,
          message |-> truncate(learnerDiagnostic(UNION {stderrByFile[f] : f \in File}))]
    ELSE [status |-> IF \A i \in DOMAIN tests : tests[i].status = "pass" THEN "pass" ELSE "fail",
          tests |-> tests, message |-> {}]

StreamEnds == phase = "running" /\ running > Len(files) /\ stream = <<>>

writeResults ==
    /\ StreamEnds
    /\ document' = Document
    /\ phase' = "exited"
    /\ UNCHANGED <<runner, stream, harness, stdout, answer>>

\* main throws: the directory or the file cannot be written, or only in part.
WriteFails ==
    /\ StreamEnds
    /\ phase' = "failed"
    /\ document' \in {NoDocument, Document}
    /\ UNCHANGED <<runner, stream, harness, stdout, answer>>

\* The deadline of the run passes, or the container ends for lack of memory.
Kill ==
    /\ phase \in {"starting", "running"}
    /\ phase' \in {"killed", "failed"}
    /\ UNCHANGED <<runner, stream, harness, document, stdout, answer>>

----------------------------------------------------------------------------
(* The executor.                                                           *)

\* strings.TrimSpace leaves nothing.
Blank(text) == text \subseteq {"next"}

\* The long lines that a set of tests brings into a document.
LongLines(S) ==
    UNION {{t.name} \X (({"title"} \X (t.title \cap Long)) \cup ({"message"} \X (t.message \cap Long))) :
             t \in S}

\* Every test has some bytes of its own.
Fits(n, S) == n + Cardinality(LongLines(S)) <= Limit

\* readBounded: a document over the limit is not read at all.
Readable(d) == Fits(Len(d.tests), {d.tests[i] : i \in DOMAIN d.tests})

validateResults(d) ==
    /\ d.status \in {"pass", "fail", "error"}
    /\ d.status # "error" => d.tests # <<>>
    /\ \A i \in DOMAIN d.tests :
         LET t == d.tests[i]
         IN  /\ ~Blank(t.title)
             /\ t.status \in {"pass", "fail", "error"}
             /\ t.status # "pass" => ~Blank(t.message)

\* Control characters go, a private path is replaced by a word, blanks are trimmed.
sanitizeError(text) ==
    LET clean == IF "private" \in text THEN (text \ {"private", "escape"}) \cup {"word"}
                 ELSE text \ {"escape"}
    IN  IF Blank(clean) THEN {} ELSE clean

sanitizeTest(t) == [t EXCEPT !.message = sanitizeError(@)]

sanitizeResults(d) ==
    [d EXCEPT !.message = sanitizeError(@),
              !.tests = [i \in DOMAIN d.tests |-> sanitizeTest(d.tests[i])]]

Outcome ==
    CASE phase = "killed" -> [NoAnswer EXCEPT !.code = "timeout"]
      [] phase = "failed" -> [NoAnswer EXCEPT !.code = "harness_failed"]
      [] phase = "exited" /\ Readable(document) /\ validateResults(document) ->
           [code |-> "results", results |-> sanitizeResults(document), stdout |-> stdout]
      [] OTHER -> [NoAnswer EXCEPT !.code = "runner_protocol"]

Grade ==
    /\ phase \in {"exited", "failed", "killed"}
    /\ answer = NoAnswer
    /\ answer' = Outcome
    /\ UNCHANGED <<runner, stream, phase, harness, document, stdout>>

----------------------------------------------------------------------------
Files ==
    \/ \E ending \in Endings : TestEnds(ending)
    \/ \E type \in {"test:pass", "test:fail"} : FileEnds(type)
    \/ FileWrites \/ TestStarts
    \/ \E text \in Text : FileComplains(text)

\* Mutant: an event of an unknown type is waited for, not skipped.
ConsumeKnown == ForwardStdout \/ CollectStderr \/ RecordTest \/ (SkipEvent /\ Head(stream).wrapper)

Consume == ForwardStdout \/ CollectStderr \/ RecordTest \/ SkipEvent

Next == Files \/ Start \/ Consume \/ writeResults \/ WriteFails \/ Kill \/ Grade

Spec == Init /\ [][Next]_vars

\* run.js and the executor go on while they can; files may loop for ever.
FairSpec == Spec /\ WF_vars(Start) /\ WF_vars(Consume) /\ WF_vars(writeResults \/ WriteFails)
                 /\ WF_vars(Grade)

----------------------------------------------------------------------------
(* Properties.                                                             *)

\* What the files have done, file after file and test after test.
Reported ==
    {p \in (DOMAIN files) \X (1..MaxTests) : p[2] <= Len(reported[files[p[1]]])}
Before(p, q) == p[1] < q[1] \/ (p[1] = q[1] /\ p[2] <= q[2])
Rank(p) == Cardinality({q \in Reported : Before(q, p)})

\* The verdict is that of the tests: an answer with results lists every test
\* that any file reported, once, in order and with its own status, says pass
\* only if all have passed, and error only if there was none; a harness that
\* failed is given no verdict, whatever it has left in results.json.
VerdictIsOfTheTests ==
    answer.code = "results" =>
        /\ phase = "exited"
        /\ Len(answer.results.tests) = Cardinality(Reported)
        /\ \A p \in Reported :
             LET told == answer.results.tests[Rank(p)]
                 ended == reported[files[p[1]]][p[2]].status
             IN  /\ told.name = <<files[p[1]], p[2]>>
                 /\ <<ended, told.status>> \in
                      {<<"pass", "pass">>, <<"assertion", "fail">>, <<"throw", "error">>}
        /\ answer.results.status =
             IF Reported = {} THEN "error"
             ELSE IF \A p \in Reported : reported[files[p[1]]][p[2]].status = "pass" THEN "pass"
             ELSE "fail"

\* The tests that the files reported, with their texts as they were thrown.
ReportedTests ==
    {[name |-> <<files[p[1]], p[2]>>, title |-> reported[files[p[1]]][p[2]].title,
      message |-> reported[files[p[1]]][p[2]].thrown] : p \in Reported}

\* What run.js writes is what the executor accepts: with exit status zero the answer is
\* a protocol error only if all that was reported, public and private, is too large for a
\* document, the title of a test is blank, or a failure threw nothing public but what
\* Go takes for white space and JavaScript does not.
ProtocolAgrees ==
    answer.code = "runner_protocol" =>
        \/ ~Fits(Cardinality(Reported), ReportedTests)
        \/ \E p \in Reported :
             LET ended == reported[files[p[1]]][p[2]]
             IN  \/ Blank(ended.title)
                 \/ ended.status = "throw" /\ Public(ended.thrown) # {} /\ Blank(Public(ended.thrown))

\* Something was said, in characters of which the two filters leave nothing.
Unprintable(text) == text # {} /\ text \subseteq {"escape", "next"}

\* A failure is explained to the learner, after both filters, except one whose public
\* lines are nothing but control characters.
FailuresAreExplained ==
    answer.code = "results" =>
        /\ answer.results.status = "error" /\ Blank(answer.results.message) =>
                 Unprintable(Public(UNION {stderrByFile[f] : f \in File}))
        /\ \A p \in Reported :
             LET told == answer.results.tests[Rank(p)]
             IN  told.status # "pass" /\ Blank(told.message) =>
                     Unprintable(Public(reported[files[p[1]]][p[2]].thrown))

\* The transcript of an answered run is what the tests wrote, from the first write on and
\* in order, and falls short of it only beyond the limit of the capture.
TranscriptIsInOrder ==
    answer.code = "results" =>
        LET n == Len(answer.stdout)
        IN  /\ n <= Len(written)
            /\ answer.stdout = SubSeq(written, 1, n)
            /\ n < Len(written) => n >= Capture

\* Once all files have ended the run is answered, whatever is in the stream.
EndedRunsAreAnswered == (phase = "running" /\ running > Len(files)) ~> answer # NoAnswer

\* run.js:147-148: whether a file "loaded" is "decided below by whether any REAL test
\* was also seen for it": a run with a file that did not load does not pass.
UnloadedFilesDoNotPass ==
    answer.code = "results" /\ answer.results.status = "pass" => loadFailedFiles = {}

\* contracts/runtime.go:197-199: the answer carries "bounded process diagnostics".
TranscriptIsBounded == Len(answer.stdout) <= Capture
=============================================================================
