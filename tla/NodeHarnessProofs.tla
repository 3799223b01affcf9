-------------------------- MODULE NodeHarnessProofs --------------------------
(***************************************************************************)
(* The verdict of a node run, for any test files, texts and bounds: what   *)
(* run.js has recorded and what is still in the stream are together what   *)
(* the files reported, in its order (OrderInv), so that a document written *)
(* when the stream is empty says it all, and the executor accepts it       *)
(* unless it is too long, or has a blank where none may be.                *)
(***************************************************************************)
EXTENDS NodeHarness, FiniteSetTheorems, FunctionTheorems, TLAPS

DocumentType ==
    [status : {"none", "pass", "fail", "error"}, message : SUBSET Piece, tests : Seq(TestResult)]
AnswerType ==
    [code : {"none", "results", "harness_failed", "runner_protocol", "timeout"},
     results : DocumentType, stdout : Seq(File)]

\* The event of a test, not of its file.
IsTest(e) == e.type \in {"test:pass", "test:fail"} /\ ~e.wrapper

NumberedEvent == {e \in EventType : IsTest(e) => e.test \in 1..MaxTests}

\* The type invariant with what it leaves open: documents are records, a file is run
\* once, and its tests are bounded and numbered from one.
TypeInv ==
    /\ TypeOK
    /\ stream \in Seq(NumberedEvent)
    /\ document \in DocumentType /\ answer \in AnswerType
    /\ \A i, j \in DOMAIN files : files[i] = files[j] => i = j
    /\ \A f \in File : Len(reported[f]) <= MaxTests

\* What a test throws, and its title, is pieces of text.
LEMMA EndingType ==
    \A e \in Endings :
        e.thrown \subseteq Piece /\ e.title \subseteq Piece /\ e.status \in {"pass", "assertion", "throw"}
BY EndingAssumption

\* Before there is a document or an answer, the place of each has its type.
LEMMA NothingTyped == NoDocument \in DocumentType /\ NoAnswer \in AnswerType
BY DEF NoDocument, NoAnswer, DocumentType, AnswerType

\* An event of a file has its type.
LEMMA EventTyped ==
    ASSUME NEW type \in {"test:stdout", "test:stderr", "test:pass", "test:fail", "test:start"},
           NEW f \in File
    PROVE  Event(type, f) \in EventType
BY BoundAssumption DEF Event, EventType

\* The event by which TestEnds reports a test.
TestEvent(type, f, n, ending) == [Event(type, f) EXCEPT !.test = n, !.ending = ending]

\* The event of a test is one, and has the fields it was made of.
LEMMA TestEventTyped ==
    ASSUME NEW type \in {"test:pass", "test:fail"}, NEW f \in File, NEW n \in 1..MaxTests,
           NEW ending \in Endings, NEW e, e = TestEvent(type, f, n, ending)
    PROVE  /\ e \in NumberedEvent /\ IsTest(e)
           /\ e.type = type /\ e.file = f /\ e.test = n /\ e.ending = ending
<1> DEFINE d == [Event(type, f) EXCEPT !.test = n]
<1>1. Event(type, f) \in EventType
  BY EventTyped
<1>2. n \in 0..MaxTests
  BY BoundAssumption
<1>3. d \in EventType /\ d.type = type /\ d.file = f /\ d.test = n /\ ~d.wrapper
  BY <1>1, <1>2 DEF Event, EventType
<1>4. e = [d EXCEPT !.ending = ending]
  BY DEF TestEvent
<1> HIDE DEF d
<1>5. /\ e \in EventType /\ ~e.wrapper
      /\ e.type = type /\ e.file = f /\ e.test = n /\ e.ending = ending
  BY <1>3, <1>4 DEF EventType
<1> QED
  BY <1>5 DEF NumberedEvent, IsTest

\* What classifyFailure tells of an ending that was no pass.
Verdict(ending) ==
    IF ending.status = "pass" THEN [status |-> "pass", message |-> {}] ELSE classifyFailure(ending)

\* Every ending has a verdict, a failed one too.
LEMMA VerdictTyped ==
    ASSUME NEW ending \in Endings \cup {NoEnding}
    PROVE  /\ Verdict(ending) \in [status : {"pass", "fail", "error"}, message : SUBSET Piece]
           /\ classifyFailure(ending) \in [status : {"fail", "error"}, message : SUBSET Piece]
<1>1. ending.thrown \subseteq Piece
  BY EndingType DEF NoEnding
<1> QED
  BY <1>1 DEF Verdict, classifyFailure, learnerDiagnostic, Public, Piece

\* What run.js records of an event is a test result.
LEMMA ResultTyped ==
    ASSUME NEW e \in EventType, e.test \in 1..MaxTests
    PROVE  Result(e) \in TestResult
<1>1. e.file \in File /\ e.ending \in Endings \cup {NoEnding}
  BY DEF EventType
<1>2. classifyFailure(e.ending) \in [status : {"fail", "error"}, message : SUBSET Piece]
  BY <1>1, VerdictTyped
<1>3. e.ending.title \subseteq Piece
  BY <1>1, EndingType DEF NoEnding
<1> QED
  BY <1>1, <1>2, <1>3 DEF Result, TestResult

\* What run.js writes has the document's type.
LEMMA DocumentTyped == TypeOK => Document \in DocumentType
<1> SUFFICES ASSUME TypeOK PROVE Document \in DocumentType
  OBVIOUS
<1>1. UNION {stderrByFile[f] : f \in File} \subseteq Piece
  BY DEF TypeOK, Piece
<1>2. truncate(learnerDiagnostic(UNION {stderrByFile[f] : f \in File})) \subseteq Piece
  BY <1>1 DEF truncate, learnerDiagnostic, Public, Piece
<1> QED
  BY <1>2 DEF TypeOK, Document, DocumentType

\* Sanitising keeps a document's type, status and number of tests, and sanitises each.
LEMMA SanitizedTyped ==
    ASSUME NEW d \in DocumentType
    PROVE  /\ sanitizeResults(d) \in DocumentType
           /\ sanitizeResults(d).status = d.status
           /\ sanitizeResults(d).message = sanitizeError(d.message)
           /\ Len(sanitizeResults(d).tests) = Len(d.tests)
           /\ \A i \in DOMAIN d.tests :
                sanitizeResults(d).tests[i] = sanitizeTest(d.tests[i])
<1>1. \A text \in SUBSET Piece : sanitizeError(text) \in SUBSET Piece
  BY DEF sanitizeError, Blank, Piece
<1> DEFINE cleaned == [i \in DOMAIN d.tests |-> sanitizeTest(d.tests[i])]
<1>2. d.tests \in Seq(TestResult) /\ d.message \in SUBSET Piece
  BY DEF DocumentType
<1>3. \A i \in DOMAIN d.tests : sanitizeTest(d.tests[i]) \in TestResult
  <2> TAKE i \in DOMAIN d.tests
  <2>1. d.tests[i] \in TestResult
    BY <1>2
  <2> QED
    BY <2>1, <1>1 DEF TestResult, Piece, sanitizeTest
<1>4. cleaned \in Seq(TestResult) /\ Len(cleaned) = Len(d.tests)
  <2>1. DOMAIN d.tests = 1..Len(d.tests) /\ Len(d.tests) \in Nat
    BY <1>2
  <2>2. cleaned \in [1..Len(d.tests) -> TestResult]
    BY <1>3, <2>1
  <2> HIDE DEF cleaned
  <2> QED
    BY <2>1, <2>2
<1>5. sanitizeResults(d) = [status |-> d.status, message |-> sanitizeError(d.message), tests |-> cleaned]
  <2>1. sanitizeResults(d) = [d EXCEPT !.message = sanitizeError(d.message), !.tests = cleaned]
    BY DEF sanitizeResults
  <2> HIDE DEF cleaned
  <2> QED
    BY <2>1 DEF DocumentType
<1> HIDE DEF cleaned
<1>6. sanitizeResults(d) \in DocumentType
  BY <1>1, <1>2, <1>4, <1>5 DEF DocumentType
<1> QED
  BY <1>4, <1>5, <1>6 DEF cleaned

\* The documents that IsDocument speaks of.
LEMMA IsDocumentOfType == \A d \in DocumentType : IsDocument(d)
BY DEF DocumentType, IsDocument, Piece

\* What the executor makes of the document is an answer.
LEMMA OutcomeTyped == TypeInv => Outcome \in AnswerType
<1> SUFFICES ASSUME TypeInv PROVE Outcome \in AnswerType
  OBVIOUS
<1>1. sanitizeResults(document) \in DocumentType
  BY SanitizedTyped DEF TypeInv
<1>2. stdout \in Seq(File)
  BY DEF TypeInv, TypeOK
<1>3. CASE phase = "exited" /\ Readable(document) /\ validateResults(document)
  <2>1. Outcome = [code |-> "results", results |-> sanitizeResults(document), stdout |-> stdout]
    BY <1>3 DEF Outcome
  <2> QED
    BY <2>1, <1>1, <1>2 DEF AnswerType
<1>4. CASE ~(phase = "exited" /\ Readable(document) /\ validateResults(document))
  <2>1. Outcome \in {[NoAnswer EXCEPT !.code = c] :
                        c \in {"timeout", "harness_failed", "runner_protocol"}}
    BY <1>4 DEF Outcome
  <2> QED
    BY <2>1, NothingTyped DEF AnswerType, NoAnswer
<1> QED
  BY <1>3, <1>4

\* The types hold before the first file is run.
LEMMA TypeInit == Init => TypeInv
<1> SUFFICES ASSUME Init PROVE TypeInv
  OBVIOUS
<1>1. files \in Seq(File) /\ \A i, j \in DOMAIN files : files[i] = files[j] => i = j
  BY DEF Init, Orders
<1>2. document \in DocumentType /\ answer \in AnswerType
  BY NothingTyped DEF Init
<1>3. \A f \in File : Len(reported[f]) <= MaxTests
  BY BoundAssumption DEF Init
<1>4. IsDocument(document) /\ IsDocument(answer.results)
  BY <1>2, IsDocumentOfType DEF AnswerType
<1>5. reported \in [File -> Seq(Endings)]
  BY DEF Init
<1>6. stderrByFile \in [File -> SUBSET Piece]
  BY DEF Init
<1>7. /\ running \in 1..(Len(files) + 1) /\ phase = "starting"
      /\ answer.code \in {"none"} /\ answer.stdout \in Seq(File)
  BY <1>1 DEF Init, NoAnswer
<1> QED
  BY <1>1, <1>2, <1>3, <1>4, <1>5, <1>6, <1>7 DEF Init, TypeInv, TypeOK, Piece

\* An emitted event is of the type, and so is the stream with it.
LEMMA EmitTyped ==
    ASSUME TypeInv, NEW e \in NumberedEvent, Emit(e)
    PROVE  stream' \in Seq(NumberedEvent) /\ stream' \in Seq(EventType)
BY DEF TypeInv, TypeOK, Emit, NumberedEvent

\* Every step keeps the types.
LEMMA TypeStep == TypeInv /\ [Next]_vars => TypeInv'
<1> SUFFICES ASSUME TypeInv, [Next]_vars PROVE TypeInv'
  OBVIOUS
<1> USE DEF TypeInv, runner, harness
<1>n. MaxTests \in Nat
  BY BoundAssumption
<1>o. running \in Nat /\ Len(files) \in Nat /\ DOMAIN files = 1..Len(files)
  BY DEF TypeOK
<1>e. ASSUME stream # <<>>
      PROVE  /\ Head(stream) \in NumberedEvent
             /\ Tail(stream) \in Seq(NumberedEvent) /\ Tail(stream) \in Seq(EventType)
  BY <1>e DEF TypeOK
<1>b. ASSUME Busy PROVE files[running] \in File /\ running + 1 \in 1..(Len(files) + 1)
  BY <1>b, <1>o DEF Busy, TypeOK
<1>1. ASSUME NEW ending \in Endings, TestEnds(ending) PROVE TypeInv'
  <2> DEFINE f == files[running]
             type == IF ending.status = "pass" THEN "test:pass" ELSE "test:fail"
             e == [Event(type, f) EXCEPT !.test = Len(reported[f]) + 1, !.ending = ending]
  <2>1. f \in File /\ reported[f] \in Seq(Endings) /\ Len(reported[f]) + 1 \in 0..MaxTests
    BY SMTT(30), <1>1, <1>b, <1>n DEF TestEnds, TypeOK
  <2>2. e \in NumberedEvent
    <3>1. type \in {"test:pass", "test:fail"} /\ Len(reported[f]) + 1 \in 1..MaxTests
      BY <2>1
    <3>2. e = TestEvent(type, f, Len(reported[f]) + 1, ending)
      BY DEF TestEvent
    <3> HIDE DEF type, f, e
    <3> QED
      BY <2>1, <3>1, <3>2, TestEventTyped
  <2>3. stream' \in Seq(NumberedEvent) /\ stream' \in Seq(EventType)
    BY <1>1, <2>2, EmitTyped DEF TestEnds
  <2>4. /\ reported' \in [File -> Seq(Endings)]
        /\ \A g \in File : Len(reported'[g]) <= MaxTests
    BY SMTT(30), <1>1, <2>1, <1>n DEF TestEnds, TypeOK
  <2> QED
    BY <1>1, <2>3, <2>4 DEF TestEnds, TypeOK, IsDocument
<1>2. ASSUME NEW type \in {"test:pass", "test:fail"}, FileEnds(type) PROVE TypeInv'
  <2>1. files[running] \in File /\ running' \in 1..(Len(files) + 1)
    BY <1>2, <1>b DEF FileEnds
  <2>2. [Event(type, files[running]) EXCEPT !.wrapper = TRUE] \in NumberedEvent
    BY <2>1, EventTyped DEF NumberedEvent, EventType, Event, IsTest
  <2>3. stream' \in Seq(NumberedEvent) /\ stream' \in Seq(EventType)
    BY <1>2, <2>2, EmitTyped DEF FileEnds
  <2> QED
    BY <1>2, <2>1, <2>3 DEF FileEnds, TypeOK, IsDocument
<1>3. CASE FileWrites \/ TestStarts
  <2>1. files[running] \in File
    BY <1>3, <1>b DEF FileWrites, TestStarts
  <2>2. PICK type \in {"test:stdout", "test:start"} : Emit(Event(type, files[running]))
    BY <1>3 DEF FileWrites, TestStarts
  <2>3. Event(type, files[running]) \in NumberedEvent
    BY <2>1, EventTyped DEF NumberedEvent, EventType, Event, IsTest
  <2>4. stream' \in Seq(NumberedEvent) /\ stream' \in Seq(EventType)
    BY <2>2, <2>3, EmitTyped
  <2>5. written' \in Seq(File)
    <3>1. CASE FileWrites
      BY <3>1, <2>1 DEF FileWrites, TypeOK
    <3>2. CASE TestStarts
      BY <3>2 DEF TestStarts, TypeOK
    <3> QED
      BY <1>3, <3>1, <3>2
  <2>6. UNCHANGED <<files, running, reported, phase, harness, document, stdout, answer>>
    BY <1>3 DEF FileWrites, TestStarts
  <2> QED
    BY <2>4, <2>5, <2>6 DEF TypeOK, IsDocument
<1>4. ASSUME NEW text \in Text, FileComplains(text) PROVE TypeInv'
  <2>1. files[running] \in File
    BY <1>4, <1>b DEF FileComplains
  <2>2. [Event("test:stderr", files[running]) EXCEPT !.text = text] \in NumberedEvent
    BY <2>1, EventTyped, TextAssumption DEF NumberedEvent, EventType, Event, IsTest
  <2>3. stream' \in Seq(NumberedEvent) /\ stream' \in Seq(EventType)
    BY <1>4, <2>2, EmitTyped DEF FileComplains
  <2> QED
    BY <1>4, <2>3 DEF FileComplains, TypeOK, IsDocument
<1>5. CASE Start
  BY <1>5 DEF Start, TypeOK, IsDocument
<1>6. CASE ForwardStdout
  <2>1. /\ Head(stream).file \in File
        /\ stream' \in Seq(NumberedEvent) /\ stream' \in Seq(EventType)
    BY <1>6, <1>e DEF ForwardStdout, Takes, NumberedEvent, EventType
  <2>2. stdout' \in Seq(File)
    BY <1>6, <2>1 DEF ForwardStdout, Captured, TypeOK
  <2> QED
    BY <1>6, <2>1, <2>2 DEF ForwardStdout, TypeOK, IsDocument
<1>7. CASE CollectStderr
  <2>1. /\ Head(stream).file \in File
        /\ stream' \in Seq(NumberedEvent) /\ stream' \in Seq(EventType)
        /\ Head(stream).text \subseteq Piece
    BY <1>7, <1>e DEF CollectStderr, Takes, NumberedEvent, EventType, Piece
  <2>2. stderrByFile' \in [File -> SUBSET Piece]
    BY <1>7, <2>1 DEF CollectStderr, TypeOK, Piece
  <2> QED
    BY <1>7, <2>1, <2>2 DEF CollectStderr, TypeOK, IsDocument, Piece
<1>8. CASE SkipEvent
  <2>1. stream' \in Seq(NumberedEvent) /\ stream' \in Seq(EventType)
    BY <1>8, <1>e DEF SkipEvent, Takes
  <2> QED
    BY <1>8, <2>1 DEF SkipEvent, TypeOK, IsDocument
<1>9. CASE RecordTest
  <2>1. /\ Head(stream) \in NumberedEvent
        /\ stream' \in Seq(NumberedEvent) /\ stream' \in Seq(EventType)
    BY <1>9, <1>e DEF RecordTest, Takes
  <2>2. Head(stream) \in EventType /\ Head(stream).test \in 1..MaxTests
    BY <1>9, <2>1 DEF RecordTest, Takes, Ignored, NumberedEvent, IsTest
  <2>3. tests' \in Seq(TestResult)
    BY <1>9, <2>2, ResultTyped DEF RecordTest, Recorded, TypeOK
  <2> QED
    BY <1>9, <2>1, <2>3 DEF RecordTest, TypeOK, IsDocument
<1>10. CASE writeResults \/ WriteFails
  <2>1. document' \in DocumentType
    BY <1>10, DocumentTyped, NothingTyped DEF writeResults, WriteFails
  <2>2. IsDocument(document')
    BY <2>1, IsDocumentOfType
  <2>3. IsDocument(document)'
    BY <2>2 DEF IsDocument
  <2> QED
    BY <1>10, <2>1, <2>3 DEF writeResults, WriteFails, TypeOK, IsDocument
<1>11. CASE Kill
  BY <1>11 DEF Kill, TypeOK, IsDocument
<1>12. CASE Grade
  <2>1. answer' \in AnswerType
    BY <1>12, OutcomeTyped DEF Grade
  <2>2. IsDocument(answer.results)'
    BY <2>1, IsDocumentOfType DEF AnswerType, IsDocument
  <2> QED
    BY <1>12, <2>1, <2>2 DEF Grade, TypeOK, IsDocument, AnswerType
<1>13. CASE UNCHANGED vars
  BY <1>13 DEF vars, TypeOK, IsDocument
<1> QED
  BY <1>1, <1>2, <1>3, <1>4, <1>5, <1>6, <1>7, <1>8, <1>9, <1>10, <1>11, <1>12, <1>13
     DEF Next, Files, Consume

\* Types, for any files, texts and bounds.
THEOREM TypeCorrect == Spec => []TypeOK
<1>1. Spec => []TypeInv
  BY TypeInit, TypeStep, PTL DEF Spec
<1>2. TypeInv => TypeOK
  BY DEF TypeInv
<1> QED
  BY <1>1, <1>2, PTL

----------------------------------------------------------------------------
(* What was recorded (ts) and what is in the stream (es) are together what *)
(* the files fs reported (rep), each test once, in order and with its own  *)
(* verdict.                                                                *)

Spots(fs, rep) == {p \in (DOMAIN fs) \X (1..MaxTests) : p[2] <= Len(rep[fs[p[1]]])}

Tells(fs, rep, t, p) ==
    t = [name |-> <<fs[p[1]], p[2]>>, title |-> rep[fs[p[1]]][p[2]].title,
         status |-> Verdict(rep[fs[p[1]]][p[2]]).status,
         message |-> Verdict(rep[fs[p[1]]][p[2]]).message]

Precedes(fs, rep, s, t) ==
    \E p, q \in Spots(fs, rep) :
        Tells(fs, rep, s, p) /\ Tells(fs, rep, t, q) /\ Before(p, q) /\ p # q

Told(fs, rep, t) == \E p \in Spots(fs, rep) : Tells(fs, rep, t, p)

Account(fs, rep, ts, es) ==
    /\ \A k \in DOMAIN ts : Told(fs, rep, ts[k])
    /\ \A k \in DOMAIN es : IsTest(es[k]) => Told(fs, rep, Result(es[k]))
    /\ \A k, l \in DOMAIN ts : k < l => Precedes(fs, rep, ts[k], ts[l])
    /\ \A k \in DOMAIN ts, l \in DOMAIN es :
         IsTest(es[l]) => Precedes(fs, rep, ts[k], Result(es[l]))
    /\ \A k, l \in DOMAIN es :
         k < l /\ IsTest(es[k]) /\ IsTest(es[l]) => Precedes(fs, rep, Result(es[k]), Result(es[l]))
    /\ \A p \in Spots(fs, rep) :
         \/ \E k \in DOMAIN ts : Tells(fs, rep, ts[k], p)
         \/ \E k \in DOMAIN es : IsTest(es[k]) /\ Tells(fs, rep, Result(es[k]), p)

\* An event that is no test's adds nothing.
LEMMA AccountEmits ==
    ASSUME NEW fs, NEW rep, NEW ts, NEW es \in Seq(NumberedEvent), NEW e \in NumberedEvent,
           ~IsTest(e), Account(fs, rep, ts, es)
    PROVE  Account(fs, rep, ts, Append(es, e))
<1>1. /\ DOMAIN Append(es, e) = DOMAIN es \cup {Len(es) + 1} /\ Len(es) + 1 \notin DOMAIN es
      /\ \A k \in DOMAIN es : Append(es, e)[k] = es[k]
      /\ Append(es, e)[Len(es) + 1] = e
  OBVIOUS
<1> QED
  BY <1>1 DEF Account

\* A skipped event takes nothing with it.
LEMMA AccountSkips ==
    ASSUME NEW fs, NEW rep, NEW ts, NEW es \in Seq(NumberedEvent), es # <<>>,
           ~IsTest(Head(es)), Account(fs, rep, ts, es)
    PROVE  Account(fs, rep, ts, Tail(es))
<1>1. /\ \A k \in DOMAIN Tail(es) : k + 1 \in DOMAIN es /\ Tail(es)[k] = es[k + 1] /\ k \in Nat
      /\ \A k \in DOMAIN es : k = 1 \/ (k - 1 \in DOMAIN Tail(es) /\ Tail(es)[k - 1] = es[k])
      /\ es[1] = Head(es)
  OBVIOUS
<1>2. \A k \in DOMAIN Tail(es) : IsTest(Tail(es)[k]) => Told(fs, rep, Result(Tail(es)[k]))
  BY <1>1 DEF Account
<1>3. \A k \in DOMAIN ts, l \in DOMAIN Tail(es) :
        IsTest(Tail(es)[l]) => Precedes(fs, rep, ts[k], Result(Tail(es)[l]))
  BY <1>1 DEF Account
<1>4. \A k, l \in DOMAIN Tail(es) :
        k < l /\ IsTest(Tail(es)[k]) /\ IsTest(Tail(es)[l])
          => Precedes(fs, rep, Result(Tail(es)[k]), Result(Tail(es)[l]))
  BY <1>1 DEF Account
<1>5. ASSUME NEW p \in Spots(fs, rep),
             NEW k \in DOMAIN es, IsTest(es[k]) /\ Tells(fs, rep, Result(es[k]), p)
      PROVE  \E l \in DOMAIN Tail(es) : IsTest(Tail(es)[l]) /\ Tells(fs, rep, Result(Tail(es)[l]), p)
  BY <1>1, <1>5
<1> QED
  BY <1>2, <1>3, <1>4, <1>5 DEF Account

\* The test that was first in the stream is recorded last.
LEMMA AccountRecords ==
    ASSUME NEW fs, NEW rep, NEW ts \in Seq(TestResult), NEW es \in Seq(NumberedEvent),
           es # <<>>, IsTest(Head(es)), Account(fs, rep, ts, es)
    PROVE  Account(fs, rep, Append(ts, Result(Head(es))), Tail(es))
<1> DEFINE us == Append(ts, Result(Head(es)))
<1>1. /\ \A k \in DOMAIN Tail(es) : k + 1 \in DOMAIN es /\ Tail(es)[k] = es[k + 1] /\ k \in Nat
      /\ \A k \in DOMAIN es : k = 1 \/ (k - 1 \in DOMAIN Tail(es) /\ Tail(es)[k - 1] = es[k])
      /\ es[1] = Head(es) /\ 1 \in DOMAIN es
      /\ \A k \in DOMAIN Tail(es) : 1 < k + 1
  OBVIOUS
<1>2. /\ DOMAIN us = DOMAIN ts \cup {Len(ts) + 1} /\ Len(ts) + 1 \notin DOMAIN ts
      /\ \A k \in DOMAIN ts : us[k] = ts[k] /\ k < Len(ts) + 1
      /\ us[Len(ts) + 1] = Result(Head(es))
  OBVIOUS
<1> HIDE DEF us
<1>3. \A k \in DOMAIN us : Told(fs, rep, us[k])
  BY <1>1, <1>2 DEF Account
<1>4. \A k \in DOMAIN Tail(es) : IsTest(Tail(es)[k]) => Told(fs, rep, Result(Tail(es)[k]))
  BY <1>1 DEF Account
<1>5. \A k, l \in DOMAIN us : k < l => Precedes(fs, rep, us[k], us[l])
  <2> SUFFICES ASSUME NEW k \in DOMAIN us, NEW l \in DOMAIN us, k < l
               PROVE  Precedes(fs, rep, us[k], us[l])
    OBVIOUS
  <2>1. k \in DOMAIN ts
    BY <1>2
  <2>2. CASE l \in DOMAIN ts
    BY <2>1, <2>2, <1>2 DEF Account
  <2>3. CASE l = Len(ts) + 1
    BY <2>1, <2>3, <1>1, <1>2 DEF Account
  <2> QED
    BY <1>2, <2>2, <2>3
<1>6. \A k \in DOMAIN us, l \in DOMAIN Tail(es) :
        IsTest(Tail(es)[l]) => Precedes(fs, rep, us[k], Result(Tail(es)[l]))
  BY <1>1, <1>2 DEF Account
<1>7. \A k, l \in DOMAIN Tail(es) :
        k < l /\ IsTest(Tail(es)[k]) /\ IsTest(Tail(es)[l])
          => Precedes(fs, rep, Result(Tail(es)[k]), Result(Tail(es)[l]))
  BY <1>1 DEF Account
<1>8. \A p \in Spots(fs, rep) :
        \/ \E k \in DOMAIN us : Tells(fs, rep, us[k], p)
        \/ \E k \in DOMAIN Tail(es) : IsTest(Tail(es)[k]) /\ Tells(fs, rep, Result(Tail(es)[k]), p)
  <2> TAKE p \in Spots(fs, rep)
  <2>1. CASE \E k \in DOMAIN ts : Tells(fs, rep, ts[k], p)
    BY <2>1, <1>2
  <2>2. ASSUME NEW k \in DOMAIN es, IsTest(es[k]) /\ Tells(fs, rep, Result(es[k]), p)
        PROVE  \/ \E l \in DOMAIN us : Tells(fs, rep, us[l], p)
               \/ \E l \in DOMAIN Tail(es) :
                    IsTest(Tail(es)[l]) /\ Tells(fs, rep, Result(Tail(es)[l]), p)
    <3>1. CASE k = 1
      BY <2>2, <3>1, <1>1, <1>2
    <3>2. CASE k - 1 \in DOMAIN Tail(es) /\ Tail(es)[k - 1] = es[k]
      BY <2>2, <3>2
    <3> QED
      BY <3>1, <3>2, <1>1
  <2> QED
    BY <2>1, <2>2 DEF Account
<1> QED
  BY <1>3, <1>4, <1>5, <1>6, <1>7, <1>8 DEF Account, us

\* Files run once each, and their reports.
Reports(fs, rep) ==
    /\ fs \in Seq(File) /\ rep \in [File -> Seq(Endings)]
    /\ \A i, j \in DOMAIN fs : fs[i] = fs[j] => i = j

\* A spot is a place of a file and the number of a test reported in it.
LEMMA SpotFacts ==
    ASSUME NEW fs, NEW rep, Reports(fs, rep), NEW p \in Spots(fs, rep)
    PROVE  /\ p[1] \in DOMAIN fs /\ p[1] \in Nat /\ p[2] \in Nat /\ p[2] >= 1
           /\ p = <<p[1], p[2]>> /\ fs[p[1]] \in File
           /\ p[2] \in DOMAIN rep[fs[p[1]]] /\ rep[fs[p[1]]][p[2]] \in Endings
<1>1. MaxTests \in Nat
  BY BoundAssumption
<1>2. p \in (DOMAIN fs) \X (1..MaxTests) /\ p[2] <= Len(rep[fs[p[1]]])
  BY DEF Spots
<1>3. p[1] \in DOMAIN fs /\ p[1] \in Nat /\ p[2] \in Nat /\ p[2] >= 1 /\ p = <<p[1], p[2]>>
  BY <1>1, <1>2 DEF Reports
<1>4. fs[p[1]] \in File
  BY <1>3 DEF Reports
<1>5. rep[fs[p[1]]] \in Seq(Endings)
  BY <1>4 DEF Reports
<1>6. p[2] \in 1..Len(rep[fs[p[1]]])
  BY <1>2, <1>3, <1>5
<1> QED
  BY <1>3, <1>4, <1>5, <1>6

\* A result names the one test it tells of.
LEMMA TellsOfOne ==
    ASSUME NEW fs, NEW rep, Reports(fs, rep), NEW t,
           NEW p \in Spots(fs, rep), NEW q \in Spots(fs, rep),
           Tells(fs, rep, t, p), Tells(fs, rep, t, q)
    PROVE  p = q
<1>1. t.name = <<fs[p[1]], p[2]>> /\ t.name = <<fs[q[1]], q[2]>>
  BY DEF Tells
<1>2. fs[p[1]] = fs[q[1]] /\ p[2] = q[2]
  BY <1>1
<1>3. /\ p[1] \in DOMAIN fs /\ p = <<p[1], p[2]>>
      /\ q[1] \in DOMAIN fs /\ q = <<q[1], q[2]>>
  BY SpotFacts
<1>4. p[1] = q[1]
  BY <1>2, <1>3 DEF Reports
<1> QED
  BY <1>2, <1>3, <1>4

\* The files run in turn: a test that ends comes after all that ended before.
LEMMA AccountGrows ==
    ASSUME NEW fs, NEW rep, Reports(fs, rep), NEW ts, NEW es \in Seq(NumberedEvent),
           Account(fs, rep, ts, es),
           NEW i \in DOMAIN fs, NEW ending \in Endings, Len(rep[fs[i]]) < MaxTests,
           \A j \in DOMAIN fs : j > i => rep[fs[j]] = <<>>,
           NEW more, more = [rep EXCEPT ![fs[i]] = Append(rep[fs[i]], ending)],
           NEW e \in NumberedEvent, IsTest(e),
           Tells(fs, more, Result(e), <<i, Len(rep[fs[i]]) + 1>>)
    PROVE  Account(fs, more, ts, Append(es, e))
<1> DEFINE n == Len(rep[fs[i]]) + 1
           new == <<i, n>>
<1>n. MaxTests \in Nat
  BY BoundAssumption
<1>1. fs[i] \in File /\ rep[fs[i]] \in Seq(Endings) /\ n \in 1..MaxTests /\ i \in Nat
  BY <1>n DEF Reports
<1>2. /\ more[fs[i]] = Append(rep[fs[i]], ending)
      /\ \A j \in DOMAIN fs : j # i => more[fs[j]] = rep[fs[j]]
  BY <1>1 DEF Reports
<1>3. /\ Len(more[fs[i]]) = n /\ more[fs[i]][n] = ending
      /\ \A m \in DOMAIN rep[fs[i]] : more[fs[i]][m] = rep[fs[i]][m]
  BY <1>1, <1>2
<1>4. \A p \in Spots(fs, rep) :
        /\ p \in Spots(fs, more) /\ Before(p, new) /\ p # new
        /\ more[fs[p[1]]][p[2]] = rep[fs[p[1]]][p[2]]
  <2> TAKE p \in Spots(fs, rep)
  <2>1. /\ p[1] \in DOMAIN fs /\ p[1] \in Nat /\ p[2] \in Nat /\ p[2] >= 1 /\ p = <<p[1], p[2]>>
        /\ p[2] \in DOMAIN rep[fs[p[1]]] /\ p[2] <= Len(rep[fs[p[1]]])
        /\ p \in (DOMAIN fs) \X (1..MaxTests)
    BY SpotFacts DEF Spots
  <2>2. p[1] <= i
    <3>1. ASSUME p[1] > i PROVE FALSE
      BY <2>1, <3>1
    <3> QED
      BY <3>1, <2>1, <1>1
  <2>3. CASE p[1] = i
    BY <2>1, <2>3, <1>1, <1>3 DEF Spots, Before
  <2>4. CASE p[1] # i
    BY <2>1, <2>2, <2>4, <1>1, <1>2 DEF Spots, Before
  <2> QED
    BY <2>3, <2>4
<1>5. new \in Spots(fs, more)
  BY <1>1, <1>3 DEF Spots
<1>6. ASSUME NEW p \in Spots(fs, more), p # new PROVE p \in Spots(fs, rep)
  <2>1. p \in (DOMAIN fs) \X (1..MaxTests) /\ p[2] <= Len(more[fs[p[1]]])
    BY <1>6 DEF Spots
  <2>2. CASE p[1] = i
    BY <2>1, <2>2, <1>n, <1>1, <1>3, <1>6 DEF Spots
  <2>3. CASE p[1] # i
    BY <2>1, <2>3, <1>2 DEF Spots
  <2> QED
    BY <2>2, <2>3
<1>7. \A t, p : p \in Spots(fs, rep) /\ Tells(fs, rep, t, p) => Tells(fs, more, t, p)
  BY <1>4 DEF Tells
<1>8. \A s, t : Precedes(fs, rep, s, t) => Precedes(fs, more, s, t)
  BY <1>4, <1>7 DEF Precedes
<1>9. \A t : Told(fs, rep, t) => Told(fs, more, t) /\ Precedes(fs, more, t, Result(e))
  BY <1>4, <1>5, <1>7 DEF Told, Precedes
<1>10. /\ DOMAIN Append(es, e) = DOMAIN es \cup {Len(es) + 1} /\ Len(es) + 1 \notin DOMAIN es
       /\ \A k \in DOMAIN es : Append(es, e)[k] = es[k] /\ k < Len(es) + 1
       /\ Append(es, e)[Len(es) + 1] = e
  OBVIOUS
<1> DEFINE us == Append(es, e)
<1> HIDE DEF new, n, us
<1>11. \A k \in DOMAIN ts : Told(fs, more, ts[k])
  BY <1>9 DEF Account
<1>12. \A k \in DOMAIN us : IsTest(us[k]) => Told(fs, more, Result(us[k]))
  BY <1>9, <1>10, <1>5 DEF Account, us, Told, new, n
<1>13. \A k, l \in DOMAIN ts : k < l => Precedes(fs, more, ts[k], ts[l])
  BY <1>8 DEF Account
<1>14. \A k \in DOMAIN ts, l \in DOMAIN us :
         IsTest(us[l]) => Precedes(fs, more, ts[k], Result(us[l]))
  BY <1>8, <1>9, <1>10 DEF Account, us
<1>15. \A k, l \in DOMAIN us :
         k < l /\ IsTest(us[k]) /\ IsTest(us[l])
           => Precedes(fs, more, Result(us[k]), Result(us[l]))
  <2> SUFFICES ASSUME NEW k \in DOMAIN us, NEW l \in DOMAIN us,
                      k < l, IsTest(us[k]), IsTest(us[l])
               PROVE  Precedes(fs, more, Result(us[k]), Result(us[l]))
    OBVIOUS
  <2>1. k \in DOMAIN es /\ us[k] = es[k]
    BY <1>10 DEF us
  <2>2. CASE l \in DOMAIN es
    BY <2>1, <2>2, <1>8, <1>10 DEF Account, us
  <2>3. CASE l = Len(es) + 1
    BY <2>1, <2>3, <1>9, <1>10 DEF Account, us
  <2> QED
    BY <2>2, <2>3, <1>10 DEF us
<1>16. ASSUME NEW p \in Spots(fs, more)
       PROVE  \/ \E k \in DOMAIN ts : Tells(fs, more, ts[k], p)
              \/ \E k \in DOMAIN us : IsTest(us[k]) /\ Tells(fs, more, Result(us[k]), p)
  <2>1. CASE p = new
    BY <2>1, <1>10 DEF us, new, n
  <2>2. CASE p \in Spots(fs, rep) /\ \E k \in DOMAIN ts : Tells(fs, rep, ts[k], p)
    BY <2>2, <1>7
  <2>3. ASSUME NEW k \in DOMAIN es, p \in Spots(fs, rep), IsTest(es[k]),
               Tells(fs, rep, Result(es[k]), p)
        PROVE  \E l \in DOMAIN us : IsTest(us[l]) /\ Tells(fs, more, Result(us[l]), p)
    BY <2>3, <1>7, <1>10 DEF us
  <2> QED
    BY <2>1, <2>2, <2>3, <1>6 DEF Account
<1> QED
  BY <1>11, <1>12, <1>13, <1>14, <1>15, <1>16 DEF Account, us

\* Once the stream is empty, the n-th test recorded is the n-th that was reported.
LEMMA AccountIsRanked ==
    ASSUME NEW fs, NEW rep, Reports(fs, rep), NEW ts \in Seq(TestResult),
           Account(fs, rep, ts, <<>>)
    PROVE  /\ Cardinality(Spots(fs, rep)) = Len(ts)
           /\ \A p \in Spots(fs, rep) :
                LET rank == Cardinality({q \in Spots(fs, rep) : Before(q, p)})
                IN  rank \in 1..Len(ts) /\ Tells(fs, rep, ts[rank], p)
<1> DEFINE S == Spots(fs, rep)
           place == [k \in DOMAIN ts |-> CHOOSE p \in S : Tells(fs, rep, ts[k], p)]
           Upto(k) == {place[m] : m \in 1..k}
<1>1. \A k \in DOMAIN ts : place[k] \in S /\ Tells(fs, rep, ts[k], place[k])
  BY DEF Account, Told
<1>2. \A p \in S : \E k \in DOMAIN ts : Tells(fs, rep, ts[k], p)
  BY DEF Account
<1> HIDE DEF place
<1>3. \A p \in S, k \in DOMAIN ts : Tells(fs, rep, ts[k], p) => place[k] = p
  BY <1>1, TellsOfOne
<1>4. \A k, l \in DOMAIN ts : k < l => Before(place[k], place[l]) /\ place[k] # place[l]
  BY <1>1, <1>3 DEF Account, Precedes
<1>5. DOMAIN ts = 1..Len(ts) /\ Len(ts) \in Nat
  OBVIOUS
<1>6. \A p \in S : Before(p, p)
  BY SpotFacts DEF Before
<1>7. \A p, q \in S : Before(p, q) /\ Before(q, p) => p = q
  <2> SUFFICES ASSUME NEW p \in S, NEW q \in S, Before(p, q), Before(q, p) PROVE p = q
    OBVIOUS
  <2>1. /\ p[1] \in Nat /\ p[2] \in Nat /\ p = <<p[1], p[2]>>
        /\ q[1] \in Nat /\ q[2] \in Nat /\ q = <<q[1], q[2]>>
    BY SpotFacts
  <2>2. p[1] = q[1] /\ p[2] = q[2]
    BY <2>1 DEF Before
  <2> QED
    BY <2>1, <2>2
<1> HIDE DEF S
<1>8. \A k \in 0..Len(ts) : Cardinality(Upto(k)) = k
  <2> TAKE k \in 0..Len(ts)
  <2> DEFINE f == [m \in 1..k |-> place[m]]
  <2>1. k \in Nat /\ \A m \in 1..k : m \in DOMAIN ts
    BY <1>5
  <2>2. f \in [1..k -> Upto(k)]
    OBVIOUS
  <2>3. \A m, n \in 1..k : f[m] = f[n] => m = n
    BY <2>1, <1>4, <1>5
  <2>4. \A u \in Upto(k) : \E m \in 1..k : f[m] = u
    OBVIOUS
  <2> HIDE DEF f
  <2>5. f \in Bijection(1..k, Upto(k))
    BY <2>2, <2>3, <2>4, Fun_IsBij
  <2>6. ExistsBijection(1..k, Upto(k))
    BY <2>5 DEF ExistsBijection
  <2>7. IsFiniteSet(1..k) /\ Cardinality(1..k) = k
    BY <2>1, FS_Interval
  <2> QED
    BY <2>6, <2>7, FS_Bijection
<1>9. S = Upto(Len(ts))
  BY <1>1, <1>2, <1>3, <1>5
<1>10. ASSUME NEW p \in S
       PROVE  LET rank == Cardinality({q \in S : Before(q, p)})
              IN  rank \in 1..Len(ts) /\ Tells(fs, rep, ts[rank], p)
  <2>1. PICK k \in DOMAIN ts : Tells(fs, rep, ts[k], p)
    BY <1>2
  <2>2. place[k] = p /\ k \in 1..Len(ts)
    BY <2>1, <1>3, <1>5
  <2>3. \A m \in 1..k : m \in DOMAIN ts /\ (m < k \/ m = k)
    BY <2>2, <1>5
  <2>4. \A m \in 1..k : place[m] \in S /\ Before(place[m], p)
    BY <2>2, <2>3, <1>1, <1>4, <1>6
  <2>5. ASSUME NEW q \in S, Before(q, p) PROVE q \in Upto(k)
    <3>1. PICK l \in DOMAIN ts : Tells(fs, rep, ts[l], q)
      BY <1>2
    <3>2. place[l] = q
      BY <3>1, <1>3
    <3>3. ~(k < l)
      BY <2>1, <2>2, <2>5, <3>1, <3>2, <1>4, <1>7
    <3>4. l \in 1..k
      BY <3>1, <3>3, <2>2, <1>5
    <3> QED
      BY <3>2, <3>4
  <2>6. {q \in S : Before(q, p)} = Upto(k)
    BY <2>4, <2>5
  <2>7. Cardinality({q \in S : Before(q, p)}) = k
    BY <2>2, <2>6, <1>8, <1>5
  <2> QED
    BY <2>1, <2>2, <2>7
<1>11. Cardinality(S) = Len(ts)
  BY <1>5, <1>8, <1>9
<1> QED
  BY <1>10, <1>11 DEF S

----------------------------------------------------------------------------
(* The inductive invariant.                                                *)

\* What the executor answers is the outcome of a document that is final.
Graded ==
    /\ phase = "exited" => stream = <<>> /\ document = Document
    /\ answer.code = "results" =>
         /\ phase = "exited" /\ Readable(document) /\ validateResults(document)
         /\ answer.results = sanitizeResults(document)
    /\ answer.code = "runner_protocol" =>
         phase = "exited" /\ ~(Readable(document) /\ validateResults(document))

HarnessInv ==
    /\ TypeInv
    /\ \A j \in DOMAIN files : j > running => reported[files[j]] = <<>>
    /\ Account(files, reported, tests, stream)
    /\ Graded

\* The invariant holds before the first file is run.
LEMMA HarnessInit == Init => HarnessInv
<1> SUFFICES ASSUME Init PROVE HarnessInv
  OBVIOUS
<1>1. TypeInv
  BY TypeInit
<1>2. \A i \in DOMAIN files : reported[files[i]] = <<>>
  BY <1>1 DEF Init, TypeInv, TypeOK
<1>3. Spots(files, reported) = {}
  <2> SUFFICES ASSUME NEW p \in Spots(files, reported) PROVE FALSE
    OBVIOUS
  <2>1. p[1] \in DOMAIN files /\ p[2] \in 1..MaxTests /\ p[2] <= Len(reported[files[p[1]]])
    BY DEF Spots
  <2>2. p[2] <= 0
    BY <2>1, <1>2
  <2> QED
    BY <2>1, <2>2, BoundAssumption
<1>4. Account(files, reported, tests, stream)
  BY <1>3 DEF Init, Account
<1>5. Graded
  BY DEF Init, Graded, NoAnswer
<1> QED
  BY <1>1, <1>2, <1>4, <1>5 DEF HarnessInv

\* What Outcome answers, and when.
LEMMA OutcomeCases ==
    /\ Outcome.code = "results" =>
         /\ phase = "exited" /\ Readable(document) /\ validateResults(document)
         /\ Outcome.results = sanitizeResults(document) /\ Outcome.stdout = stdout
    /\ Outcome.code = "runner_protocol" /\ phase \in {"exited", "failed", "killed"} =>
         phase = "exited" /\ ~(Readable(document) /\ validateResults(document))
<1>1. CASE phase = "exited" /\ Readable(document) /\ validateResults(document)
  BY <1>1 DEF Outcome
<1>2. CASE phase = "exited" /\ ~(Readable(document) /\ validateResults(document))
  <2>1. Outcome = [NoAnswer EXCEPT !.code = "runner_protocol"]
    BY <1>2 DEF Outcome
  <2> QED
    BY <2>1, <1>2 DEF NoAnswer
<1>3. CASE phase # "exited"
  <2>1. \E c \in {"timeout", "harness_failed", "runner_protocol"} :
          /\ Outcome = [NoAnswer EXCEPT !.code = c]
          /\ phase \in {"failed", "killed"} => c # "runner_protocol"
    BY <1>3 DEF Outcome
  <2> QED
    BY <2>1, <1>3 DEF NoAnswer
<1> QED
  BY <1>1, <1>2, <1>3

\* Between the start and the end of the harness there is nothing to grade.
LEMMA GradedWhile ==
    ASSUME Graded, phase # "exited", phase' # "exited", UNCHANGED answer
    PROVE  Graded'
BY DEF Graded

\* What is graded stays so while its parts are unchanged.
LEMMA GradedAfter ==
    ASSUME Graded,
           UNCHANGED <<phase, stream, tests, stderrByFile, document, answer>>
    PROVE  Graded'
BY DEF Graded, Document

\* Every step keeps the invariant of the harness.
LEMMA HarnessStep == HarnessInv /\ [Next]_vars => HarnessInv'
<1> SUFFICES ASSUME HarnessInv, [Next]_vars PROVE HarnessInv'
  OBVIOUS
<1> USE DEF HarnessInv, runner, harness
<1>t. TypeInv'
  BY TypeStep
<1>s. /\ stream \in Seq(NumberedEvent) /\ tests \in Seq(TestResult)
      /\ Reports(files, reported)
      /\ DOMAIN files = 1..Len(files) /\ Len(files) \in Nat /\ running \in Nat
      /\ running >= 1
  BY DEF TypeInv, TypeOK, Reports
<1>e. ASSUME NEW e \in NumberedEvent, ~IsTest(e), Emit(e), UNCHANGED <<files, reported, tests>>
      PROVE  Account(files, reported, tests, stream)'
  BY <1>e, <1>s, AccountEmits DEF Emit
<1>k. ASSUME stream # <<>>, stream' = Tail(stream), ~IsTest(Head(stream)),
             UNCHANGED <<files, reported, tests>>
      PROVE  Account(files, reported, tests, stream)'
  BY <1>k, <1>s, AccountSkips
<1>b. ASSUME Busy PROVE files[running] \in File /\ running \in DOMAIN files /\ phase = "running"
  BY <1>b, <1>s DEF Busy, Reports
<1>1. ASSUME NEW ending \in Endings, TestEnds(ending) PROVE HarnessInv'
  <2> DEFINE f == files[running]
             n == Len(reported[f]) + 1
             type == IF ending.status = "pass" THEN "test:pass" ELSE "test:fail"
             e == TestEvent(type, f, n, ending)
             more == [reported EXCEPT ![f] = Append(reported[f], ending)]
  <2>1. /\ f \in File /\ running \in DOMAIN files /\ reported[f] \in Seq(Endings)
        /\ Len(reported[f]) < MaxTests /\ n \in 1..MaxTests /\ MaxTests \in Nat
    BY <1>1, <1>b, <1>s, BoundAssumption DEF TestEnds, Reports
  <2>2. reported' = more /\ Emit(e) /\ UNCHANGED <<files, running, tests, phase, answer>>
    BY <1>1 DEF TestEnds, TestEvent
  <2>3. type \in {"test:pass", "test:fail"}
    OBVIOUS
  <2>4. /\ e \in NumberedEvent /\ IsTest(e)
        /\ e.type = type /\ e.file = f /\ e.test = n /\ e.ending = ending
    <3>1. f \in File /\ n \in 1..MaxTests
      BY <2>1
    <3> HIDE DEF type, f, n
    <3> QED
      BY <2>3, <3>1, TestEventTyped
  <2>5. more[f][n] = ending
    BY <2>1, <1>s DEF Reports
  <2>6. Tells(files, more, Result(e), <<running, n>>)
    <3>1. Result(e).name = <<f, n>>
      BY <2>4 DEF Result
    <3>2. Result(e) = [name |-> <<f, n>>, title |-> ending.title,
                       status |-> Verdict(ending).status, message |-> Verdict(ending).message]
      BY <2>4 DEF Result, Verdict
    <3> QED
      BY <3>2, <2>5 DEF Tells
  <2>7. Account(files, more, tests, Append(stream, e))
    <3> HIDE DEF e, more
    <3>1. more = [reported EXCEPT ![files[running]] = Append(reported[files[running]], ending)]
      BY DEF more
    <3> QED
      BY <2>1, <2>4, <2>6, <3>1, <1>s, AccountGrows
  <2>8. Account(files, reported, tests, stream)'
    BY <2>2, <2>7 DEF Emit
  <2>9. \A j \in DOMAIN files : j > running => more[files[j]] = <<>>
    BY <2>1, <1>s DEF Reports
  <2>10. Graded'
    BY <1>1, <1>b, <2>2, GradedWhile DEF TestEnds
  <2> QED
    BY <2>2, <2>8, <2>9, <2>10, <1>t
<1>2. ASSUME NEW type \in {"test:pass", "test:fail"}, FileEnds(type) PROVE HarnessInv'
  <2> DEFINE e == [Event(type, files[running]) EXCEPT !.wrapper = TRUE]
  <2>1. files[running] \in File
    BY <1>2, <1>b DEF FileEnds
  <2>2. e \in NumberedEvent /\ ~IsTest(e)
    BY <2>1, EventTyped DEF NumberedEvent, EventType, Event, IsTest
  <2>3. Account(files, reported, tests, stream)'
    BY <1>2, <2>2, <1>e DEF FileEnds
  <2>4. Graded'
    BY <1>2, <1>b, GradedWhile DEF FileEnds
  <2> QED
    BY <1>2, <2>3, <2>4, <1>t, <1>s DEF FileEnds
<1>3. CASE FileWrites \/ TestStarts
  <2>1. files[running] \in File
    BY <1>3, <1>b DEF FileWrites, TestStarts
  <2>2. PICK type \in {"test:stdout", "test:start"} : Emit(Event(type, files[running]))
    BY <1>3 DEF FileWrites, TestStarts
  <2>3. Event(type, files[running]) \in NumberedEvent /\ ~IsTest(Event(type, files[running]))
    BY <2>1, EventTyped DEF NumberedEvent, EventType, Event, IsTest
  <2>4. UNCHANGED <<files, running, reported, tests, phase, answer>>
    BY <1>3 DEF FileWrites, TestStarts
  <2>5. Account(files, reported, tests, stream)'
    BY <2>2, <2>3, <2>4, <1>e
  <2>6. Graded'
    BY <1>3, <2>4, <1>b, GradedWhile DEF FileWrites, TestStarts
  <2> QED
    BY <2>4, <2>5, <2>6, <1>t
<1>4. ASSUME NEW text \in Text, FileComplains(text) PROVE HarnessInv'
  <2> DEFINE e == [Event("test:stderr", files[running]) EXCEPT !.text = text]
  <2>1. files[running] \in File
    BY <1>4, <1>b DEF FileComplains
  <2>2. e \in NumberedEvent /\ ~IsTest(e)
    BY <2>1, EventTyped, TextAssumption DEF NumberedEvent, EventType, Event, IsTest
  <2>3. Account(files, reported, tests, stream)'
    BY <1>4, <2>2, <1>e DEF FileComplains
  <2>4. Graded'
    BY <1>4, <1>b, GradedWhile DEF FileComplains
  <2> QED
    BY <1>4, <2>3, <2>4, <1>t DEF FileComplains
<1>5. CASE Start \/ Kill
  <2>1. /\ UNCHANGED <<files, running, reported, tests, stream, answer>>
        /\ phase # "exited" /\ phase' # "exited"
    BY <1>5 DEF Start, Kill
  <2>2. Graded'
    BY <2>1, GradedWhile
  <2> QED
    BY <2>1, <2>2, <1>t
<1>6. CASE ForwardStdout \/ CollectStderr \/ SkipEvent
  <2>1. /\ stream # <<>> /\ stream' = Tail(stream) /\ ~IsTest(Head(stream))
        /\ UNCHANGED <<files, running, reported, tests, phase, answer>> /\ phase = "running"
    BY <1>6 DEF ForwardStdout, CollectStderr, SkipEvent, Takes, Ignored, IsTest
  <2>2. Account(files, reported, tests, stream)'
    BY <2>1, <1>k
  <2>3. Graded'
    BY <2>1, GradedWhile
  <2> QED
    BY <2>1, <2>2, <2>3, <1>t
<1>7. CASE RecordTest
  <2>1. /\ stream # <<>> /\ stream' = Tail(stream) /\ IsTest(Head(stream))
        /\ tests' = Append(tests, Result(Head(stream)))
        /\ UNCHANGED <<files, running, reported, phase, answer>> /\ phase = "running"
    BY <1>7 DEF RecordTest, Recorded, Takes, Ignored, IsTest
  <2>2. Account(files, reported, tests, stream)'
    BY <2>1, <1>s, AccountRecords
  <2>3. Graded'
    BY <2>1, GradedWhile
  <2> QED
    BY <2>1, <2>2, <2>3, <1>t
<1>8. CASE writeResults \/ WriteFails
  <2>1. /\ UNCHANGED <<files, running, reported, tests, stderrByFile, stream, answer>>
        /\ phase = "running" /\ stream = <<>>
        /\ phase' = "exited" => document' = Document
    BY <1>8 DEF writeResults, WriteFails, StreamEnds
  <2>2. Graded'
    BY <2>1 DEF Graded, Document
  <2> QED
    BY <2>1, <2>2, <1>t
<1>9. CASE Grade
  <2>1. /\ UNCHANGED <<files, running, reported, tests, stderrByFile, stream, phase, document>>
        /\ phase \in {"exited", "failed", "killed"} /\ answer' = Outcome
    BY <1>9 DEF Grade
  <2>2. Graded'
    BY <2>1, OutcomeCases DEF Graded, Document, Readable, Fits, LongLines, validateResults, sanitizeResults
  <2> QED
    BY <2>1, <2>2, <1>t
<1>10. CASE UNCHANGED vars
  <2>1. UNCHANGED <<files, running, reported, tests, stderrByFile, stream, phase, document, answer>>
    BY <1>10 DEF vars
  <2>2. Graded'
    BY <2>1, GradedAfter
  <2> QED
    BY <2>1, <2>2, <1>t
<1> QED
  BY <1>1, <1>2, <1>3, <1>4, <1>5, <1>6, <1>7, <1>8, <1>9, <1>10 DEF Next, Files, Consume

\* The inductive invariant, for any files, texts and bounds.
THEOREM HarnessSafety == Spec => []HarnessInv
BY HarnessInit, HarnessStep, PTL DEF Spec

----------------------------------------------------------------------------
(* Consequences.                                                           *)

\* What is known of a run whose harness has exited: its tests are the reported ones.
LEMMA ExitedIsComplete ==
    ASSUME HarnessInv, phase = "exited"
    PROVE  /\ document = Document /\ document \in DocumentType
           /\ Len(tests) = Cardinality(Reported) /\ Len(tests) \in Nat
           /\ DOMAIN tests = 1..Len(tests) /\ tests \in Seq(TestResult)
           /\ \A p \in Reported :
                /\ Rank(p) \in 1..Len(tests) /\ Tells(files, reported, tests[Rank(p)], p)
                /\ reported[files[p[1]]][p[2]] \in Endings
           /\ \A k \in DOMAIN tests : \E p \in Reported : Tells(files, reported, tests[k], p)
<1>1. /\ Reports(files, reported) /\ tests \in Seq(TestResult)
      /\ Account(files, reported, tests, <<>>)
  BY DEF HarnessInv, Graded, TypeInv, TypeOK, Reports
<1>2. Spots(files, reported) = Reported
  BY DEF Spots, Reported
<1>3. \A p \in Reported : reported[files[p[1]]][p[2]] \in Endings
  BY <1>1, <1>2, SpotFacts
<1>4. \A k \in DOMAIN tests : \E p \in Reported : Tells(files, reported, tests[k], p)
  BY <1>1, <1>2 DEF Account, Told
<1>5. document = Document /\ document \in DocumentType
  BY DEF HarnessInv, Graded, TypeInv
<1>6. Len(tests) \in Nat /\ DOMAIN tests = 1..Len(tests)
  BY <1>1
<1>7. /\ Cardinality(Reported) = Len(tests)
      /\ \A p \in Reported : /\ Rank(p) \in 1..Len(tests)
                             /\ Tells(files, reported, tests[Rank(p)], p)
  BY <1>1, <1>2, AccountIsRanked DEF Rank
<1> QED
  BY <1>1, <1>3, <1>4, <1>5, <1>6, <1>7

\* What a test is told to have been: the three endings and their verdicts.
LEMMA VerdictOfEnding ==
    ASSUME NEW ending \in Endings
    PROVE  /\ <<ending.status, Verdict(ending).status>> \in
                {<<"pass", "pass">>, <<"assertion", "fail">>, <<"throw", "error">>}
           /\ Verdict(ending).status = "pass" <=> ending.status = "pass"
           /\ Verdict(ending).status # "pass" /\ Blank(Verdict(ending).message) =>
                /\ ending.status = "throw"
                /\ Public(ending.thrown) # {} /\ Blank(Public(ending.thrown))
           /\ Verdict(ending).message \cap Long = ending.thrown \cap Long
<1>1. /\ ending.status \in {"pass", "assertion", "throw"}
      /\ ending.status = "pass" => ending.thrown = {}
  BY EndingType, EndingAssumption
<1>2. \A text : Blank(learnerDiagnostic(text)) => Public(text) # {} /\ Blank(Public(text))
  BY DEF learnerDiagnostic, Blank
<1>3. \A text : learnerDiagnostic(text) \cap Long = text \cap Long
  BY LongAssumption DEF learnerDiagnostic, Public
<1>4. CASE ending.status = "pass"
  BY <1>1, <1>4 DEF Verdict
<1>5. CASE ending.status = "assertion"
  <2>1. Verdict(ending) = [status |-> "fail", message |-> {"word"} \cup ending.thrown]
    BY <1>5 DEF Verdict, classifyFailure
  <2> QED
    BY <1>5, <2>1, LongAssumption DEF Blank
<1>6. CASE ending.status = "throw"
  <2>1. Verdict(ending) = [status |-> "error", message |-> learnerDiagnostic(ending.thrown)]
    BY <1>6 DEF Verdict, classifyFailure
  <2> QED
    BY <1>6, <2>1, <1>2, <1>3
<1> QED
  BY <1>1, <1>4, <1>5, <1>6

\* A recorded test that tells a spot has its name, its title, its status and its message.
LEMMA TellsWhat ==
    ASSUME NEW t, NEW p, Tells(files, reported, t, p)
    PROVE  /\ t.name = <<files[p[1]], p[2]>>
           /\ t.title = reported[files[p[1]]][p[2]].title
           /\ t.status = Verdict(reported[files[p[1]]][p[2]]).status
           /\ t.message = Verdict(reported[files[p[1]]][p[2]]).message
BY DEF Tells

\* The document is of the recorded tests: no test is an error, and one that did not pass a failure.
LEMMA DocumentStatus ==
    /\ Document.tests = tests
    /\ tests = <<>> => Document.status = "error"
    /\ tests # <<>> => Document.status =
         IF \A i \in DOMAIN tests : tests[i].status = "pass" THEN "pass" ELSE "fail"
BY DEF Document

\* No run of a node task is answered with a verdict other than that of the tests its
\* files reported: each of them once, in order and with its own status.
THEOREM VerdictsAreOfTheTests == Spec => []VerdictIsOfTheTests
<1>1. HarnessInv => VerdictIsOfTheTests
  <2> SUFFICES ASSUME HarnessInv, answer.code = "results" PROVE VerdictIsOfTheTests
    BY DEF VerdictIsOfTheTests
  <2>1. phase = "exited" /\ answer.results = sanitizeResults(document)
    BY DEF HarnessInv, Graded
  <2>2. /\ document = Document /\ document \in DocumentType
        /\ Len(tests) = Cardinality(Reported) /\ Len(tests) \in Nat
        /\ DOMAIN tests = 1..Len(tests) /\ tests \in Seq(TestResult)
        /\ \A p \in Reported :
             /\ Rank(p) \in 1..Len(tests) /\ Tells(files, reported, tests[Rank(p)], p)
             /\ reported[files[p[1]]][p[2]] \in Endings
        /\ \A k \in DOMAIN tests : \E p \in Reported : Tells(files, reported, tests[k], p)
    BY <2>1, ExitedIsComplete
  <2>3. /\ Len(answer.results.tests) = Len(tests)
        /\ answer.results.status = Document.status
        /\ \A k \in DOMAIN tests : answer.results.tests[k] = sanitizeTest(tests[k])
    BY <2>1, <2>2, SanitizedTyped, DocumentStatus
  <2>4. \A k \in DOMAIN tests : /\ sanitizeTest(tests[k]).name = tests[k].name
                                /\ sanitizeTest(tests[k]).status = tests[k].status
    BY <2>2 DEF sanitizeTest, TestResult
  <2>5. ASSUME NEW p \in Reported
        PROVE  /\ answer.results.tests[Rank(p)].name = <<files[p[1]], p[2]>>
               /\ <<reported[files[p[1]]][p[2]].status, answer.results.tests[Rank(p)].status>> \in
                    {<<"pass", "pass">>, <<"assertion", "fail">>, <<"throw", "error">>}
    <3>1. /\ tests[Rank(p)].name = <<files[p[1]], p[2]>>
          /\ tests[Rank(p)].status = Verdict(reported[files[p[1]]][p[2]]).status
      BY <2>2, TellsWhat
    <3>2. /\ answer.results.tests[Rank(p)].name = tests[Rank(p)].name
          /\ answer.results.tests[Rank(p)].status = tests[Rank(p)].status
      BY <2>2, <2>3, <2>4
    <3> QED
      BY <3>1, <3>2, <2>2, VerdictOfEnding
  <2>6. tests = <<>> <=> Reported = {}
    BY <2>2
  <2>7. (\A k \in DOMAIN tests : tests[k].status = "pass") <=>
          (\A p \in Reported : reported[files[p[1]]][p[2]].status = "pass")
    <3>1. ASSUME \A k \in DOMAIN tests : tests[k].status = "pass", NEW p \in Reported
          PROVE  reported[files[p[1]]][p[2]].status = "pass"
      <4>1. /\ tests[Rank(p)].status = "pass" /\ reported[files[p[1]]][p[2]] \in Endings
            /\ tests[Rank(p)].status = Verdict(reported[files[p[1]]][p[2]]).status
        BY <3>1, <2>2, TellsWhat
      <4> QED
        BY <4>1, VerdictOfEnding
    <3>2. ASSUME \A p \in Reported : reported[files[p[1]]][p[2]].status = "pass",
                 NEW k \in DOMAIN tests
          PROVE  tests[k].status = "pass"
      <4>1. PICK p \in Reported : Tells(files, reported, tests[k], p)
        BY <2>2
      <4>2. /\ tests[k].status = Verdict(reported[files[p[1]]][p[2]]).status
            /\ reported[files[p[1]]][p[2]] \in Endings
        BY <4>1, <2>2, TellsWhat
      <4> QED
        BY <3>2, <4>2, VerdictOfEnding
    <3> QED
      BY <3>1, <3>2
  <2>8. answer.results.status =
          IF Reported = {} THEN "error"
          ELSE IF \A p \in Reported : reported[files[p[1]]][p[2]].status = "pass" THEN "pass"
          ELSE "fail"
    BY <2>3, <2>6, <2>7, DocumentStatus
  <2> QED
    BY <2>1, <2>2, <2>3, <2>5, <2>8 DEF VerdictIsOfTheTests
<1> QED
  BY <1>1, HarnessSafety, PTL

\* What is a long line of a set of tests.
LEMMA LongLineOf ==
    ASSUME NEW S, NEW u
    PROVE  u \in LongLines(S) <=>
             \E t \in S : \E l \in Long : \/ u = <<t.name, <<"title", l>>>> /\ l \in t.title
                                          \/ u = <<t.name, <<"message", l>>>> /\ l \in t.message
BY DEF LongLines

\* Tests with the same names and the same long lines bring the same into a document.
LEMMA SameLongLines ==
    ASSUME NEW A, NEW B,
           \A t \in A : \E s \in B : /\ t.name = s.name /\ t.title = s.title
                                     /\ t.message \cap Long = s.message \cap Long
    PROVE  LongLines(A) \subseteq LongLines(B)
<1> SUFFICES ASSUME NEW u \in LongLines(A) PROVE u \in LongLines(B)
  OBVIOUS
<1>1. PICK t \in A : \E l \in Long : \/ u = <<t.name, <<"title", l>>>> /\ l \in t.title
                                     \/ u = <<t.name, <<"message", l>>>> /\ l \in t.message
  BY LongLineOf
<1>2. PICK s \in B : /\ t.name = s.name /\ t.title = s.title
                     /\ t.message \cap Long = s.message \cap Long
  OBVIOUS
<1>3. \E l \in Long : \/ u = <<s.name, <<"title", l>>>> /\ l \in s.title
                      \/ u = <<s.name, <<"message", l>>>> /\ l \in s.message
  BY <1>1, <1>2
<1> QED
  BY <1>3, LongLineOf

\* The document of an exited run has the long lines of what was reported.
LEMMA DocumentHasReported ==
    ASSUME HarnessInv, phase = "exited"
    PROVE  Readable(document) <=> Fits(Cardinality(Reported), ReportedTests)
<1> DEFINE listed == {tests[i] : i \in DOMAIN tests}
           Of(p) == [name |-> <<files[p[1]], p[2]>>, title |-> reported[files[p[1]]][p[2]].title,
                     message |-> reported[files[p[1]]][p[2]].thrown]
<1>1. /\ document = Document /\ Len(tests) = Cardinality(Reported)
      /\ \A p \in Reported :
           /\ Rank(p) \in DOMAIN tests /\ Tells(files, reported, tests[Rank(p)], p)
           /\ reported[files[p[1]]][p[2]] \in Endings
      /\ \A k \in DOMAIN tests : \E p \in Reported : Tells(files, reported, tests[k], p)
  BY ExitedIsComplete
<1>2. ReportedTests = {Of(p) : p \in Reported}
  BY DEF ReportedTests
<1>3. ASSUME NEW p \in Reported, NEW t, Tells(files, reported, t, p)
      PROVE  /\ t.name = Of(p).name /\ t.title = Of(p).title
             /\ t.message \cap Long = Of(p).message \cap Long
  BY <1>1, <1>3, TellsWhat, VerdictOfEnding
<1> HIDE DEF Of
<1>4. LongLines(listed) \subseteq LongLines(ReportedTests)
  BY <1>1, <1>2, <1>3, SameLongLines
<1>5. LongLines(ReportedTests) \subseteq LongLines(listed)
  <2>1. ASSUME NEW s \in ReportedTests
        PROVE  \E t \in listed : /\ s.name = t.name /\ s.title = t.title
                                 /\ s.message \cap Long = t.message \cap Long
    <3>1. PICK p \in Reported : s = Of(p)
      BY <1>2
    <3> QED
      BY <1>1, <1>3, <3>1
  <2> HIDE DEF listed
  <2> QED
    BY <2>1, SameLongLines
<1>6. Document.tests = tests
  BY DocumentStatus
<1> HIDE DEF listed
<1>7. Readable(document) <=> Fits(Len(tests), listed)
  BY <1>1, <1>6 DEF Readable, listed
<1>8. LongLines(listed) = LongLines(ReportedTests)
  BY <1>4, <1>5
<1> QED
  BY <1>1, <1>7, <1>8 DEF Fits

\* What run.js writes on exit status zero the executor accepts, unless all that was
\* reported is too large to be read, a title is blank, or a failure threw nothing
\* public but white space that only Go knows.
THEOREM ProtocolsAgree == Spec => []ProtocolAgrees
<1>1. HarnessInv => ProtocolAgrees
  <2> SUFFICES ASSUME HarnessInv, answer.code = "runner_protocol",
                      Fits(Cardinality(Reported), ReportedTests)
               PROVE  \E p \in Reported :
                        LET ended == reported[files[p[1]]][p[2]]
                        IN  \/ Blank(ended.title)
                            \/ /\ ended.status = "throw"
                               /\ Public(ended.thrown) # {} /\ Blank(Public(ended.thrown))
    BY DEF ProtocolAgrees
  <2>1. phase = "exited" /\ ~(Readable(document) /\ validateResults(document))
    BY DEF HarnessInv, Graded
  <2>2. /\ document = Document /\ tests \in Seq(TestResult)
        /\ \A p \in Reported : reported[files[p[1]]][p[2]] \in Endings
        /\ \A k \in DOMAIN tests : \E p \in Reported : Tells(files, reported, tests[k], p)
    BY <2>1, ExitedIsComplete
  <2>3. ~validateResults(document)
    BY <2>1, DocumentHasReported
  <2>4. Document.status \in {"pass", "fail", "error"} /\ (Document.status # "error" => tests # <<>>)
    BY DocumentStatus
  <2>5. \A k \in DOMAIN tests : tests[k].status \in {"pass", "fail", "error"}
    <3>1. \A k \in DOMAIN tests : tests[k] \in TestResult
      BY <2>2
    <3> QED
      BY <3>1 DEF TestResult
  <2>6. PICK k \in DOMAIN tests :
          Blank(tests[k].title) \/ (tests[k].status # "pass" /\ Blank(tests[k].message))
    BY <2>2, <2>3, <2>4, <2>5, DocumentStatus DEF validateResults
  <2>7. PICK p \in Reported : Tells(files, reported, tests[k], p)
    BY <2>2
  <2>8. /\ reported[files[p[1]]][p[2]] \in Endings
        /\ tests[k].title = reported[files[p[1]]][p[2]].title
        /\ tests[k].status = Verdict(reported[files[p[1]]][p[2]]).status
        /\ tests[k].message = Verdict(reported[files[p[1]]][p[2]]).message
    BY <2>2, <2>7, TellsWhat
  <2> QED
    BY <2>6, <2>8, VerdictOfEnding
<1> QED
  BY <1>1, HarnessSafety, PTL

\* Only a text of which nothing is public but control characters is filtered away.
LEMMA FilteredAway ==
    ASSUME NEW text \in SUBSET Piece
    PROVE  /\ Blank(sanitizeError(learnerDiagnostic(text))) => Unprintable(Public(text))
           /\ Blank(sanitizeError(truncate(learnerDiagnostic(text)))) => Unprintable(Public(text))
<1> DEFINE told == learnerDiagnostic(text)
<1>1. told # {} /\ "private" \notin told
  BY DEF learnerDiagnostic, Public
<1>2. told \subseteq {"escape", "next"} => Unprintable(Public(text))
  BY DEF learnerDiagnostic, Unprintable
<1> HIDE DEF told
<1>3. Blank(sanitizeError(told)) => told \subseteq {"escape", "next"}
  BY <1>1 DEF sanitizeError, Blank
<1>4. Blank(sanitizeError(truncate(told))) => told \subseteq {"escape", "next"}
  <2>1. CASE told \cap Long = {}
    BY <2>1, <1>3 DEF truncate
  <2>2. CASE told \cap Long # {}
    <3>1. "word" \in truncate(told)
      BY <2>2 DEF truncate
    <3>2. "word" \in sanitizeError(truncate(told))
      BY <3>1 DEF sanitizeError, Blank
    <3> QED
      BY <3>2 DEF Blank
  <2> QED
    BY <2>1, <2>2
<1> QED
  BY <1>2, <1>3, <1>4 DEF told

\* After both filters, a failure says something to the learner, unless its public lines
\* are nothing but control characters.
THEOREM FailuresExplained == Spec => []FailuresAreExplained
<1>1. HarnessInv => FailuresAreExplained
  <2> SUFFICES ASSUME HarnessInv, answer.code = "results" PROVE FailuresAreExplained
    BY DEF FailuresAreExplained
  <2>1. phase = "exited" /\ answer.results = sanitizeResults(document)
    BY DEF HarnessInv, Graded
  <2>2. /\ document = Document /\ document \in DocumentType
        /\ DOMAIN tests = 1..Len(tests) /\ tests \in Seq(TestResult)
        /\ \A p \in Reported :
             /\ Rank(p) \in 1..Len(tests) /\ Tells(files, reported, tests[Rank(p)], p)
             /\ reported[files[p[1]]][p[2]] \in Endings
    BY <2>1, ExitedIsComplete
  <2>3. /\ answer.results.status = Document.status
        /\ answer.results.message = sanitizeError(Document.message)
        /\ \A k \in DOMAIN tests : answer.results.tests[k] = sanitizeTest(tests[k])
    BY <2>1, <2>2, SanitizedTyped, DocumentStatus
  <2> DEFINE said == UNION {stderrByFile[f] : f \in File}
  <2>4. answer.results.status = "error" /\ Blank(answer.results.message) =>
          Unprintable(Public(said))
    <3> SUFFICES ASSUME answer.results.status = "error", Blank(answer.results.message)
                 PROVE  Unprintable(Public(said))
      OBVIOUS
    <3>1. said \in SUBSET Piece
      BY DEF HarnessInv, TypeInv, TypeOK, Piece
    <3>2. tests = <<>>
      BY <2>3, DocumentStatus
    <3>3. Document.message = truncate(learnerDiagnostic(said))
      BY <3>2 DEF Document
    <3> HIDE DEF said
    <3> QED
      BY <2>3, <3>1, <3>3, FilteredAway
  <2>5. ASSUME NEW p \in Reported,
               answer.results.tests[Rank(p)].status # "pass",
               Blank(answer.results.tests[Rank(p)].message)
        PROVE  Unprintable(Public(reported[files[p[1]]][p[2]].thrown))
    <3> DEFINE ending == reported[files[p[1]]][p[2]]
               t == tests[Rank(p)]
    <3>1. ending \in Endings /\ t \in TestResult /\ Rank(p) \in DOMAIN tests
      BY <2>2
    <3>2. t.status = Verdict(ending).status /\ t.message = Verdict(ending).message
      BY <2>2, TellsWhat
    <3>3. answer.results.tests[Rank(p)] = sanitizeTest(t)
      BY <2>3, <3>1
    <3> HIDE DEF ending, t
    <3>4. sanitizeTest(t).status = t.status /\ sanitizeTest(t).message = sanitizeError(t.message)
      BY <3>1 DEF sanitizeTest, TestResult
    <3>5. Verdict(ending).status # "pass" /\ Blank(sanitizeError(Verdict(ending).message))
      BY <2>5, <3>2, <3>3, <3>4
    <3>6. ending.status # "assertion"
      <4>1. ASSUME ending.status = "assertion" PROVE FALSE
        <5>1. "word" \in Verdict(ending).message
          BY <4>1 DEF Verdict, classifyFailure
        <5>2. "word" \in sanitizeError(Verdict(ending).message)
          BY <5>1 DEF sanitizeError, Blank
        <5> QED
          BY <5>2, <3>5 DEF Blank
      <4> QED
        BY <4>1
    <3>7. Verdict(ending).message = learnerDiagnostic(ending.thrown)
      BY <3>5, <3>6 DEF Verdict, classifyFailure
    <3>8. ending.thrown \in SUBSET Piece
      BY <3>1, EndingType
    <3>9. Unprintable(Public(ending.thrown))
      BY <3>5, <3>7, <3>8, FilteredAway
    <3> QED
      BY <3>9 DEF ending
  <2> QED
    BY <2>4, <2>5 DEF FailuresAreExplained
<1> QED
  BY <1>1, HarnessSafety, PTL

----------------------------------------------------------------------------
(* The transcript: what was captured (os), and then what is in the stream  *)
(* (es, at the places g, in their order), is what was written (ws).        *)

IsWrite(e) == e.type = "test:stdout"

Places(g, m, es) ==
    /\ g \in [1..m -> DOMAIN es]
    /\ \A k, l \in 1..m : k < l => g[k] < g[l]
    /\ \A k \in 1..m : IsWrite(es[g[k]])
    /\ \A n \in DOMAIN es : IsWrite(es[n]) => \E k \in 1..m : g[k] = n

CopiedAt(ws, os, es, g, m) ==
    /\ Places(g, m, es)
    /\ Len(ws) = Len(os) + m
    /\ \A k \in 1..Len(os) : os[k] = ws[k]
    /\ \A k \in 1..m : es[g[k]].file = ws[Len(os) + k]

Copied(ws, os, es) == \E m \in Nat : \E g : CopiedAt(ws, os, es, g, m)

\* An event that is no write leaves the places as they are.
LEMMA CopiedEmits ==
    ASSUME NEW ws, NEW os, NEW es \in Seq(NumberedEvent), NEW e \in NumberedEvent,
           ~IsWrite(e), Copied(ws, os, es)
    PROVE  Copied(ws, os, Append(es, e))
<1>1. PICK m \in Nat : \E g : CopiedAt(ws, os, es, g, m)
  BY DEF Copied
<1>2. PICK g : CopiedAt(ws, os, es, g, m)
  BY <1>1
<1>3. /\ DOMAIN Append(es, e) = DOMAIN es \cup {Len(es) + 1}
      /\ \A k \in DOMAIN es : Append(es, e)[k] = es[k]
      /\ Append(es, e)[Len(es) + 1] = e
  OBVIOUS
<1> DEFINE more == Append(es, e)
<1>4. /\ g \in [1..m -> DOMAIN es] /\ \A k \in 1..m : more[g[k]] = es[g[k]]
      /\ \A k \in 1..m : IsWrite(es[g[k]])
      /\ \A n \in DOMAIN es : IsWrite(es[n]) => \E k \in 1..m : g[k] = n
  BY <1>2, <1>3 DEF CopiedAt, Places
<1>5. g \in [1..m -> DOMAIN more] /\ \A k \in 1..m : IsWrite(more[g[k]])
  BY <1>3, <1>4
<1>6. \A n \in DOMAIN more : IsWrite(more[n]) => \E k \in 1..m : g[k] = n
  BY <1>3, <1>4
<1> HIDE DEF more
<1>7. Places(g, m, more)
  BY <1>2, <1>5, <1>6 DEF CopiedAt, Places
<1>8. CopiedAt(ws, os, more, g, m)
  BY <1>2, <1>4, <1>7 DEF CopiedAt
<1> QED
  BY <1>8 DEF Copied, more

\* A write is the last of the stream and of what was written.
LEMMA CopiedWrites ==
    ASSUME NEW ws \in Seq(File), NEW os \in Seq(File), NEW es \in Seq(NumberedEvent),
           NEW e \in NumberedEvent, IsWrite(e), Copied(ws, os, es)
    PROVE  Copied(Append(ws, e.file), os, Append(es, e))
<1>1. PICK m \in Nat : \E g : CopiedAt(ws, os, es, g, m)
  BY DEF Copied
<1>2. PICK g : CopiedAt(ws, os, es, g, m)
  BY <1>1
<1> DEFINE h == [k \in 1..(m + 1) |-> IF k = m + 1 THEN Len(es) + 1 ELSE g[k]]
           more == Append(es, e)
           all == Append(ws, e.file)
<1>3. /\ DOMAIN more = 1..(Len(es) + 1) /\ DOMAIN es = 1..Len(es) /\ Len(es) \in Nat
      /\ \A k \in DOMAIN es : more[k] = es[k]
      /\ more[Len(es) + 1] = e
  OBVIOUS
<1>4. /\ e.file \in File
      /\ Len(all) = Len(ws) + 1 /\ \A k \in 1..Len(ws) : all[k] = ws[k]
      /\ all[Len(ws) + 1] = e.file
      /\ Len(ws) \in Nat /\ Len(os) \in Nat
  BY DEF NumberedEvent, EventType
<1>5. /\ h[m + 1] = Len(es) + 1
      /\ \A k \in 1..m : h[k] = g[k] /\ g[k] \in 1..Len(es)
      /\ h \in [1..(m + 1) -> DOMAIN more]
      /\ \A k \in 1..(m + 1) : k \in 1..m \/ k = m + 1
  <2>1. g \in [1..m -> 1..Len(es)] /\ Len(es) + 1 \in Nat
    BY <1>2, <1>3 DEF CopiedAt, Places
  <2>2. \A k \in 1..(m + 1) : k \in 1..m \/ k = m + 1
    OBVIOUS
  <2>3. h[m + 1] = Len(es) + 1 /\ \A k \in 1..m : h[k] = g[k] /\ g[k] \in 1..Len(es)
    BY <2>1
  <2>4. \A k \in 1..(m + 1) : h[k] \in 1..(Len(es) + 1)
    BY <2>1, <2>2, <2>3
  <2>5. h \in [1..(m + 1) -> DOMAIN more]
    BY <1>3, <2>4
  <2> QED
    BY <2>2, <2>3, <2>5
<1> HIDE DEF h, more, all
<1>6. \A k, l \in 1..(m + 1) : k < l => h[k] < h[l]
  <2> SUFFICES ASSUME NEW k \in 1..(m + 1), NEW l \in 1..(m + 1), k < l PROVE h[k] < h[l]
    OBVIOUS
  <2>1. k \in 1..m
    OBVIOUS
  <2>2. CASE l \in 1..m
    <3>1. g[k] < g[l]
      BY <2>1, <2>2, <1>2 DEF CopiedAt, Places
    <3> QED
      BY <3>1, <2>1, <2>2, <1>5
  <2>3. CASE l = m + 1
    <3>1. h[k] \in 1..Len(es) /\ h[l] = Len(es) + 1
      BY <2>1, <2>3, <1>5
    <3> QED
      BY <3>1, <1>3
  <2> QED
    BY <2>2, <2>3
<1>7. \A k \in 1..(m + 1) : IsWrite(more[h[k]])
  BY <1>2, <1>3, <1>5 DEF CopiedAt, Places
<1>8. \A n \in DOMAIN more : IsWrite(more[n]) => \E k \in 1..(m + 1) : h[k] = n
  <2> SUFFICES ASSUME NEW n \in DOMAIN more, IsWrite(more[n]) PROVE \E k \in 1..(m + 1) : h[k] = n
    OBVIOUS
  <2>1. CASE n = Len(es) + 1
    BY <2>1, <1>5
  <2>2. CASE n \in DOMAIN es
    <3>1. PICK k \in 1..m : g[k] = n
      BY <2>2, <1>2, <1>3 DEF CopiedAt, Places
    <3> QED
      BY <3>1, <1>5
  <2> QED
    BY <2>1, <2>2, <1>3
<1>9. Len(all) = Len(os) + (m + 1) /\ \A k \in 1..Len(os) : os[k] = all[k]
  BY <1>2, <1>4 DEF CopiedAt
<1>10. \A k \in 1..(m + 1) : more[h[k]].file = all[Len(os) + k]
  <2> TAKE k \in 1..(m + 1)
  <2>1. CASE k = m + 1
    BY <2>1, <1>2, <1>3, <1>4, <1>5 DEF CopiedAt
  <2>2. CASE k \in 1..m
    <3>1. es[g[k]].file = ws[Len(os) + k] /\ Len(ws) = Len(os) + m
      BY <2>2, <1>2 DEF CopiedAt
    <3>2. Len(os) + k \in 1..Len(ws)
      BY <2>2, <3>1, <1>4
    <3>3. more[h[k]] = es[g[k]]
      BY <2>2, <1>3, <1>5
    <3> QED
      BY <3>1, <3>2, <3>3, <1>4
  <2> QED
    BY <2>1, <2>2
<1>11. CopiedAt(all, os, more, h, m + 1)
  BY <1>5, <1>6, <1>7, <1>8, <1>9, <1>10 DEF CopiedAt, Places
<1> QED
  BY <1>11 DEF Copied, more, all

\* Taking the first event moves every other up by one.
LEMMA TailFacts ==
    ASSUME NEW es \in Seq(NumberedEvent), es # <<>>
    PROVE  /\ DOMAIN es = 1..Len(es) /\ Len(es) \in Nat /\ Len(es) >= 1
           /\ DOMAIN Tail(es) = 1..(Len(es) - 1)
           /\ \A k \in 1..(Len(es) - 1) : Tail(es)[k] = es[k + 1]
           /\ es[1] = Head(es)
OBVIOUS

\* An event that is no write is taken: all places move up by one.
LEMMA CopiedSkips ==
    ASSUME NEW ws, NEW os, NEW es \in Seq(NumberedEvent), es # <<>>, ~IsWrite(Head(es)),
           Copied(ws, os, es)
    PROVE  Copied(ws, os, Tail(es))
<1>1. PICK m \in Nat : \E g : CopiedAt(ws, os, es, g, m)
  BY DEF Copied
<1>2. PICK g : CopiedAt(ws, os, es, g, m)
  BY <1>1
<1> DEFINE h == [k \in 1..m |-> g[k] - 1]
           rest == Tail(es)
<1>3. /\ DOMAIN es = 1..Len(es) /\ Len(es) \in Nat /\ Len(es) >= 1
      /\ DOMAIN rest = 1..(Len(es) - 1)
      /\ \A k \in 1..(Len(es) - 1) : rest[k] = es[k + 1]
      /\ es[1] = Head(es)
  BY TailFacts
<1>4. \A k \in 1..m : g[k] \in 1..Len(es) /\ g[k] # 1
  BY <1>2, <1>3 DEF CopiedAt, Places
<1>5. /\ \A k \in 1..m : h[k] = g[k] - 1 /\ h[k] \in 1..(Len(es) - 1) /\ h[k] + 1 = g[k]
      /\ h \in [1..m -> DOMAIN rest]
  BY <1>3, <1>4
<1> HIDE DEF h, rest
<1>6. \A k \in 1..m : rest[h[k]] = es[g[k]]
  BY <1>3, <1>5
<1>7. \A k, l \in 1..m : k < l => h[k] < h[l]
  BY <1>2, <1>4, <1>5 DEF CopiedAt, Places
<1>8. \A n \in DOMAIN rest : IsWrite(rest[n]) => \E k \in 1..m : h[k] = n
  <2> SUFFICES ASSUME NEW n \in DOMAIN rest, IsWrite(rest[n]) PROVE \E k \in 1..m : h[k] = n
    OBVIOUS
  <2>1. n + 1 \in DOMAIN es /\ IsWrite(es[n + 1])
    BY <1>3
  <2>2. PICK k \in 1..m : g[k] = n + 1
    BY <2>1, <1>2 DEF CopiedAt, Places
  <2> QED
    BY <2>2, <1>3, <1>5
<1>9. CopiedAt(ws, os, rest, h, m)
  BY <1>2, <1>5, <1>6, <1>7, <1>8 DEF CopiedAt, Places
<1> QED
  BY <1>9 DEF Copied, rest

\* The first event is a write, so it is at the first place, and captured next.
LEMMA CopiedForwards ==
    ASSUME NEW ws \in Seq(File), NEW os \in Seq(File), NEW es \in Seq(NumberedEvent),
           es # <<>>, IsWrite(Head(es)), Copied(ws, os, es)
    PROVE  Copied(ws, Append(os, Head(es).file), Tail(es))
<1>1. PICK m \in Nat : \E g : CopiedAt(ws, os, es, g, m)
  BY DEF Copied
<1>2. PICK g : CopiedAt(ws, os, es, g, m)
  BY <1>1
<1> DEFINE h == [k \in 1..(m - 1) |-> g[k + 1] - 1]
           rest == Tail(es)
           all == Append(os, Head(es).file)
<1>3. /\ DOMAIN es = 1..Len(es) /\ Len(es) \in Nat /\ Len(es) >= 1
      /\ DOMAIN rest = 1..(Len(es) - 1)
      /\ \A k \in 1..(Len(es) - 1) : rest[k] = es[k + 1]
      /\ es[1] = Head(es)
  BY TailFacts
<1>4. \A k \in 1..m : g[k] \in 1..Len(es)
  BY <1>2, <1>3 DEF CopiedAt, Places
<1>5. m >= 1 /\ g[1] = 1
  <2>0. 1 \in DOMAIN es /\ IsWrite(es[1])
    BY <1>3
  <2>1. PICK k \in 1..m : g[k] = 1
    BY <2>0, <1>2 DEF CopiedAt, Places
  <2>2. 1 \in 1..m
    BY <2>1
  <2>3. k = 1
    BY <2>1, <2>2, <1>2, <1>4 DEF CopiedAt, Places
  <2> QED
    BY <2>1, <2>3
<1>6. \A k \in 1..(m - 1) : k + 1 \in 1..m /\ k \in Nat /\ 1 < k + 1
  OBVIOUS
<1>7. \A k \in 1..(m - 1) : g[k + 1] > 1 /\ g[k + 1] \in 1..Len(es)
  <2> TAKE k \in 1..(m - 1)
  <2>1. k + 1 \in 1..m /\ 1 \in 1..m /\ 1 < k + 1
    BY <1>5, <1>6
  <2>2. g[1] < g[k + 1]
    BY <2>1, <1>2 DEF CopiedAt, Places
  <2> QED
    BY <2>1, <2>2, <1>4, <1>5
<1>8. /\ \A k \in 1..(m - 1) : h[k] = g[k + 1] - 1 /\ h[k] \in 1..(Len(es) - 1)
      /\ h \in [1..(m - 1) -> DOMAIN rest]
  BY <1>3, <1>7
<1>9. /\ Len(all) = Len(os) + 1 /\ Len(os) \in Nat
      /\ \A k \in 1..Len(os) : all[k] = os[k]
      /\ all[Len(os) + 1] = Head(es).file
  <2>1. Head(es).file \in File
    BY DEF NumberedEvent, EventType
  <2> QED
    BY <2>1
<1> HIDE DEF h, rest, all
<1>10. \A k \in 1..(m - 1) : rest[h[k]] = es[g[k + 1]]
  <2> TAKE k \in 1..(m - 1)
  <2>1. h[k] \in 1..(Len(es) - 1) /\ h[k] + 1 = g[k + 1]
    BY <1>7, <1>8
  <2> QED
    BY <2>1, <1>3
<1>11. \A k, l \in 1..(m - 1) : k < l => h[k] < h[l]
  <2> SUFFICES ASSUME NEW k \in 1..(m - 1), NEW l \in 1..(m - 1), k < l PROVE h[k] < h[l]
    OBVIOUS
  <2>1. k + 1 \in 1..m /\ l + 1 \in 1..m /\ k + 1 < l + 1
    BY <1>6
  <2>2. g[k + 1] < g[l + 1]
    BY <2>1, <1>2 DEF CopiedAt, Places
  <2>3. h[k] = g[k + 1] - 1 /\ h[l] = g[l + 1] - 1 /\ g[k + 1] \in Int /\ g[l + 1] \in Int
    BY <1>7, <1>8
  <2> QED
    BY <2>2, <2>3
<1>12. \A n \in DOMAIN rest : IsWrite(rest[n]) => \E k \in 1..(m - 1) : h[k] = n
  <2> SUFFICES ASSUME NEW n \in DOMAIN rest, IsWrite(rest[n])
               PROVE  \E k \in 1..(m - 1) : h[k] = n
    OBVIOUS
  <2>1. n \in Nat /\ n >= 1 /\ n + 1 \in DOMAIN es /\ IsWrite(es[n + 1])
    BY <1>3
  <2>2. PICK k \in 1..m : g[k] = n + 1
    BY <2>1, <1>2 DEF CopiedAt, Places
  <2>3. k # 1
    BY <2>1, <2>2, <1>5
  <2>4. k - 1 \in 1..(m - 1) /\ (k - 1) + 1 = k
    BY <2>3
  <2>5. h[k - 1] = n
    BY <2>1, <2>2, <2>4, <1>8
  <2> QED
    BY <2>4, <2>5
<1>13. Len(ws) = Len(all) + (m - 1) /\ m - 1 \in Nat
  BY <1>2, <1>5, <1>9 DEF CopiedAt
<1>14. \A k \in 1..Len(all) : all[k] = ws[k]
  <2> TAKE k \in 1..Len(all)
  <2>1. CASE k \in 1..Len(os)
    BY <2>1, <1>2, <1>9 DEF CopiedAt
  <2>2. CASE k = Len(os) + 1
    <3>1. es[g[1]].file = ws[Len(os) + 1]
      BY <1>2, <1>5 DEF CopiedAt
    <3> QED
      BY <2>2, <3>1, <1>3, <1>5, <1>9
  <2> QED
    BY <2>1, <2>2, <1>9
<1>15. \A k \in 1..(m - 1) : rest[h[k]].file = ws[Len(all) + k]
  <2> TAKE k \in 1..(m - 1)
  <2>1. es[g[k + 1]].file = ws[Len(os) + (k + 1)]
    BY <1>2, <1>6 DEF CopiedAt
  <2>2. Len(os) + (k + 1) = Len(all) + k
    BY <1>6, <1>9
  <2> QED
    BY <2>1, <2>2, <1>10
<1>16. \A k \in 1..(m - 1) : IsWrite(rest[h[k]])
  BY <1>2, <1>6, <1>10 DEF CopiedAt, Places
<1>17. CopiedAt(ws, all, rest, h, m - 1)
  BY <1>8, <1>11, <1>12, <1>13, <1>14, <1>15, <1>16 DEF CopiedAt, Places
<1> QED
  BY <1>13, <1>17 DEF Copied, rest, all

TranscriptInv ==
    /\ Copied(written, stdout, stream)
    /\ answer.code = "results" => phase = "exited" /\ answer.stdout = stdout

\* Nothing is written before the first file is run.
LEMMA TranscriptInit == Init => TranscriptInv
<1> SUFFICES ASSUME Init PROVE TranscriptInv
  OBVIOUS
<1> DEFINE g == [k \in 1..0 |-> k]
<1>1. CopiedAt(<<>>, <<>>, <<>>, g, 0)
  BY DEF CopiedAt, Places
<1>2. Copied(<<>>, <<>>, <<>>)
  BY <1>1 DEF Copied
<1> QED
  BY <1>2 DEF Init, TranscriptInv, NoAnswer

\* Every step keeps the invariant of the transcript.
LEMMA TranscriptStep == HarnessInv /\ TranscriptInv /\ [Next]_vars => TranscriptInv'
<1> SUFFICES ASSUME HarnessInv, TranscriptInv, [Next]_vars PROVE TranscriptInv'
  OBVIOUS
<1> USE DEF TranscriptInv, runner, harness
<1>s. stream \in Seq(NumberedEvent) /\ written \in Seq(File) /\ stdout \in Seq(File)
  BY DEF HarnessInv, TypeInv, TypeOK
<1>a. ASSUME UNCHANGED <<stdout, answer>>, phase # "exited" PROVE answer'.code # "results"
  BY <1>a
<1>b. ASSUME Busy
      PROVE  files[running] \in File /\ phase = "running"
  BY <1>b DEF Busy, HarnessInv, TypeInv, TypeOK
<1>1. ASSUME NEW e \in NumberedEvent, ~IsWrite(e), Emit(e), phase # "exited",
             UNCHANGED <<written, stdout, answer>>
      PROVE  TranscriptInv'
  BY <1>1, <1>s, <1>a, CopiedEmits DEF Emit
<1>2. ASSUME NEW ending \in Endings, TestEnds(ending) PROVE TranscriptInv'
  <2> DEFINE f == files[running]
             n == Len(reported[f]) + 1
             type == IF ending.status = "pass" THEN "test:pass" ELSE "test:fail"
  <2>1. f \in File /\ n \in 1..MaxTests
    <3>1. f \in File /\ Len(reported[f]) < MaxTests
      BY <1>2, <1>b DEF TestEnds
    <3>2. reported \in [File -> Seq(Endings)]
      BY DEF HarnessInv, TypeInv, TypeOK
    <3>3. Len(reported[f]) \in Nat
      BY <3>1, <3>2
    <3> HIDE DEF f
    <3> QED
      BY <3>1, <3>3, BoundAssumption
  <2>2. Emit(TestEvent(type, f, n, ending))
    BY <1>2 DEF TestEnds, TestEvent
  <2>3. type \in {"test:pass", "test:fail"}
    OBVIOUS
  <2>4. phase # "exited" /\ UNCHANGED <<written, stdout, answer>>
    BY <1>2, <1>b DEF TestEnds
  <2> HIDE DEF type, n, f
  <2> DEFINE e == TestEvent(type, f, n, ending)
  <2>5. e \in NumberedEvent /\ e.type = type
    BY <2>1, <2>3, TestEventTyped
  <2> HIDE DEF e
  <2>6. ~IsWrite(e)
    BY <2>3, <2>5 DEF IsWrite
  <2> QED
    BY <2>2, <2>4, <2>5, <2>6, <1>1 DEF e
<1>3. ASSUME NEW type \in {"test:pass", "test:fail"}, FileEnds(type) PROVE TranscriptInv'
  <2> DEFINE e == [Event(type, files[running]) EXCEPT !.wrapper = TRUE]
  <2>1. files[running] \in File
    BY <1>3, <1>b DEF FileEnds
  <2>2. e \in NumberedEvent /\ ~IsWrite(e)
    BY <2>1, EventTyped DEF NumberedEvent, EventType, Event, IsTest, IsWrite
  <2>3. Emit(e) /\ phase # "exited" /\ UNCHANGED <<written, stdout, answer>>
    BY <1>3, <1>b DEF FileEnds
  <2> HIDE DEF e
  <2> QED
    BY <2>2, <2>3, <1>1
<1>4. CASE FileWrites
  <2> DEFINE e == Event("test:stdout", files[running])
  <2>1. files[running] \in File /\ phase # "exited" /\ UNCHANGED <<stdout, answer>>
    BY <1>4, <1>b DEF FileWrites
  <2>2. e \in NumberedEvent /\ IsWrite(e) /\ e.file = files[running]
    BY <2>1, EventTyped DEF NumberedEvent, EventType, Event, IsTest, IsWrite
  <2>3. written' = Append(written, e.file) /\ stream' = Append(stream, e)
    BY <1>4, <2>2 DEF FileWrites, Emit
  <2> HIDE DEF e
  <2>4. Copied(written', stdout, stream')
    BY <2>2, <2>3, <1>s, CopiedWrites
  <2> QED
    BY <2>1, <2>4, <1>a
<1>5. CASE TestStarts
  <2> DEFINE e == Event("test:start", files[running])
  <2>1. files[running] \in File
    BY <1>5, <1>b DEF TestStarts
  <2>2. e \in NumberedEvent /\ ~IsWrite(e)
    BY <2>1, EventTyped DEF NumberedEvent, EventType, Event, IsTest, IsWrite
  <2>3. Emit(e) /\ phase # "exited" /\ UNCHANGED <<written, stdout, answer>>
    BY <1>5, <1>b DEF TestStarts
  <2> HIDE DEF e
  <2> QED
    BY <2>2, <2>3, <1>1
<1>6. ASSUME NEW text \in Text, FileComplains(text) PROVE TranscriptInv'
  <2> DEFINE e == [Event("test:stderr", files[running]) EXCEPT !.text = text]
  <2>1. files[running] \in File
    BY <1>6, <1>b DEF FileComplains
  <2>2. e \in NumberedEvent /\ ~IsWrite(e)
    BY <2>1, EventTyped, TextAssumption DEF NumberedEvent, EventType, Event, IsTest, IsWrite
  <2>3. Emit(e) /\ phase # "exited" /\ UNCHANGED <<written, stdout, answer>>
    BY <1>6, <1>b DEF FileComplains
  <2> HIDE DEF e
  <2> QED
    BY <2>2, <2>3, <1>1
<1>7. CASE ForwardStdout
  <2>1. /\ stream # <<>> /\ stream' = Tail(stream) /\ IsWrite(Head(stream))
        /\ stdout' = Append(stdout, Head(stream).file)
        /\ UNCHANGED <<written, phase, answer>> /\ phase = "running"
    BY <1>7 DEF ForwardStdout, Captured, Takes, IsWrite
  <2>2. Copied(written, stdout', stream')
    BY <2>1, <1>s, CopiedForwards
  <2> QED
    BY <2>1, <2>2
<1>8. CASE CollectStderr \/ SkipEvent \/ RecordTest
  <2>1. /\ stream # <<>> /\ stream' = Tail(stream) /\ ~IsWrite(Head(stream))
        /\ UNCHANGED <<written, stdout, phase, answer>> /\ phase = "running"
    BY <1>8 DEF CollectStderr, SkipEvent, RecordTest, Takes, IsWrite
  <2>2. Copied(written, stdout, stream')
    BY <2>1, <1>s, CopiedSkips
  <2> QED
    BY <2>1, <2>2
<1>9. CASE Start \/ Kill \/ writeResults \/ WriteFails
  <2>1. UNCHANGED <<written, stdout, stream, answer>> /\ phase # "exited"
    BY <1>9 DEF Start, Kill, writeResults, WriteFails, StreamEnds
  <2> QED
    BY <2>1, <1>a
<1>10. CASE Grade
  BY <1>10, OutcomeCases DEF Grade
<1>11. CASE UNCHANGED vars
  BY <1>11 DEF vars
<1> QED
  BY <1>2, <1>3, <1>4, <1>5, <1>6, <1>7, <1>8, <1>9, <1>10, <1>11 DEF Next, Files, Consume

\* The transcript of an answered run is what the tests wrote, from the first write on and
\* in order, and falls short of it only beyond the limit of the capture.
THEOREM TranscriptsAreInOrder == Spec => []TranscriptIsInOrder
<1>1. HarnessInv /\ TranscriptInv => TranscriptIsInOrder
  <2> SUFFICES ASSUME HarnessInv, TranscriptInv, answer.code = "results" PROVE TranscriptIsInOrder
    BY DEF TranscriptIsInOrder
  <2>1. answer.stdout = stdout /\ stream = <<>>
    BY DEF TranscriptInv, HarnessInv, Graded
  <2>2. written \in Seq(File) /\ stdout \in Seq(File)
    BY DEF HarnessInv, TypeInv, TypeOK
  <2>3. PICK m \in Nat : \E g : CopiedAt(written, stdout, stream, g, m)
    BY DEF TranscriptInv, Copied
  <2>4. PICK g : CopiedAt(written, stdout, stream, g, m)
    BY <2>3
  <2>5. m = 0
    <3>1. ASSUME m # 0 PROVE FALSE
      <4>1. 1 \in 1..m /\ DOMAIN stream = {}
        BY <2>1, <3>1
      <4> QED
        BY <2>4, <4>1 DEF CopiedAt, Places
    <3> QED
      BY <3>1
  <2>6. Len(written) = Len(stdout) /\ \A k \in 1..Len(stdout) : stdout[k] = written[k]
    BY <2>2, <2>4, <2>5 DEF CopiedAt
  <2>7. answer.stdout = written /\ written = SubSeq(written, 1, Len(written))
    BY <2>1, <2>2, <2>6
  <2> QED
    BY <2>2, <2>7 DEF TranscriptIsInOrder
<1>2. Spec => []TranscriptInv
  BY HarnessSafety, TranscriptInit, TranscriptStep, PTL DEF Spec
<1> QED
  BY <1>1, <1>2, HarnessSafety, PTL
=============================================================================
