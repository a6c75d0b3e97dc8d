---------------------------- MODULE StatementImport ----------------------------
(***************************************************************************)
(* Bank statements: filed and queued for parsing                           *)
(* (app/commands/bank_statement.py), parsed into immutable rows            *)
(* (app/commands/statement_rows.py), checked for duplicates                *)
(* (app/statements/duplicates.py) and matched with what traders claim      *)
(* (incoming_match.py, incoming_confirmation.py).                          *)
(*                                                                         *)
(* The bank's configuration (BankConfig) decides what can be parsed.  The  *)
(* parse jobs are those of FilesQueue, of which only the promise of        *)
(* JobQueue is kept: a waiting job is held by one worker at most, a        *)
(* failure is recorded after the work was rolled back, and that late word  *)
(* may make any job wait again or end it.                                  *)
(* What each line reads as is given; whether the parser of the day copes   *)
(* with a file is left open.  GoldSale has what a match does to an order.  *)
(***************************************************************************)
EXTENDS BankConfig, Sequences

CONSTANTS
    Files,      \* bank statement files
    Lines,      \* Lines[f]: the lines of the file, each [print, ref, kind]
    Clerks,     \* sessions asking for import runs
    Parsers,    \* processes running parse_statements_task
    Claims,     \* receipts of traders who say they have paid
    MaxRuns     \* bound on the import runs of all files together

Kinds == {"valid", "warning", "invalid", "ignored_empty"}

ASSUME FilesAssumption ==
    /\ \A f \in Files : /\ DOMAIN Lines[f] = 1 .. Len(Lines[f]) /\ Len(Lines[f]) \in Nat
                        /\ \A i \in 1 .. Len(Lines[f]) : Lines[f][i].kind \in Kinds
    /\ MaxRuns \in Nat

VARIABLES
    filed,      \* the configuration version the file was filed against
    fstatus,    \* bank_statement_files.status, "none" before the row exists
    runs,       \* import runs in the order of creation, with their job and their rows
    opened,     \* duplicate reviews opened: <<"file", f>> or <<"run", r>>
    paid,       \* active matches: <<claim, run, line>>
    clerk,      \* what each clerk's open transaction has read
    parser      \* what each worker's open transaction has read

importVars == <<filed, fstatus, runs, opened, paid, clerk, parser>>
vars       == <<configVars, importVars>>

RunIds    == 1 .. Len(runs)
RunsOf(f) == {r \in RunIds : runs[r].file = f}

FileStatuses == {"none", "uploaded", "parsed", "parse_failed"}
RunRecord == [file : Files, number : Nat, status : {"queued", "succeeded", "failed"},
              job : {"waiting", "finished", "dead"}, rows : Seq(Kinds \cup {"possible_duplicate"})]
Reviews   == ({"file"} \X Files) \cup ({"run"} \X (1 .. MaxRuns))

Unasked == [at |-> "idle", file |-> Null, number |-> 0]
Polling == [at |-> "idle", run |-> 0, was |-> "none", flagged |-> {}, reviews |-> {}]

ImportTypeOK ==
    /\ filed \in [Files -> Versions \cup {Null}]
    /\ fstatus \in [Files -> FileStatuses]
    /\ runs \in Seq(RunRecord) /\ Len(runs) <= MaxRuns
    /\ opened \subseteq Reviews
    /\ paid \subseteq Claims \X (1 .. MaxRuns) \X Nat
    /\ clerk \in [Clerks -> [at : {"idle", "checked", "numbered"},
                             file : Files \cup {Null}, number : Nat]]
    /\ parser \in [Parsers -> [at : {"idle", "parsing", "writing", "failing"}, run : Nat,
                               was : FileStatuses, flagged : SUBSET Nat, reviews : SUBSET Reviews]]

TypeOK == ConfigTypeOK /\ ImportTypeOK

Init ==
    /\ ConfigInit
    /\ filed = [f \in Files |-> Null]
    /\ fstatus = [f \in Files |-> "none"]
    /\ runs = <<>>
    /\ opened = {} /\ paid = {}
    /\ clerk = [k \in Clerks |-> Unasked]
    /\ parser = [p \in Parsers |-> Polling]

-----------------------------------------------------------------------------
(* Filing a statement and asking for a run. *)

\* create_statement_file takes any version of the bank, in force or not.
CreateStatementFile(f, v) ==
    /\ filed[f] = Null /\ vstatus[v] # "none"
    /\ filed' = [filed EXCEPT ![f] = v]
    /\ fstatus' = [fstatus EXCEPT ![f] = "uploaded"]
    /\ UNCHANGED <<configVars, runs, opened, paid, clerk, parser>>

\* create_import_run finds the statement, the mapping of its own version, and no run
\* of it in flight.
CheckInFlight(k, f) ==
    /\ clerk[k].at = "idle"
    /\ filed[f] \in mapped
    /\ \A r \in RunsOf(f) : runs[r].status # "queued"
    /\ clerk' = [clerk EXCEPT ![k] = [at |-> "checked", file |-> f, number |-> 0]]
    /\ UNCHANGED <<configVars, filed, fstatus, runs, opened, paid, parser>>

IsNextNumber(n, f) ==
    \/ RunsOf(f) = {} /\ n = 1
    \/ \E r \in RunsOf(f) : /\ \A q \in RunsOf(f) : runs[q].number <= runs[r].number
                             /\ n = runs[r].number + 1

\* It numbers the run by a query of its own, later.
NumberRun(k) ==
    /\ clerk[k].at = "checked"
    /\ \E n \in 1 .. Len(runs) + 1 :
          /\ IsNextNumber(n, clerk[k].file)
          /\ clerk' = [clerk EXCEPT ![k] = [at |-> "numbered", file |-> clerk[k].file,
                                            number |-> n]]
    /\ UNCHANGED <<configVars, filed, fstatus, runs, opened, paid, parser>>

\* Mutation of NumberTaken: run numbers are not unique.
NumberNeverTaken(f, n) == FALSE

\* uq_import_runs_file_run_number.
NumberTaken(f, n) == \E r \in RunsOf(f) : runs[r].number = n

\* The run and its job are inserted together.
CreateImportRun(k) ==
    LET f == clerk[k].file  n == clerk[k].number IN
    /\ clerk[k].at = "numbered" /\ Len(runs) < MaxRuns
    /\ ~NumberTaken(f, n)
    /\ runs' = Append(runs, [file |-> f, number |-> n, status |-> "queued",
                             job |-> "waiting", rows |-> <<>>])
    /\ clerk' = [clerk EXCEPT ![k] = Unasked]
    /\ UNCHANGED <<configVars, filed, fstatus, opened, paid, parser>>

\* A refused constraint, or a death: nothing of the transaction remains.
AbandonRun(k) ==
    /\ clerk[k].at # "idle"
    /\ clerk' = [clerk EXCEPT ![k] = Unasked]
    /\ UNCHANGED <<configVars, filed, fstatus, runs, opened, paid, parser>>

-----------------------------------------------------------------------------
(* Duplicates.  A blank line is never one. *)

NotBlank(l) == l.kind # "ignored_empty"

\* Later lines that repeat the fingerprint or the reference of an earlier one.
FlaggedWithin(ls) ==
    {i \in 1 .. Len(ls) :
        /\ NotBlank(ls[i])
        /\ \E j \in 1 .. i - 1 :
              /\ NotBlank(ls[j])
              /\ ls[j].print = ls[i].print \/ (ls[i].ref # Null /\ ls[j].ref = ls[i].ref)}

\* Fingerprints stored for other statements; the lines of this parse are looked up
\* by fingerprint, so of lines that share one the last is flagged.
FlaggedElsewhere(f) ==
    LET ls == Lines[f]
        stored == UNION {{Lines[runs[r].file][i].print : i \in 1 .. Len(runs[r].rows)} :
                         r \in {s \in RunIds : runs[s].file # f}}
    IN  {i \in 1 .. Len(ls) :
            /\ NotBlank(ls[i]) /\ ls[i].print \in stored
            /\ \A j \in i + 1 .. Len(ls) : NotBlank(ls[j]) => ls[j].print # ls[i].print}

\* Another statement that was filed with the same bytes.
FiledTwice(f) == \E g \in Files \ {f} : filed[g] # Null /\ Lines[g] = Lines[f]

FindDuplicates(r) ==
    LET f == runs[r].file
        flagged == FlaggedWithin(Lines[f]) \cup FlaggedElsewhere(f)
    IN  [flagged |-> flagged,
         reviews |-> (IF FiledTwice(f) THEN {<<"file", f>>} ELSE {})
                     \cup (IF flagged # {} THEN {<<"run", r>>} ELSE {})]

RowStatus(l, flagged) ==
    IF flagged /\ l.kind # "invalid" THEN "possible_duplicate" ELSE l.kind

RowsOf(f, flagged) ==
    [i \in 1 .. Len(Lines[f]) |-> RowStatus(Lines[f][i], i \in flagged)]

-----------------------------------------------------------------------------
(* Parsing: claim, read, write and release are one transaction. *)

Held(r) == \E p \in Parsers : parser[p].at \in {"parsing", "writing"} /\ parser[p].run = r

\* Mutation of BeginParse: a run is parsed whenever its job waits.
ParseAgain(p, r) ==
    /\ parser[p].at = "idle"
    /\ runs[r].job = "waiting" /\ ~Held(r)
    /\ parser' = [parser EXCEPT ![p] = [at |-> "parsing", run |-> r, flagged |-> {},
                                        was |-> fstatus[runs[r].file], reviews |-> {}]]
    /\ UNCHANGED <<configVars, filed, fstatus, runs, opened, paid, clerk>>

\* The worker takes a waiting job.  A run already parsed is left as it is.
BeginParse(p, r) ==
    /\ parser[p].at = "idle"
    /\ runs[r].job = "waiting" /\ ~Held(r)
    /\ \/ /\ runs[r].status = "queued"
          /\ parser' = [parser EXCEPT ![p] = [at |-> "parsing", run |-> r, flagged |-> {},
                                              was |-> fstatus[runs[r].file], reviews |-> {}]]
          /\ UNCHANGED runs
       \/ /\ runs[r].status # "queued"
          /\ runs' = [runs EXCEPT ![r].job = "finished"]
          /\ UNCHANGED parser
    /\ UNCHANGED <<configVars, filed, fstatus, opened, paid, clerk>>

\* The statement was loaded when the parse began, and an attribute set to what it
\* was loaded with is not written.
SetFileStatus(p, s) ==
    fstatus' = IF parser[p].was = s THEN fstatus
               ELSE [fstatus EXCEPT ![runs[parser[p].run].file] = s]

\* A run that has ended, as s and with these rows.
Ended(r, s, rows) == [file |-> runs[r].file, number |-> runs[r].number, status |-> s,
                      job |-> "finished", rows |-> rows]

\* The mapping does not fit the file: the run fails, and the job is done.
ParseFails(p) ==
    LET r == parser[p].run IN
    /\ parser[p].at = "parsing"
    /\ runs' = [runs EXCEPT ![r] = Ended(r, "failed", runs[r].rows)]
    /\ SetFileStatus(p, "parse_failed")
    /\ parser' = [parser EXCEPT ![p] = Polling]
    /\ UNCHANGED <<configVars, filed, opened, paid, clerk>>

\* The file was read; duplicates are looked for among what is committed now.
LookForDuplicates(p) ==
    LET found == FindDuplicates(parser[p].run) IN
    /\ parser[p].at = "parsing"
    /\ parser' = [parser EXCEPT ![p] = [at |-> "writing", run |-> parser[p].run,
                                        was |-> parser[p].was, flagged |-> found.flagged,
                                        reviews |-> found.reviews]]
    /\ UNCHANGED <<configVars, filed, fstatus, runs, opened, paid, clerk>>

\* Rows, run, statement, reviews and job commit together.
ParseSucceeds(p) ==
    LET r == parser[p].run IN
    /\ parser[p].at = "writing"
    /\ runs' = [runs EXCEPT ![r] = Ended(r, "succeeded",
                                          RowsOf(runs[r].file, parser[p].flagged))]
    /\ SetFileStatus(p, "parsed")
    /\ opened' = opened \cup parser[p].reviews
    /\ parser' = [parser EXCEPT ![p] = Polling]
    /\ UNCHANGED <<configVars, filed, paid, clerk>>

\* The parse raises and is rolled back ...
ParseRaises(p) ==
    /\ parser[p].at \in {"parsing", "writing"}
    /\ parser' = [parser EXCEPT ![p] = [at |-> "failing", run |-> parser[p].run,
                                        was |-> "none", flagged |-> {}, reviews |-> {}]]
    /\ UNCHANGED <<configVars, filed, fstatus, runs, opened, paid, clerk>>

\* ... and a second transaction records that on the job, whatever became of it since.
RecordParseFailure(p) ==
    LET r == parser[p].run IN
    /\ parser[p].at = "failing" /\ ~Held(r)
    /\ \E j \in {"waiting", "dead"} : runs' = [runs EXCEPT ![r].job = j]
    /\ parser' = [parser EXCEPT ![p] = Polling]
    /\ UNCHANGED <<configVars, filed, fstatus, opened, paid, clerk>>

\* A worker dies, and what it had open is rolled back.
ParserDies(p) ==
    /\ parser[p].at # "idle"
    /\ parser' = [parser EXCEPT ![p] = Polling]
    /\ UNCHANGED <<configVars, filed, fstatus, runs, opened, paid, clerk>>

-----------------------------------------------------------------------------
(* Matching. *)

\* An accountant matches a row with a claim: the row's run succeeded, and no other
\* active match has the row.
ConfirmMatch(c, r, i) ==
    /\ runs[r].status = "succeeded" /\ i \in 1 .. Len(runs[r].rows)
    /\ \A d \in Claims : <<d, r, i>> \notin paid
    /\ paid' = paid \cup {<<c, r, i>>}
    /\ UNCHANGED <<configVars, filed, fstatus, runs, opened, clerk, parser>>

-----------------------------------------------------------------------------
Configure == ConfigNext /\ UNCHANGED importVars

File  == \E f \in Files, v \in Versions : CreateStatementFile(f, v)
Ask   == \E k \in Clerks : \/ \E f \in Files : CheckInFlight(k, f)
                           \/ NumberRun(k) \/ CreateImportRun(k) \/ AbandonRun(k)
Parse == \E p \in Parsers : \/ \E r \in RunIds : BeginParse(p, r)
                            \/ ParseFails(p) \/ LookForDuplicates(p) \/ ParseSucceeds(p)
                            \/ ParseRaises(p) \/ RecordParseFailure(p) \/ ParserDies(p)
Match == \E c \in Claims, r \in RunIds : \E i \in 1 .. Len(runs[r].rows) : ConfirmMatch(c, r, i)

Next == Configure \/ File \/ Ask \/ Parse \/ Match
Spec == Init /\ [][Next]_vars

-----------------------------------------------------------------------------
(* Safety. *)

\* "Never partially hide invalid rows" (statement_rows): a run that succeeded holds
\* every line of its file and calls no unreadable line anything else, and a run that
\* did not holds nothing, whatever was retried, reopened or cut short on the way.
RowsAreTheStatement ==
    \A r \in RunIds :
        IF runs[r].status = "succeeded"
        THEN /\ Len(runs[r].rows) = Len(Lines[runs[r].file])
             /\ \A i \in 1 .. Len(runs[r].rows) :
                   runs[r].rows[i] = "invalid" <=> Lines[runs[r].file][i].kind = "invalid"
        ELSE runs[r].rows = <<>>

\* "Reprocessing never overwrites earlier rows": whatever is parsed again, or at once
\* by two workers, the rows a run has stay as they were written.
RowsStay ==
    [][\A r \in RunIds : runs[r].status = "succeeded" => runs'[r].rows = runs[r].rows]_vars

\* Runs of one statement are told apart by their numbers, and none is missing.
RunsAreNumbered ==
    \A f \in Files : {runs[r].number : r \in RunsOf(f)} = 1 .. Cardinality(RunsOf(f))

\* A run that is waiting has a job that will be taken, or one that is dead and was
\* reported so: a finished job beside it would block its statement unseen.
WaitingRunHasItsJob ==
    \A r \in RunIds : runs[r].status = "queued" => runs[r].job # "finished"

\* A statement reads as parsed, or as unparseable, only on the word of a run of it that
\* ended so.
FileStatusIsEarned ==
    \A f \in Files :
        /\ fstatus[f] = "parsed" => \E r \in RunsOf(f) : runs[r].status = "succeeded"
        /\ fstatus[f] = "parse_failed" => \E r \in RunsOf(f) : runs[r].status = "failed"

\* Every row called a possible duplicate is in front of a person.
FlaggedRowsAreReviewed ==
    \A r \in RunIds : \A i \in 1 .. Len(runs[r].rows) :
        runs[r].rows[i] = "possible_duplicate" => <<"run", r>> \in opened

-----------------------------------------------------------------------------
(* Refinement: JobQueue, with the runs for jobs. *)

JobOf(r) == IF r \in RunIds THEN runs[r].job ELSE "none"

RunIn(p, places) == IF parser[p].at \in places THEN parser[p].run ELSE 0

Queue == INSTANCE JobQueue WITH
    Jobs   <- 1 .. MaxRuns, Workers <- Parsers, NoJob <- 0,
    stage  <- [r \in 1 .. MaxRuns |-> JobOf(r)],
    holder <- [p \in Parsers |-> RunIn(p, {"parsing", "writing"})],
    late   <- [p \in Parsers |-> RunIn(p, {"failing"})],
    done   <- {r \in RunIds : runs[r].status # "queued"}

\* The import asks of the queue nothing but what the queue promises (see FilesQueue), and
\* a job of its own ends with its run ended: a finished job beside a waiting run would
\* block the statement unseen.
ImplementsJobQueue == Queue!JQSpec

-----------------------------------------------------------------------------
(* What the documents and comments say and the code does not do. *)

\* "One bank credit cannot pay two different claims": a line of a statement is the
\* active match of one claim, however often the statement was parsed.
CreditPaysOnce ==
    \A x, y \in paid :
        runs[x[2]].file = runs[y[2]].file /\ x[3] = y[3] => x[1] = y[1]

\* "Duplicate fingerprints are flagged, not silently discarded": of two rows of
\* different statements that read the same, one is flagged.
TwinsAreFlagged ==
    \A r, s \in RunIds :
        runs[r].file # runs[s].file =>
        \A i \in 1 .. Len(runs[r].rows), j \in 1 .. Len(runs[s].rows) :
            LET l == Lines[runs[r].file][i] IN
            l.kind = "valid" /\ l = Lines[runs[s].file][j] =>
                "possible_duplicate" \in {runs[r].rows[i], runs[s].rows[j]}

\* "A second parse would produce a second row set for one file": one run of a
\* statement is in flight at a time.
OneRunInFlight ==
    \A r, s \in RunIds :
        runs[r].file = runs[s].file /\ {runs[r].status, runs[s].status} = {"queued"} => r = s

\* "The in-flight guard stops a second parse of the same statement starting meanwhile":
\* what is in flight can still end.
InFlightCanEnd == \A r \in RunIds : runs[r].status = "queued" => runs[r].job # "dead"

\* "A failed run does not overwrite a previous successful run."
SuccessIsNotOverwritten ==
    [][\A f \in Files : fstatus[f] = "parsed" => fstatus'[f] = "parsed"]_vars

=============================================================================
