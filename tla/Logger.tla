------------------------------- MODULE Logger -------------------------------
(***************************************************************************)
(* The error log (logger.py): the file the app's handler writes and        *)
(* rotates, which is also the file the launcher gave the app as its        *)
(* standard error (launch.sh).  The two hold descriptors of their own: a   *)
(* renamed file is followed by the one and left by the other.  Threads     *)
(* write one at a time, under _file_lock, so the order of their lines is   *)
(* all that is left of them.                                               *)
(*                                                                         *)
(* Abstracted: every line is one unit long and MaxBytes units fill the     *)
(* file; levels and formats; the debug log, which is the same class with   *)
(* one backup and no second writer, and BrickBluetooth.log, which is only  *)
(* cut.                                                                    *)
(***************************************************************************)
EXTENDS Naturals, Sequences, SequencesExt

CONSTANTS
    Backups,   \* _ERR_BACKUPS
    MaxBytes,  \* _ERR_MAX_BYTES, in lines
    MaxLines,  \* bound: lines written in a behaviour
    MaxFaults  \* bound: operations of the app in which a file call fails

ASSUME LoggerAssumption ==
    Backups \in Nat \ {0} /\ MaxBytes \in Nat \ {0} /\ MaxLines \in Nat /\ MaxFaults \in Nat

Names == 0..Backups + 1      \* 0 is the log itself, n the file "path.n"
Files == 1..Backups + 5      \* one more than the names and both descriptors take
Closed == [file |-> 0, append |-> FALSE, pos |-> 0]

VARIABLES
    name,     \* the file each name stands for, 0 if there is none
    data,     \* what each file holds; a line is the number it has in the order written
    fh,       \* the handler's open file, its mode and its position
    err,      \* the file behind descriptor 2
    running,  \* the app runs
    pending,  \* .pending_crash exists
    n,        \* lines written so far
    run,      \* this run of the app: the lines the handler and others wrote, whether
              \* the log was rotated or cleared and a file call failed
    faults    \* operations with a failed call so far

disk == <<name, data>>
vars == <<disk, fh, err, running, pending, n, run, faults>>

NewRun(failed) == [own |-> {}, others |-> {},
                   rotated |-> FALSE, cleared |-> FALSE, failed |-> failed]

Init ==
    /\ name = [i \in Names |-> 0] /\ data = [f \in Files |-> <<>>]
    /\ fh = Closed /\ err = 0 /\ running = FALSE /\ pending = FALSE
    /\ n = 0 /\ run = NewRun(FALSE) /\ faults = 0

-----------------------------------------------------------------------------
(* Files.                                                                  *)

Free(nm) == CHOOSE f \in Files : f \notin {nm[i] : i \in Names} \cup {fh.file, err}

\* open(path, "a") and open(path, "w"): a new file if there is none
Opened(nm, d, append) ==
    LET f == IF nm[0] = 0 THEN Free(nm) ELSE nm[0]
        kept == IF append /\ nm[0] # 0 THEN d[f] ELSE <<>> IN
    [name |-> [nm EXCEPT ![0] = f], data |-> [d EXCEPT ![f] = kept],
     fh |-> [file |-> f, append |-> append, pos |-> Len(kept)]]

\* a call of open that fails
NotOpened(nm, d) == [name |-> nm, data |-> d, fh |-> Closed]

\* A write in append mode goes to the end, another to its own position, over
\* what the other descriptor has put there.
At(h, d) == IF h.append THEN Len(d[h.file]) ELSE h.pos
Put(d, f, p, line) ==
    [d EXCEPT ![f] = IF p < Len(d[f]) THEN [d[f] EXCEPT ![p + 1] = line] ELSE Append(d[f], line)]

\* one turn of the loop of _rotate: path.i becomes path.(i + 1), but the last
\* one is removed, unless the call that does it fails
Shift(nm, i, bad) ==
    IF nm[i] = 0 \/ (i = Backups /\ ~bad.remove) THEN [nm EXCEPT ![i] = 0]
    ELSE IF i \in bad.names THEN nm
    ELSE [nm EXCEPT ![i + 1] = nm[i], ![i] = 0]

\* mutant: the loop runs upwards, over the file it is about to move
ShiftedUp(nm, bad) ==
    LET to[i \in Names] == IF i = 0 THEN nm ELSE Shift(to[i - 1], i, bad)
    IN Shift(to[Backups], 0, bad)

\* the loop, from the last backup down, and the renaming of the log itself
Shifted(nm, bad) ==
    LET from[i \in Names] == IF i > Backups THEN nm ELSE Shift(from[i + 1], i, bad)
    IN from[0]

\* _rotate
Rotate(nm, d, bad) ==
    LET to == Shifted(nm, bad) IN
    IF bad.open THEN NotOpened(to, d) ELSE Opened(to, d, FALSE)

Failures == [names : SUBSET Names, remove : BOOLEAN, open : BOOLEAN]
NoFailure == [names |-> {}, remove |-> FALSE, open |-> FALSE]
Fault(bad) ==
    IF bad = NoFailure THEN UNCHANGED faults ELSE faults < MaxFaults /\ faults' = faults + 1

\* a file without a name or a descriptor is gone
Becomes(s, e) ==
    /\ name' = s.name /\ fh' = s.fh /\ err' = e
    /\ data' = [f \in Files |-> IF f \in {s.name[i] : i \in Names} \cup {s.fh.file, e}
                               THEN s.data[f] ELSE <<>>]

-----------------------------------------------------------------------------
(* The app.                                                                *)

\* A record reaches _TrimFile.write.  In append mode tell() counts every line
\* of the file, in the other its own only.
Write(bad) ==
    /\ running /\ n < MaxLines
    /\ n' = n + 1
    /\ run' = [run EXCEPT !.own = @ \cup {n + 1}, !.failed = @ \/ bad # NoFailure,
                          !.rotated = @ \/ (fh # Closed /\ At(fh, data) + 1 > MaxBytes)]
    /\ LET p == At(fh, data)
           d == Put(data, fh.file, p, n + 1) IN
       \/ fh = Closed /\ bad = NoFailure /\ UNCHANGED <<disk, fh, err>>
       \/ fh # Closed /\ p + 1 > MaxBytes /\ Becomes(Rotate(name, d, bad), err)
       \/ /\ fh # Closed /\ p + 1 <= MaxBytes /\ bad = NoFailure
          /\ data' = d /\ fh' = [fh EXCEPT !.pos = p + 1] /\ UNCHANGED <<name, err>>
    /\ Fault(bad)
    /\ UNCHANGED <<running, pending>>

\* the write fails, and the line is lost
WriteFails ==
    /\ running /\ n < MaxLines /\ fh # Closed /\ faults < MaxFaults
    /\ n' = n + 1 /\ faults' = faults + 1
    /\ run' = [run EXCEPT !.own = @ \cup {n + 1}, !.failed = TRUE]
    /\ UNCHANGED <<disk, fh, err, running, pending>>

\* something other than the handler writes to standard error: a thread that
\* ends with an exception, a library
WriteStderr ==
    /\ running /\ n < MaxLines
    /\ n' = n + 1
    /\ data' = Put(data, err, Len(data[err]), n + 1)
    /\ run' = [run EXCEPT !.others = @ \cup {n + 1}]
    /\ UNCHANGED <<name, fh, err, running, pending, faults>>

\* the names _TrimFile.clear removes, unless a call fails
Removed(bad) == [i \in Names |-> IF i = 0 \/ i \in bad.names THEN name[i] ELSE 0]

\* clear_runtime_logs, _TrimFile.clear; refused while a report waits.  The line
\* it logs is not a warning and goes to the debug log.
Clear(bad) ==
    /\ running /\ ~pending
    /\ Becomes(IF bad.open THEN NotOpened(Removed(bad), data)
               ELSE Opened(Removed(bad), data, FALSE), err)
    /\ run' = [run EXCEPT !.cleared = TRUE, !.failed = @ \/ bad # NoFailure]
    /\ Fault(bad)
    /\ UNCHANGED <<running, pending, n>>

\* the app ends; after a crash or a stream a report is queued
Exit(reports) ==
    /\ running
    /\ running' = FALSE /\ pending' = (pending \/ reports)
    /\ Becomes(NotOpened(name, data), 0)
    /\ UNCHANGED <<n, run, faults>>

-----------------------------------------------------------------------------
(* The launcher.                                                           *)

\* the report was sent: log_uploader, run by the launcher or by the app
Sent == pending /\ pending' = FALSE /\ UNCHANGED <<disk, fh, err, running, n, run, faults>>

\* _keep_tail, by --cap-runtime: the first line of the tail is taken for a cut
\* one and dropped; an error leaves the log as it is
Cap ==
    /\ ~running /\ name[0] # 0 /\ Len(data[name[0]]) > MaxBytes
    /\ LET d == data[name[0]] f == Free(name) IN
       Becomes(NotOpened([name EXCEPT ![0] = f],
                   [data EXCEPT ![f] = SubSeq(d, Len(d) - MaxBytes + 2, Len(d))]), 0)
    /\ UNCHANGED <<running, pending, n, run, faults>>

\* mutant: the handler opens the log as for writing
StartWriting(s, bad) ==
    IF bad.open THEN NotOpened(s.name, s.data) ELSE Opened(s.name, s.data, FALSE)

\* _TrimFile.__init__ of init_logger
Started(s, bad) ==
    IF bad.open THEN NotOpened(s.name, s.data) ELSE Opened(s.name, s.data, TRUE)

\* launch.sh empties the log, unless a report waits for it or it goes on after a
\* stream, writes to it, and starts the app with its standard error appended to it
Start(new, bad) ==
    /\ ~running /\ (new => n < MaxLines)
    /\ LET emptied == IF new /\ ~pending THEN Opened(name, data, FALSE) ELSE Opened(name, data, TRUE)
           f == emptied.fh.file
           d == IF new THEN Put(emptied.data, f, Len(emptied.data[f]), n + 1)
                ELSE emptied.data IN
       /\ Becomes(Started([name |-> emptied.name, data |-> d], bad), f)
       /\ n' = IF new THEN n + 1 ELSE n
    /\ bad.names = {} /\ ~bad.remove
    /\ running' = TRUE /\ run' = NewRun(bad # NoFailure)
    /\ Fault(bad)
    /\ UNCHANGED pending

-----------------------------------------------------------------------------
Next ==
    \/ \E bad \in Failures : Write(bad) \/ Clear(bad)
    \/ \E new \in BOOLEAN, bad \in Failures : Start(new, bad)
    \/ WriteFails \/ WriteStderr \/ Sent \/ Cap
    \/ \E reports \in BOOLEAN : Exit(reports)

Spec == Init /\ [][Next]_vars

-----------------------------------------------------------------------------
(* Properties.                                                             *)

TypeOK ==
    /\ name \in [Names -> Files \cup {0}]
    /\ data \in [Files -> Seq(1..MaxLines)]
    /\ fh \in [file : Files \cup {0}, append : BOOLEAN, pos : Nat]
    /\ err \in Files \cup {0} /\ running \in BOOLEAN /\ pending \in BOOLEAN
    /\ n \in 0..MaxLines /\ faults \in 0..MaxFaults
    /\ run \in [own : SUBSET (1..n), others : SUBSET (1..n),
                rotated : BOOLEAN, cleared : BOOLEAN, failed : BOOLEAN]

Contents(i) == IF name[i] = 0 THEN <<>> ELSE data[name[i]]
Lines(i) == ToSet(Contents(i))

\* From the oldest backup to the log, the lines of this run are in the order
\* they were written, whatever call failed; and unless one did, or the user
\* cleared the log, rotation (logger.py:119-144) loses a line only behind
\* Backups full files of newer lines of the same run.
NewestLinesKept ==
    /\ \A i, j \in Names : \A p \in DOMAIN Contents(i), q \in DOMAIN Contents(j) :
          /\ i > j \/ (i = j /\ p < q)
          /\ Contents(i)[p] \in run.own /\ Contents(j)[q] \in run.own
          => Contents(i)[p] < Contents(j)[q]
    /\ running /\ ~run.failed /\ ~run.cleared =>
          \A line \in run.own \ UNION {Lines(i) : i \in Names} : \A i \in 1..Backups :
             Len(Contents(i)) > MaxBytes /\ Lines(i) \subseteq {l \in run.own : l > line}

\* What the app and its libraries wrote to standard error is in the log, the
\* only one of these files a report is made from, until the log is rotated or
\* cleared: from then on the descriptor is that of another file, or the handler
\* writes over it.
ErrorOutputKept ==
    running /\ ~run.rotated /\ ~run.cleared => run.others \subseteq Lines(0)
=============================================================================
