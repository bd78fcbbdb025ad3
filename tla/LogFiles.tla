------------------------------ MODULE LogFiles ------------------------------
(***************************************************************************)
(* The files behind RingLog, whose every step this module takes over:      *)
(* decis_file, which persist asks for the file a buffer goes to (one per   *)
(* day, renamed .log -> .log.1 -> .log.2 as it grows too large), and the   *)
(* date it goes by, which the producers keep in _tm.                       *)
(*                                                                         *)
(* get_curr_time stores the date without a lock.  What a thread stores is  *)
(* the time it read, which may be long ago if it was delayed in between.   *)
(* decis_file compares the day of the month only, so a date is a day here. *)
(***************************************************************************)
EXTENDS RingLog

CONSTANTS
    LastDay,    \* bound: days the run may last
    FileLimit   \* LOG_USE_LIMIT, in lines

ASSUME FilesAssumption == {LastDay, FileLimit} \subseteq Nat \ {0}

VARIABLES
    _env_ok,    \* the directory can be written to
    today,      \* _tm.day
    fp,         \* _fp # NULL, _day, _log_cnt and the day persist asks for
    files,      \* day -> the lines of its files .log, .log.1, .log.2, ...
    astray      \* history: a day was stored over a later one, or a rename failed

fileVars == <<_env_ok, today, fp, files, astray>>
allVars == <<vars, fileVars>>

Days == 1..LastDay

NotOpen == [open |-> FALSE, day |-> 0, cnt |-> 0, asked |-> 0]
NoFiles == [d \in Days |-> << >>]

(* The constructor, and init_path.                                         *)
FilesInit ==
    /\ Init
    /\ _env_ok \in BOOLEAN
    /\ today = 1 /\ astray = FALSE
    /\ fp = NotOpen /\ files = NoFiles

(* The files are followed until one of the things happens that break the   *)
(* log: an older day stored over a later one (decis_file then opens        *)
(* yesterday's file again, with "w"), a rename that fails (decis_file      *)
(* ignores it and opens a file that has lines in it, with "w"), and        *)
(* RingLog's spoiled.  If the directory cannot be written to, the log goes *)
(* to /dev/null.                                                           *)
Followed == _env_ok /\ ~astray /\ ~spoiled
LoseTrack == fp' = NotOpen /\ files' = NoFiles

(* get_curr_time, at the beginning of try_append.                          *)
get_curr_time ==
    \E d \in Days : today' = d /\ astray' = (astray \/ d < today)

Logs(p) ==
    /\ try_append(p)
    /\ IF ppc[p] = "idle" THEN get_curr_time ELSE UNCHANGED <<today, astray>>
    /\ UNCHANGED _env_ok
    /\ IF Followed' THEN UNCHANGED <<fp, files>> ELSE LoseTrack

-----------------------------------------------------------------------------
(* decis_file: the files and fp after it.  opened: fopen succeeds.         *)

NewDay == ~fp.open \/ fp.day # fp.asked
TooLarge == ~NewDay /\ Len(Head(files[fp.day])) >= FileLimit

(* fopen(.log, "w"): a file of that name is empty from now on.             *)
Truncated(logs) == <<<< >>>> \o SubSeq(logs, 2, Len(logs))

(* rename(.log.i, .log.i+1) for i from _log_cnt - 1 down to 1, then .log   *)
(* to .log.1; a file behind the last of them is overwritten.               *)
Shifted(logs) == LET n == Min({fp.cnt, Len(logs)}) IN
                 <<<< >>>> \o SubSeq(logs, 1, n) \o SubSeq(logs, n + 2, Len(logs))

OpenDay(opened) ==
    [fp |-> [fp EXCEPT !.open = opened, !.day = fp.asked,
                       !.cnt = IF ~opened THEN @ ELSE IF fp.open THEN 1 ELSE @ + 1],
     files |-> IF opened THEN [files EXCEPT ![fp.asked] = Truncated(@)] ELSE files]

(* Mutant: the file that has been renamed is not counted.                  *)
OpenNextUncounted(opened) ==
    [fp |-> [fp EXCEPT !.open = opened],
     files |-> [files EXCEPT ![fp.day] = Shifted(@)]]

OpenNext(opened) ==
    [fp |-> [fp EXCEPT !.open = opened, !.cnt = IF opened THEN @ + 1 ELSE @],
     files |-> [files EXCEPT ![fp.day] = Shifted(@)]]

Opens == Followed /\ (NewDay \/ TooLarge)
decis_file(opened) ==
    IF ~Opens THEN [fp |-> fp, files |-> files]
    ELSE IF NewDay THEN OpenDay(opened) ELSE OpenNext(opened)

(* One of the renames fails.                                               *)
RenameFails == Opens /\ TooLarge /\ astray' = TRUE /\ LoseTrack

-----------------------------------------------------------------------------
(* persist.                                                                *)

Waits ==
    /\ Await \/ NothingThere \/ Advance
    /\ UNCHANGED fileVars

(* The date is read before the mutex is given up (line 130).               *)
TakesBuffer ==
    /\ TakeFree \/ TakeFull
    /\ fp' = IF Followed THEN [fp EXCEPT !.asked = today] ELSE fp
    /\ UNCHANGED <<_env_ok, today, files, astray>>

CannotOpen ==
    /\ NoFile
    /\ Followed => Opens
    /\ \/ /\ fp' = decis_file(FALSE).fp /\ files' = decis_file(FALSE).files
          /\ UNCHANGED astray
       \/ RenameFails
    /\ UNCHANGED <<_env_ok, today>>

Persists ==
    /\ Write
    /\ \/ /\ fp' = decis_file(TRUE).fp
          /\ files' = IF Followed
                      THEN [decis_file(TRUE).files EXCEPT ![fp.asked][1] = @ \o ring[1].lines]
                      ELSE files
          /\ UNCHANGED astray
       \/ RenameFails
    /\ UNCHANGED <<_env_ok, today>>

PersistsShort ==
    /\ WriteShort /\ LoseTrack
    /\ UNCHANGED <<_env_ok, today, astray>>

Background == Waits \/ TakesBuffer \/ CannotOpen \/ Persists \/ PersistsShort

FilesNext == (\E p \in Producers : Logs(p)) \/ Background

FilesSpec == FilesInit /\ [][FilesNext]_allVars

(* The threads run, the background thread is not overtaken at the mutex    *)
(* for ever, and a file can be opened again and again.                     *)
FairSpec == /\ FilesSpec
            /\ \A p \in Producers : WF_allVars(Logs(p) /\ Locked)
            /\ SF_allVars(Waits) /\ SF_allVars(TakesBuffer) /\ SF_allVars(Persists)

-----------------------------------------------------------------------------
(* The files of a day, the oldest first, and of all days.                  *)
OfDay(d) == FlattenSeq(Reverse(files[d]))
AllFiles == FlattenSeq([d \in Days |-> OfDay(d)])

(* The lines that persist has handed to fwrite are in the files, in that   *)
(* order, whenever a day began, a file grew too large or could not be      *)
(* opened: no rename overwrites a file that has lines in it and no fopen   *)
(* empties one.  What breaks that is an older day stored over a later one  *)
(* (decis_file then opens yesterday's file again, with "w") and a rename   *)
(* that fails, whose result decis_file does not look at: see Followed.     *)
LogKept == LogFaithful /\ (Followed => AllFiles = file)

(* What is in the ring is written in the end, also when no buffer fills up *)
(* any more: persist takes a buffer that is not FULL after a second.       *)
EventuallyOnDisk == Pending # << >> ~> cpc = "advance" \/ spoiled
=============================================================================
