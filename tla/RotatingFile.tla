---------------------------- MODULE RotatingFile ----------------------------
(***************************************************************************)
(* The rotating log file (util/zlog/writer.go).  Every goroutine of the    *)
(* process that logs calls Write, and nothing keeps two calls apart: each  *)
(* system call, and each read of rf.file, is a step of its own.            *)
(*                                                                         *)
(* The directory gives names 0 (the log) and 1 .. Backups ("log-1", ...)   *)
(* to files; a handle is an open file, and rf.file is the number of a      *)
(* handle.  Lines are numbered in the order in which they reach a file.    *)
(***************************************************************************)
EXTENDS Integers, SequencesExt

CONSTANTS
    Writers,     (* goroutines that log                                     *)
    Sizes,       (* lengths of a line                                       *)
    MaxBytes,    (* RotatingFile.maxBytes                                   *)
    Backups,     (* RotatingFile.backupCount                                *)
    MaxLines,    (* bound: lines that are written                           *)
    MaxRestarts  (* bound: restarts of the process                          *)

ASSUME RotatingFileAssumption ==
    /\ IsFiniteSet(Writers) /\ Writers # {}
    /\ IsFiniteSet(Sizes) /\ Sizes # {} /\ Sizes \subseteq Nat \ {0}
    /\ MaxBytes \in Nat \ {0} /\ {Backups, MaxLines, MaxRestarts} \subseteq Nat

VARIABLES
    name,     (* the directory: per name, its file                          *)
    content,  (* per file: its lines                                        *)
    handle,   (* per handle: its file, and whether it is open               *)
    file,     (* RotatingFile.file                                          *)
    call,     (* per goroutine: where its Write is                          *)
    overlap,  (* two calls have rotated at the same time                    *)
    lines,    (* lines that have reached a file                             *)
    restarts  (* restarts so far                                            *)

disk == <<name, content, lines>>
logVars == <<disk, handle, file, call, overlap, restarts>>

Names  == 0 .. Backups
NoFile == 0
Nil    == 0   (* the nil *os.File *)

CallLabels == {"idle", "stat", "shift", "close", "rename", "open", "load", "write"}
Rotating   == {"shift", "close", "rename", "open"}
Idle       == [at |-> "idle", size |-> 0, i |-> 0, h |-> Nil]

Advance(w, from, to) == call[w].at = from /\ call' = [call EXCEPT ![w].at = to]

SizeOf(f) == FoldLeft(LAMBDA sum, line : sum + line.size, 0, content[f])

IsOpen(h) == h # Nil /\ handle[h].open

(* os.OpenFile of name 0, with O_CREATE and O_APPEND, in a process with     *)
(* these handles.                                                           *)
OpenLog(handles) ==
    LET new == name[0] = NoFile
        f   == IF new THEN Len(content) + 1 ELSE name[0]
    IN  /\ name' = [name EXCEPT ![0] = f]
        /\ content' = IF new THEN Append(content, <<>>) ELSE content
        /\ handle' = Append(handles, [file |-> f, open |-> TRUE])
        /\ file' = Len(handles) + 1
        /\ UNCHANGED lines

(* os.Rename; without the old name it is an error, and nothing happens. *)
Rename(i, j) ==
    /\ name' = IF name[i] = NoFile THEN name
               ELSE [name EXCEPT ![j] = name[i], ![i] = NoFile]
    /\ UNCHANGED <<content, lines>>

(* NewRotatingFile, with a directory that has no log yet. *)
LogInit ==
    /\ name = [i \in Names |-> IF i = 0 THEN 1 ELSE NoFile] /\ content = <<<<>>>>
    /\ handle = <<[file |-> 1, open |-> TRUE]>> /\ file = 1
    /\ call = [w \in Writers |-> Idle]
    /\ overlap = FALSE /\ lines = 0 /\ restarts = 0
-----------------------------------------------------------------------------
Write(w) ==
    /\ call[w].at = "idle"
    /\ \E n \in Sizes : call' = [call EXCEPT ![w] = [Idle EXCEPT
                            !.at = IF Backups < 1 THEN "load" ELSE "stat", !.size = n]]
    /\ UNCHANGED <<disk, handle, file, overlap, restarts>>

(* Mutant: the length of the line is not counted. *)
Full_Before(w) == SizeOf(handle[file].file) >= MaxBytes

(* The line would not leave room in the file. *)
Full(w) == SizeOf(handle[file].file) + call[w].size >= MaxBytes

(* Mutant: the loop starts one backup too low. *)
Stat_OneLess(w) ==
    /\ call[w].at = "stat"
    /\ LET rotate == IsOpen(file) /\ Full(w)
       IN  /\ call' = [call EXCEPT ![w].at = IF ~rotate THEN "load"
                                             ELSE IF Backups > 2 THEN "shift" ELSE "close",
                                   ![w].i = IF rotate THEN Backups - 2 ELSE 0]
           /\ overlap' = (overlap \/ (rotate /\ \E v \in Writers : call[v].at \in Rotating))
    /\ UNCHANGED <<disk, handle, file, restarts>>

(* rotating looks at the size of the file that is open now. *)
Stat(w) ==
    /\ call[w].at = "stat"
    /\ LET rotate == IsOpen(file) /\ Full(w)
       IN  /\ call' = [call EXCEPT ![w].at = IF ~rotate THEN "load"
                                             ELSE IF Backups > 1 THEN "shift" ELSE "close",
                                   ![w].i = IF rotate THEN Backups - 1 ELSE 0]
           /\ overlap' = (overlap \/ (rotate /\ \E v \in Writers : call[v].at \in Rotating))
    /\ UNCHANGED <<disk, handle, file, restarts>>

(* Mutant: the loop runs one turn too far. *)
Shift_PastEnd(w) ==
    /\ call[w].at = "shift"
    /\ Rename(call[w].i, call[w].i + 1)
    /\ call' = [call EXCEPT ![w].i = @ - 1, ![w].at = IF call[w].i >= 0 THEN "shift" ELSE "close"]
    /\ UNCHANGED <<handle, file, overlap, restarts>>

(* One turn of the loop over the backups, from the oldest on. *)
Shift(w) ==
    /\ call[w].at = "shift"
    /\ Rename(call[w].i, call[w].i + 1)
    /\ call' = [call EXCEPT ![w].i = @ - 1, ![w].at = IF call[w].i > 1 THEN "shift" ELSE "close"]
    /\ UNCHANGED <<handle, file, overlap, restarts>>

(* Mutant: the old file stays open. *)
CloseFile_Keep(w) ==
    /\ Advance(w, "close", "rename")
    /\ UNCHANGED <<disk, handle, file, overlap, restarts>>

CloseFile(w) ==
    /\ Advance(w, "close", "rename")
    /\ handle' = IF file = Nil THEN handle ELSE [handle EXCEPT ![file].open = FALSE]
    /\ UNCHANGED <<disk, file, overlap, restarts>>

RenameFile(w) ==
    /\ Advance(w, "rename", "open")
    /\ Rename(0, 1)
    /\ UNCHANGED <<handle, file, overlap, restarts>>

OpenFile(w) ==
    /\ Advance(w, "open", "load")
    /\ OpenLog(handle)
    /\ UNCHANGED <<overlap, restarts>>

(* The error of OpenFile is dropped: no call will ever open the file again. *)
OpenFails(w) ==
    /\ Advance(w, "open", "load")
    /\ file' = Nil
    /\ UNCHANGED <<disk, handle, overlap, restarts>>

Load(w) ==
    /\ call[w].at = "load"
    /\ call' = [call EXCEPT ![w].at = "write", ![w].h = file]
    /\ UNCHANGED <<disk, handle, file, overlap, restarts>>

(* File.Write appends the line, or fails when the handle is closed or nil. *)
WriteFile(w) ==
    /\ call[w].at = "write"
    /\ call' = [call EXCEPT ![w] = Idle]
    /\ IF IsOpen(call[w].h)
       THEN /\ lines < MaxLines
            /\ content' = [content EXCEPT ![handle[call[w].h].file] =
                    Append(@, [n |-> lines + 1, size |-> call[w].size])]
            /\ lines' = lines + 1
       ELSE UNCHANGED <<content, lines>>
    /\ UNCHANGED <<name, handle, file, overlap, restarts>>

(* The process ends, wherever its calls are, and is started again. *)
Restart ==
    /\ restarts < MaxRestarts
    /\ restarts' = restarts + 1
    /\ call' = [w \in Writers |-> Idle]
    /\ OpenLog(<<>>)
    /\ UNCHANGED overlap
-----------------------------------------------------------------------------
Rotate(w) == Shift(w) \/ CloseFile(w) \/ RenameFile(w) \/ OpenFile(w) \/ OpenFails(w)

LogNext ==
    \/ \E w \in Writers : Write(w) \/ Stat(w) \/ Rotate(w) \/ Load(w) \/ WriteFile(w)
    \/ Restart

LogSpec == LogInit /\ [][LogNext]_logVars
-----------------------------------------------------------------------------
LogTypeOK ==
    /\ name \in [Names -> 0 .. Len(content)]
    /\ \A f \in DOMAIN content : \A k \in DOMAIN content[f] :
            content[f][k] \in [n : 1 .. lines, size : Sizes]
    /\ \A h \in DOMAIN handle : handle[h] \in [file : DOMAIN content, open : BOOLEAN]
    /\ file \in 0 .. Len(handle)
    /\ call \in [Writers -> [at : CallLabels, size : Sizes \cup {0}, i : Names,
                             h : 0 .. Len(handle)]]
    /\ overlap \in BOOLEAN /\ lines \in 0 .. MaxLines /\ restarts \in 0 .. MaxRestarts

(* The lines of the file that has name i, and the numbers of those that are *)
(* in the directory.                                                        *)
LinesOf(i) == IF name[i] = NoFile THEN <<>> ELSE content[name[i]]
Kept == UNION {{LinesOf(i)[k].n : k \in DOMAIN LinesOf(i)} : i \in Names}

(* As long as no two rotations overlap, the files hold the latest lines, in *)
(* order from the oldest backup to the log and without a gap, wherever the  *)
(* process ends, whichever call fails and whenever a goroutine that has     *)
(* read rf.file gets to write.                                              *)
OldestFirst ==
    ~overlap =>
        /\ \A i, j \in Names : \A k \in DOMAIN LinesOf(i), m \in DOMAIN LinesOf(j) :
                i > j \/ (i = j /\ k < m) => LinesOf(i)[k].n < LinesOf(j)[m].n
        /\ \A n \in Kept : n .. lines \subseteq Kept

(* And no step takes a file but the oldest backup out of the directory.     *)
(* (Two rotations that overlap may: the second renames the almost empty log *)
(* over the backup that the first has just made.)                           *)
OnlyOldestLost ==
    [][\A i \in Names \ {Backups} :
        name[i] # NoFile /\ (\A j \in Names : name'[j] # name[i]) => overlap]_logVars

(* As long as no two rotations overlap, a file outgrows maxBytes by no more *)
(* than one line of each other goroutine: the ones that looked at its size  *)
(* before these lines came, or while the file before it was closed.  (With  *)
(* three goroutines and an overlap it may grow further: one that is late to *)
(* open the log opens the full file that another has just closed, and a     *)
(* third has skipped the test because its Stat met the closed file.)        *)
SizeLimit == Max({MaxBytes - 1, Max(Sizes)}) + (Cardinality(Writers) - 1) * Max(Sizes)

SizeBound == ~overlap /\ Backups > 0 => \A f \in DOMAIN content : SizeOf(f) <= SizeLimit
=============================================================================
