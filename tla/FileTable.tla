------------------------------ MODULE FileTable ------------------------------
(***************************************************************************)
(* The table of file descriptors that both cores open, write and close their  *)
(* files through: core 0 saves events, core 1 events and telemetry.          *)
(*                                                                         *)
(* auto_init_recursive_mutex declares a static mutex where it stands, so that *)
(* _open, _write and _close exclude themselves on the other core, but not    *)
(* each other; the mutex of the file, _mutex, is not used.  An access of the  *)
(* table is a step.  FatFS has a mutex of its own: its calls are steps too.   *)
(***************************************************************************)
EXTENDS Integers, Sequences, FiniteSets, FiniteSetsExt

CONSTANTS
    core0, core1, Nobody,
    MaxJobs, MaxFails \* bounds of the model: jobs of a core, f_open that fail

ASSUME TableAssumption ==
    core0 # core1 /\ Nobody \notin {core0, core1} /\ MaxJobs \in Nat /\ MaxFails \in Nat

Cores == {core0, core1}
Functions == {"open", "write", "close"}
None == 0
Free == <<Nobody, "none">>

VARIABLES
    owner,     \* of the mutex in each function
    pc, todo,  \* of each core: where it is, the calls of its job
    fd,        \* of each core: the descriptors of its files, or None
    at,        \* of each core: the slot its call is about
    file,      \* of each core: the fs_file_t its call has in hand
    mine,      \* of each core: the array a closing call writes to
    table,     \* file_descriptor[0 .. max_file_descriptor - 1], from 1 on
    array,     \* which array file_descriptor points to: each realloc makes another
    copy,      \* what realloc has copied
    objects,   \* the allocated fs_file_t: whose, and of what file
    contexts,  \* the allocated fat_file_t
    raced,     \* ghost: a call has met one in the table it should have been kept from
    jobs, fails

locals == <<pc, todo, fd, at, file, mine>>
memory == <<table, array, copy, objects, contexts>>
vars == <<owner, locals, memory, raced, jobs, fails>>

-----------------------------------------------------------------------------
(* What the cores do with files.                                           *)

Call(function, name) == [function |-> function, name |-> name]
All(function, names) == [i \in DOMAIN names |-> Call(function, names[i])]

\* save_to_storage, and flush_telemetry, which opens both files before it looks.
Job(names) == All("open", names) \o All("write", names) \o All("close", names)
Save == Job(<<"events">>)
Flush == Job(<<"telemetry", "sensor">>)
Jobs(c) == IF c = core1 THEN {Save, Flush} ELSE {Save}

Names == {"events", "telemetry", "sensor"}
Files(c) == {k.name : k \in {todo[c][i] : i \in DOMAIN todo[c]}}

\* Nothing is written unless all files are open; those that are open are closed.
Due(c) ==
    LET k == Head(todo[c]) IN
    CASE k.function = "open" -> TRUE
      [] k.function = "write" -> \A n \in Files(c) : fd[c][n] # None
      [] k.function = "close" -> fd[c][k.name] # None

At(c, label) == pc[c] = label
Go(c, label) == pc' = [pc EXCEPT ![c] = label]
Name(c) == Head(todo[c]).name

Init ==
    /\ owner = [f \in Functions |-> Nobody]
    /\ pc = [c \in Cores |-> "next"] /\ todo = [c \in Cores |-> <<>>]
    /\ fd = [c \in Cores |-> [n \in Names |-> None]]
    /\ at = [c \in Cores |-> None] /\ file = [c \in Cores |-> None] /\ mine = [c \in Cores |-> 0]
    /\ table = <<>> /\ array = 0 /\ copy = <<>>
    /\ objects = [o \in 1 .. 2 * Cardinality(Names) |-> Free] /\ contexts = 0
    /\ raced = FALSE /\ jobs = [c \in Cores |-> 0] /\ fails = 0

Begin(c) ==
    /\ At(c, "next") /\ todo[c] = <<>> /\ jobs[c] < MaxJobs
    /\ \E j \in Jobs(c) : todo' = [todo EXCEPT ![c] = j]
    /\ jobs' = [jobs EXCEPT ![c] = @ + 1]
    /\ UNCHANGED <<owner, pc, fd, at, file, mine, memory, fails>>

Skip(c) ==
    /\ At(c, "next") /\ todo[c] # <<>> /\ ~Due(c)
    /\ todo' = [todo EXCEPT ![c] = Tail(@)]
    /\ UNCHANGED <<owner, pc, fd, at, file, mine, memory, jobs, fails>>

Enter(c) ==
    /\ At(c, "next") /\ todo[c] # <<>> /\ Due(c)
    /\ LET f == Head(todo[c]).function
       IN  /\ owner[f] \in {Nobody, c}
           /\ owner' = [owner EXCEPT ![f] = c] /\ Go(c, f)
    /\ UNCHANGED <<todo, fd, at, file, mine, memory, jobs, fails>>

\* Mutant: the early return of a failed open keeps the mutex.
Exit_Kept(c) == IF At(c, "undo") THEN owner ELSE [owner EXCEPT ![Head(todo[c]).function] = Nobody]

Exit(c) == [owner EXCEPT ![Head(todo[c]).function] = Nobody]

Forget(c) ==
    /\ Go(c, "next") /\ todo' = [todo EXCEPT ![c] = Tail(@)]
    /\ at' = [at EXCEPT ![c] = None] /\ file' = [file EXCEPT ![c] = None]
    /\ mine' = [mine EXCEPT ![c] = 0]

Return(c) == owner' = Exit(c) /\ Forget(c)

-----------------------------------------------------------------------------
(* _open and _assign_file_descriptor.                                      *)

Empty == [filesystem |-> FALSE, file |-> None]
Vacant == {i \in DOMAIN table : ~table[i].filesystem}

\* The first use allocates two slots; a full table is moved to an array of twice the
\* size, and until realloc returns the pointer is to what realloc has freed.
AssignFileDescriptor(c) ==
    /\ At(c, "open")
    /\ LET slots == IF table = <<>> THEN <<Empty, Empty>> ELSE table
           vacant == IF table = <<>> THEN {1} ELSE Vacant
       IN  IF vacant = {}
           THEN Go(c, "grow") /\ copy' = table /\ UNCHANGED <<at, table>>
           ELSE Go(c, "slot") /\ at' = [at EXCEPT ![c] = Min(vacant)] /\ table' = slots /\ UNCHANGED copy
    /\ UNCHANGED <<owner, todo, fd, file, mine, array, objects, contexts, jobs, fails>>

\* Mutant: off by one, the slot is the last of the old ones.
FirstNew_Last(slots) == Len(slots)

FirstNew(slots) == Len(slots) + 1

Extend(c) ==
    /\ At(c, "grow")
    /\ table' = copy \o [i \in DOMAIN copy |-> Empty] /\ array' = array + 1 /\ copy' = <<>>
    /\ at' = [at EXCEPT ![c] = FirstNew(copy)] /\ Go(c, "slot")
    /\ UNCHANGED <<owner, todo, fd, file, mine, objects, contexts, jobs, fails>>

AllocateFile(c) ==
    /\ At(c, "slot")
    /\ LET o == Min({i \in DOMAIN objects : objects[i] = Free})
       IN  /\ objects' = [objects EXCEPT ![o] = <<c, Name(c)>>]
           /\ file' = [file EXCEPT ![c] = o]
           /\ table' = [table EXCEPT ![at[c]].file = o]
    /\ Go(c, "fs_open")
    /\ UNCHANGED <<owner, todo, fd, at, mine, array, copy, contexts, jobs, fails>>

\* file_open of fat.c; if f_open fails, the context stays allocated.
FileOpen(c, ok) ==
    /\ At(c, "fs_open") /\ (ok \/ fails < MaxFails)
    /\ contexts' = contexts + 1
    /\ fails' = IF ok THEN fails ELSE fails + 1
    /\ Go(c, IF ok THEN "done" ELSE "undo")
    /\ UNCHANGED <<owner, todo, fd, at, file, mine, table, array, copy, objects, jobs>>

Opened(c) ==
    /\ At(c, "done")
    /\ table' = [table EXCEPT ![at[c]].filesystem = TRUE]
    /\ fd' = [fd EXCEPT ![c][Name(c)] = at[c]]
    /\ Return(c)
    /\ UNCHANGED <<array, copy, objects, contexts, jobs, fails>>

OpenFailed(c) ==
    /\ At(c, "undo")
    /\ objects' = [objects EXCEPT ![file[c]] = Free]
    /\ table' = [table EXCEPT ![at[c]].file = None]
    /\ Return(c)
    /\ UNCHANGED <<fd, array, copy, contexts, jobs, fails>>

-----------------------------------------------------------------------------
(* _write and _close.                                                      *)

\* A slot without a file system is EBADF; else the call goes on with what it has read.
Lookup(c, label) ==
    /\ At(c, Head(todo[c]).function) /\ ~At(c, "open")
    /\ LET i == fd[c][Name(c)]
       IN  /\ at' = [at EXCEPT ![c] = i]
           /\ IF table[i].filesystem
              THEN file' = [file EXCEPT ![c] = table[i].file] /\ Go(c, label)
              ELSE Go(c, "bad") /\ UNCHANGED file
    /\ UNCHANGED <<owner, todo, fd, mine, memory, jobs, fails>>

\* fclose forgets its descriptor whatever _close returns.
BadDescriptor(c) ==
    /\ At(c, "bad")
    /\ Return(c)
    /\ fd' = IF Head(todo[c]).function = "close" THEN [fd EXCEPT ![c][Name(c)] = None] ELSE fd
    /\ UNCHANGED <<memory, jobs, fails>>

\* _write gives the mutex back before it writes.
Write(c) == At(c, "write") /\ Lookup(c, "written")
Unlock(c) ==
    /\ At(c, "written")
    /\ owner' = Exit(c) /\ Go(c, "fs_write")
    /\ UNCHANGED <<todo, fd, at, file, mine, memory, jobs, fails>>

\* A null pointer is a fault: the core stops.
Faults(c) ==
    /\ pc[c] \in {"fs_write", "fs_close"} /\ file[c] = None
    /\ Go(c, "fault")
    /\ UNCHANGED <<owner, todo, fd, at, file, mine, memory, jobs, fails>>

FileWrite(c) ==
    /\ At(c, "fs_write") /\ file[c] # None
    /\ Forget(c)
    /\ UNCHANGED <<owner, fd, memory, jobs, fails>>

Close(c) == At(c, "close") /\ Lookup(c, "fs_close")

\* Mutant: the context is not freed.
ContextsLeft_All == contexts

ContextsLeft == contexts - 1

FileClose(c) ==
    /\ At(c, "fs_close") /\ file[c] # None
    /\ contexts' = ContextsLeft
    /\ objects' = [objects EXCEPT ![file[c]] = Free]
    /\ mine' = [mine EXCEPT ![c] = array]
    /\ fd' = [fd EXCEPT ![c][Name(c)] = None]
    /\ Go(c, "clear_fs")
    /\ UNCHANGED <<owner, todo, at, file, table, array, copy, jobs, fails>>

\* A store to an array that has been moved is lost.
Stored(c, slots) == IF mine[c] = array THEN slots ELSE table

ClearFilesystem(c) ==
    /\ At(c, "clear_fs")
    /\ table' = Stored(c, [table EXCEPT ![at[c]].filesystem = FALSE])
    /\ Go(c, "clear_file")
    /\ UNCHANGED <<owner, todo, fd, at, file, mine, array, copy, objects, contexts, jobs, fails>>

ClearFile(c) ==
    /\ At(c, "clear_file")
    /\ table' = Stored(c, [table EXCEPT ![at[c]].file = None])
    /\ Return(c)
    /\ UNCHANGED <<fd, array, copy, objects, contexts, jobs, fails>>

-----------------------------------------------------------------------------

Open(c) ==
    \/ AssignFileDescriptor(c) \/ Extend(c) \/ AllocateFile(c)
    \/ \E ok \in BOOLEAN : FileOpen(c, ok)
    \/ Opened(c) \/ OpenFailed(c)

WriteOrClose(c) ==
    \/ Write(c) \/ Unlock(c) \/ FileWrite(c)
    \/ Close(c) \/ FileClose(c) \/ ClearFilesystem(c) \/ ClearFile(c)
    \/ BadDescriptor(c) \/ Faults(c)

Step(c) == Begin(c) \/ Skip(c) \/ Enter(c) \/ Open(c) \/ WriteOrClose(c)

\* c has taken the slot that d, which has given it back, is still clearing; or c moves
\* the table while d reads it or is about to write to it.
Meets(c, d) ==
    \/ At(c, "slot") /\ At(d, "clear_file") /\ at[c] = at[d]
    \/ At(c, "grow") /\ pc[d] \in {"write", "close", "clear_fs", "clear_file"}

Next ==
    /\ \E c \in Cores : Step(c)
    /\ raced' = (raced \/ Meets(core0, core1)' \/ Meets(core1, core0)')

Spec == Init /\ [][Next]_vars

\* Each core runs, and a mutex is given to the one that waits for it.
FairSpec ==
    /\ Spec
    /\ \A c \in Cores :
        /\ WF_vars(Step(c) /\ Next)
        /\ SF_vars(Enter(c) /\ Next)

-----------------------------------------------------------------------------
(* Properties.                                                             *)

\* A descriptor that open has returned leads to the file that was opened.
DescriptorsOwn ==
    \A c \in Cores, n \in Names :
        LET i == fd[c][n] IN
        i # None => table[i].filesystem /\ table[i].file # None /\ objects[table[i].file] = <<c, n>>

\* And so does what a call has read from it before it gave the mutex back.
HandsOwn == \A c \in Cores : pc[c] \in {"fs_write", "fs_close"} => objects[file[c]] = <<c, Name(c)>>

\* A slot in use is somebody's, or about to be given back.
SlotsReturn ==
    \A i \in DOMAIN table \ Vacant : \E c \in Cores :
        \/ \E n \in Names : fd[c][n] = i
        \/ At(c, "clear_fs") /\ at[c] = i

\* Two cores may open, write and close at once, and the table may grow meanwhile: as
\* long as no slot is taken between the two stores of a close, and no call of the other
\* core is in the table when it moves, every descriptor leads to its own file and no
\* slot is lost; and each failed open costs the memory of one context, not more.
TableSound ==
    /\ ~raced => DescriptorsOwn /\ HandsOwn /\ SlotsReturn
    /\ ~raced => contexts =< fails + Cardinality({o \in DOMAIN objects : objects[o] # Free})

\* Every job ends, whatever fails, and no core waits for ever for a mutex.
FileJobsEnd == \A c \in Cores : todo[c] # <<>> ~> todo[c] = <<>> \/ raced
=============================================================================
