---------------------------- MODULE VirtualArray ----------------------------
(***************************************************************************)
(* A virtual array of jmemmgr.c: a window of rows in memory over a         *)
(* temporary file that holds the others.  The sample arrays and the        *)
(* coefficient-block arrays have the same code twice (access_virt_sarray,  *)
(* access_virt_barray); a row of either is a member of Values here.        *)
(* The file is jmemansi.c's; a build without one (jmemnobs.c) always finds *)
(* memory for the whole array, which is the largest member of Memory.      *)
(***************************************************************************)
EXTENDS Integers

CONSTANTS Rows,        \* rows_in_array
          MaxAccess,   \* maxaccess
          Memory,      \* what jpeg_mem_available can answer, in rows
          Chunks,      \* rows that one allocation chunk can hold
          Values,      \* the contents a row can have
          Zero,        \* the content of a row of zeroes
          Garbage      \* what fresh memory and a fresh file hold

ASSUME VirtualArrayAssumption ==
    /\ Rows \in Nat \ {0}
    /\ MaxAccess \in Nat \ {0}
    /\ Memory \subseteq Nat
    /\ Chunks \subseteq Nat \ {0}
    /\ Zero \in Values
    /\ Garbage \in Values

VARIABLES status,        \* "none" before the request, "live", or an error code
          preZero,       \* pre_zero
          rowsInMem,     \* rows_in_mem: the height of the window
          rowsPerChunk,  \* rowsperchunk
          bsOpen,        \* b_s_open: there is a backing store
          mem,           \* mem_buffer, by its index
          store,         \* the temporary file, by row
          curStartRow,   \* cur_start_row: the row mem_buffer[0] holds
          firstUndefRow, \* first_undef_row
          dirty,         \* dirty
          granted,       \* the rows the caller's pointer is good for
          writable       \* the last access asked to write

vars == <<status, preZero, rowsInMem, rowsPerChunk, bsOpen, mem, store,
          curStartRow, firstUndefRow, dirty, granted, writable>>
shape == <<preZero, rowsInMem, rowsPerChunk, bsOpen>>

Index == 0 .. (Rows - 1)
Slots == 0 .. (rowsInMem - 1)
Least(a, b) == IF a < b THEN a ELSE b

(* The number of maxaccess-high pieces every array may keep in memory, and *)
(* the pieces this array has.                                              *)
MaxMinHeights(avail) ==
    IF avail < MaxAccess THEN 1 ELSE avail \div MaxAccess
MinHeights == (Rows - 1) \div MaxAccess + 1
Fits(avail) == avail >= Rows \/ MinHeights <= MaxMinHeights(avail)

Init ==
    /\ status = "none"
    /\ preZero = FALSE
    /\ rowsInMem = 0
    /\ rowsPerChunk = 1
    /\ bsOpen = FALSE
    /\ mem = [k \in {} |-> Garbage]
    /\ store = [r \in Index |-> Garbage]
    /\ curStartRow = 0
    /\ firstUndefRow = 0
    /\ dirty = FALSE
    /\ granted = {}
    /\ writable = FALSE

(* request_virt_barray, then realize_virt_arrays: the whole array when it  *)
(* fits in memory, or as many rows as its share allows and a file.         *)
Request(zeroed, avail, chunk) ==
    /\ status = "none"
    /\ status' = "live"
    /\ preZero' = zeroed
    /\ rowsInMem' = IF Fits(avail) THEN Rows ELSE MaxMinHeights(avail) * MaxAccess
    /\ bsOpen' = ~Fits(avail)
    /\ rowsPerChunk' = Least(chunk, rowsInMem')
    /\ mem' = [k \in 0 .. (rowsInMem' - 1) |-> Garbage]
    /\ store' = [r \in Index |-> Garbage]
    /\ curStartRow' = 0
    /\ firstUndefRow' = 0
    /\ dirty' = FALSE
    /\ granted' = {}
    /\ writable' = FALSE

(* The rows one chunk of the buffer moves to or from the file: no more     *)
(* than the chunk has, than are defined, or than the file holds.           *)
RowsMoved(first, start) ==
    Least(Least(rowsPerChunk, rowsInMem - first),
          Least(firstUndefRow - (start + first), Rows - (start + first)))

(* do_barray_io over every chunk, with the window at start: the slots it   *)
(* moves.  A chunk that comes out short is the last one.                   *)
Transfers(start, k) ==
    LET first == rowsPerChunk * (k \div rowsPerChunk)
    IN  k < first + RowsMoved(first, start)

(* A row of the file after the flush, made while the window is still at    *)
(* curStartRow.                                                            *)
Flushed(r) ==
    IF dirty /\ r - curStartRow \in Slots /\ Transfers(curStartRow, r - curStartRow)
    THEN mem[r - curStartRow] ELSE store[r]

(* Mutant: the last row of the window is miscounted.                       *)
OutsideWindowLate(start, end) ==
    start < curStartRow \/ end > curStartRow + rowsInMem + 1

OutsideWindow(start, end) ==
    start < curStartRow \/ end > curStartRow + rowsInMem

(* Forward: load from the first row asked for.  Backward: so that the rows *)
(* asked for are the last of the window, or from row 0.                    *)
NewStart(start, end) ==
    IF start > curStartRow THEN start
    ELSE IF end < rowsInMem THEN 0 ELSE end - rowsInMem

(* The window an access ends with, and what the buffer and the file hold   *)
(* once it has moved there.                                                *)
Window(start, end) ==
    IF OutsideWindow(start, end) THEN NewStart(start, end) ELSE curStartRow
Buffer(start, end, k) ==
    IF OutsideWindow(start, end) /\ Transfers(NewStart(start, end), k)
    THEN Flushed(NewStart(start, end) + k) ELSE mem[k]
Move(start, end) ==
    /\ curStartRow' = Window(start, end)
    /\ store' = IF OutsideWindow(start, end) THEN [r \in Index |-> Flushed(r)]
                ELSE store

BeyondTheArray(end, num) == end > Rows \/ num > MaxAccess

(* The errors found before the window moves: a bad access, or a window     *)
(* that must move and has no file to move over, JERR_VIRTUAL_BUG.          *)
ErrorAtOnce(start, num) ==
    IF BeyondTheArray(start + num, num) THEN "bad_access"
    ELSE IF OutsideWindow(start, start + num) /\ ~bsOpen THEN "virtual_bug"
    ELSE "none"

(* A writer that skips rows, or a reader of rows nobody wrote.             *)
Undefined(start, end, write) ==
    /\ firstUndefRow < end
    /\ IF write THEN firstUndefRow < start ELSE ~preZero

(* Mutant: an access that reaches undefined rows zeroes all its rows.      *)
ToZeroAll(start, end, r) ==
    preZero /\ r \in start .. (end - 1) /\ firstUndefRow < end

(* The rows of the access that are zeroed: those not defined before it.    *)
ToZero(start, end, r) == preZero /\ r \in start .. (end - 1) /\ r >= firstUndefRow

DefinedAfter(end, write) ==
    IF write /\ firstUndefRow < end THEN end ELSE firstUndefRow

DirtyAfter(start, end, write) ==
    write \/ (dirty /\ ~OutsideWindow(start, end))

(* access_virt_barray that returns a pointer.  The pointers of earlier     *)
(* accesses are void: the window may have moved.                           *)
Access(start, num, write) ==
    LET end == start + num
    IN  /\ status = "live"
        /\ ErrorAtOnce(start, num) = "none"
        /\ ~Undefined(start, end, write)
        /\ Move(start, end)
        /\ mem' = [k \in Slots |-> IF ToZero(start, end, Window(start, end) + k)
                                   THEN Zero ELSE Buffer(start, end, k)]
        /\ firstUndefRow' = DefinedAfter(end, write)
        /\ dirty' = DirtyAfter(start, end, write)
        /\ granted' = start .. (end - 1)
        /\ writable' = write
        /\ UNCHANGED <<status, shape>>

Fails(error) ==
    /\ status' = error
    /\ granted' = {}
    /\ UNCHANGED <<shape, firstUndefRow, writable>>

RefuseAtOnce(start, num) ==
    /\ status = "live"
    /\ ErrorAtOnce(start, num) # "none"
    /\ Fails(ErrorAtOnce(start, num))
    /\ UNCHANGED <<mem, store, curStartRow, dirty>>

(* The checks after the window has moved.                                  *)
RefuseAfterMove(start, num, write) ==
    LET end == start + num
    IN  /\ status = "live"
        /\ ErrorAtOnce(start, num) = "none"
        /\ Undefined(start, end, write)
        /\ Move(start, end)
        /\ mem' = [k \in Slots |-> Buffer(start, end, k)]
        /\ dirty' = (dirty /\ ~OutsideWindow(start, end))
        /\ Fails("bad_access")

(* A seek, a read or a write of the file fails: the error exit leaves the  *)
(* window half moved, and nothing reads it again before it is freed.       *)
FileFails(start, num) ==
    /\ status = "live"
    /\ ErrorAtOnce(start, num) = "none"
    /\ OutsideWindow(start, start + num)
    /\ Fails("file_error")
    /\ UNCHANGED <<mem, store, curStartRow, dirty>>

(* The caller stores a row through the pointer it holds.                   *)
Write(r, v) ==
    /\ status = "live"
    /\ writable
    /\ r \in granted
    /\ mem' = [mem EXCEPT ![r - curStartRow] = v]
    /\ UNCHANGED <<status, shape, store, curStartRow, firstUndefRow, dirty,
                   granted, writable>>

(* free_pool of the image pool: the file is closed, the array forgotten.   *)
FreePool ==
    /\ status # "none"
    /\ status' = "none"
    /\ preZero' = FALSE
    /\ rowsInMem' = 0
    /\ rowsPerChunk' = 1
    /\ bsOpen' = FALSE
    /\ mem' = [k \in {} |-> Garbage]
    /\ store' = [r \in Index |-> Garbage]
    /\ curStartRow' = 0
    /\ firstUndefRow' = 0
    /\ dirty' = FALSE
    /\ granted' = {}
    /\ writable' = FALSE

Next ==
    \/ \E zeroed \in BOOLEAN, avail \in Memory, chunk \in Chunks :
          Request(zeroed, avail, chunk)
    \/ \E start \in 0 .. Rows, num \in 1 .. (MaxAccess + 1), write \in BOOLEAN :
          \/ Access(start, num, write)
          \/ RefuseAtOnce(start, num)
          \/ RefuseAfterMove(start, num, write)
          \/ FileFails(start, num)
    \/ \E r \in Index, v \in Values : Write(r, v)
    \/ FreePool

Spec == Init /\ [][Next]_vars

-----------------------------------------------------------------------------
(* Every field of the control block has its range: the window starts in    *)
(* the array and only as many rows are defined as the array has.           *)
TypeOK ==
    /\ status \in {"none", "live", "bad_access", "virtual_bug", "file_error"}
    /\ preZero \in BOOLEAN
    /\ rowsInMem \in Nat
    /\ rowsPerChunk \in Nat \ {0}
    /\ bsOpen \in BOOLEAN
    /\ mem \in [Slots -> Values]
    /\ store \in [Index -> Values]
    /\ curStartRow \in Nat
    /\ firstUndefRow \in 0 .. Rows
    /\ dirty \in BOOLEAN
    /\ granted \subseteq Index
    /\ writable \in BOOLEAN

InWindow(r) == r - curStartRow \in Slots

(* A window smaller than the array has a file behind it and is as high as  *)
(* the largest access; without a file it starts at row 0 and holds all.    *)
WindowIsBacked ==
    status # "none" =>
        /\ rowsInMem >= MaxAccess \/ rowsInMem >= Rows
        /\ ~bsOpen => rowsInMem = Rows /\ curStartRow = 0

(* The pointer an access returned stays good until the next access: every  *)
(* row of it is in the buffer, and a writer's rows are marked to be saved. *)
PointerIsGood ==
    /\ \A r \in granted : InWindow(r)
    /\ writable /\ granted # {} => dirty /\ \A r \in granted : r < firstUndefRow
    /\ \A r \in granted : r >= firstUndefRow => mem[r - curStartRow] = Zero
    /\ granted # {} => status = "live"

(* A clean window holds what the file holds, so moving it away loses       *)
(* nothing.                                                                *)
CleanIsSaved ==
    ~dirty => \A k \in Slots : curStartRow + k < firstUndefRow
                                  => mem[k] = store[curStartRow + k]

(* The array never needs a file it did not open: JERR_VIRTUAL_BUG, which   *)
(* the code reports as its own mistake, is never raised.                   *)
NoVirtualBug == status # "virtual_bug"

(* However the window moves, its parts stay in step: the rows it covers,   *)
(* the file behind it, the flag that says what must be saved, and the      *)
(* pointer the caller was given.                                           *)
WindowIsSafe ==
    TypeOK /\ WindowIsBacked /\ PointerIsGood /\ CleanIsSaved /\ NoVirtualBug

-----------------------------------------------------------------------------
(* The array its callers see: a defined row is where the window or the     *)
(* file has it, a row nobody was given to write is a row of zeroes.        *)
RowOf(r) == IF r >= firstUndefRow THEN Zero
            ELSE IF InWindow(r) THEN mem[r - curStartRow] ELSE store[r]

Plain == INSTANCE RowArray
            WITH rows    <- [r \in Index |-> RowOf(r)],
                 defined <- firstUndefRow,
                 view    <- [r \in granted |-> mem[r - curStartRow]]

(* Whatever order the rows are read and written in, wherever the window    *)
(* moves and however small the memory is, every access finds in each row   *)
(* what was last stored there, is refused exactly when it is misused, and  *)
(* a moved window loses no row: the virtual array is a plain array.        *)
BehavesAsPlainArray == Plain!Spec
=============================================================================
