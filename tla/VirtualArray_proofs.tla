------------------------- MODULE VirtualArray_proofs -------------------------
(***************************************************************************)
(* The virtual array of jmemmgr.c keeps its rows, for every size of array, *)
(* access, memory and chunk: VirtualArray implements RowArray.             *)
(***************************************************************************)
EXTENDS VirtualArray, TLAPS

(* The invariants of the run vmem are inductive together.                  *)
IInv ==
    /\ TypeOK
    /\ WindowIsBacked
    /\ PointerIsGood
    /\ CleanIsSaved
    /\ NoVirtualBug

(* The chunk a slot is in begins at or before it and reaches beyond it.    *)
LEMMA ChunkHoldsSlot ==
    ASSUME NEW c \in Nat \ {0}, NEW k \in Nat
    PROVE  /\ c * (k \div c) \in Nat
           /\ c * (k \div c) <= k
           /\ k < c * (k \div c) + c
<1>1. k = c * (k \div c) + (k % c) /\ k % c \in 0 .. (c - 1)
  OBVIOUS
<1>2. k \div c \in Nat
  OBVIOUS
<1>3. c * (k \div c) \in Nat
  BY <1>2
<1>. QED  BY <1>1, <1>3

(* The loop over the chunks moves the defined rows of the window, all of   *)
(* them and nothing else.                                                  *)
LEMMA TransfersTheDefined ==
    ASSUME TypeOK, NEW start \in Nat, NEW k \in Slots
    PROVE  Transfers(start, k) <=> start + k < firstUndefRow
<1>. DEFINE first == rowsPerChunk * (k \div rowsPerChunk)
<1>1. k \in Nat /\ k < rowsInMem /\ rowsPerChunk \in Nat \ {0} /\ rowsInMem \in Nat
  BY DEF TypeOK, Slots
<1>2. first \in Nat /\ first <= k /\ k < first + rowsPerChunk
  BY <1>1, ChunkHoldsSlot
<1>3. firstUndefRow \in Nat /\ firstUndefRow <= Rows /\ Rows \in Nat
  BY VirtualArrayAssumption DEF TypeOK
<1>. HIDE DEF first
<1>4. k < first + RowsMoved(first, start) <=> start + k < firstUndefRow
  BY <1>1, <1>2, <1>3 DEF RowsMoved, Least
<1>. QED  BY <1>4 DEF Transfers, first

(* The flush leaves every defined row in the file.                         *)
LEMMA FlushedIsRow ==
    ASSUME IInv, NEW r \in Index, r < firstUndefRow
    PROVE  Flushed(r) = RowOf(r)
<1>1. curStartRow \in Nat /\ firstUndefRow \in Nat /\ r \in Nat
  BY VirtualArrayAssumption DEF IInv, TypeOK, Index
<1>2. CASE InWindow(r)
  <2>. DEFINE k == r - curStartRow
  <2>1. k \in Slots /\ curStartRow + k = r
    BY <1>1, <1>2 DEF InWindow
  <2>2. Transfers(curStartRow, k)
    BY <1>1, <2>1, TransfersTheDefined DEF IInv
  <2>3. ~dirty => mem[k] = store[r]
    BY <2>1 DEF IInv, CleanIsSaved
  <2>. QED  BY <1>1, <1>2, <2>1, <2>2, <2>3 DEF Flushed, RowOf
<1>3. CASE ~InWindow(r)
  BY <1>1, <1>3 DEF Flushed, RowOf, InWindow
<1>. QED  BY <1>2, <1>3

(* An access that is not refused at once, and where the window is then: it *)
(* holds the rows asked for, and without a file it has not moved.          *)
LEMMA WindowHoldsAccess ==
    ASSUME IInv, status = "live",
           NEW start \in 0 .. Rows, NEW num \in 1 .. (MaxAccess + 1),
           ErrorAtOnce(start, num) = "none"
    PROVE  /\ start + num <= Rows
           /\ Window(start, start + num) \in Nat
           /\ Window(start, start + num) <= start
           /\ start + num <= Window(start, start + num) + rowsInMem
           /\ ~bsOpen => Window(start, start + num) = 0
<1>. DEFINE end == start + num
<1>1. end \in Nat /\ start \in Nat /\ curStartRow \in Nat /\ rowsInMem \in Nat
  BY VirtualArrayAssumption DEF IInv, TypeOK
<1>2. end <= Rows /\ num <= MaxAccess /\ num >= 1
      /\ (OutsideWindow(start, end) => bsOpen)
  BY <1>1, VirtualArrayAssumption DEF ErrorAtOnce, BeyondTheArray, IInv, TypeOK
<1>3. /\ rowsInMem >= MaxAccess \/ rowsInMem >= Rows
      /\ ~bsOpen => rowsInMem = Rows /\ curStartRow = 0
  BY DEF IInv, WindowIsBacked
<1>4. CASE OutsideWindow(start, end)
  <2>1. NewStart(start, end) \in Nat /\ NewStart(start, end) <= start
        /\ end <= NewStart(start, end) + rowsInMem
    BY <1>1, <1>2, <1>3, VirtualArrayAssumption DEF NewStart
  <2>. QED  BY <1>2, <1>4, <2>1 DEF Window
<1>5. CASE ~OutsideWindow(start, end)
  BY <1>1, <1>2, <1>3, <1>5 DEF Window, OutsideWindow
<1>. QED  BY <1>4, <1>5

(* Wherever the window is put, every defined row in it is in the buffer.   *)
LEMMA BufferIsRow ==
    ASSUME IInv, status = "live",
           NEW start \in 0 .. Rows, NEW num \in 1 .. (MaxAccess + 1),
           ErrorAtOnce(start, num) = "none",
           NEW k \in Slots, Window(start, start + num) + k < firstUndefRow
    PROVE  Buffer(start, start + num, k) = RowOf(Window(start, start + num) + k)
<1>. DEFINE end == start + num
            at == Window(start, end)
<1>1. at \in Nat /\ k \in Nat /\ curStartRow \in Nat /\ firstUndefRow \in 0 .. Rows
  BY WindowHoldsAccess DEF IInv, TypeOK, Slots
<1>2. at + k \in Index
  BY <1>1, VirtualArrayAssumption DEF Index
<1>3. CASE OutsideWindow(start, end)
  <2>1. at = NewStart(start, end)
    BY <1>3 DEF Window
  <2>2. Transfers(at, k)
    BY <1>1, TransfersTheDefined DEF IInv
  <2>3. Flushed(at + k) = RowOf(at + k)
    BY <1>2, FlushedIsRow
  <2>. QED  BY <1>3, <2>1, <2>2, <2>3 DEF Buffer
<1>4. CASE ~OutsideWindow(start, end)
  <2>1. at = curStartRow /\ Buffer(start, end, k) = mem[k]
    BY <1>4 DEF Window, Buffer
  <2>2. (at + k) - curStartRow = k
    BY <1>1, <2>1
  <2>. QED  BY <1>1, <2>1, <2>2, VirtualArrayAssumption DEF RowOf, InWindow
<1>. QED  BY <1>3, <1>4

-----------------------------------------------------------------------------
(* The invariant *)

(* The window that realize_virt_arrays allows has room for an access.      *)
LEMMA RoomForAnAccess ==
    ASSUME NEW avail \in Nat
    PROVE  /\ MaxMinHeights(avail) * MaxAccess \in Nat
           /\ MaxMinHeights(avail) * MaxAccess >= MaxAccess
<1>. DEFINE h == MaxMinHeights(avail)
<1>1. h \in Nat /\ h >= 1
  <2>1. CASE avail < MaxAccess
    BY <2>1 DEF MaxMinHeights
  <2>2. CASE ~(avail < MaxAccess)
    <3>1. MaxAccess * (avail \div MaxAccess) <= avail
          /\ avail < MaxAccess * (avail \div MaxAccess) + MaxAccess
      BY VirtualArrayAssumption, ChunkHoldsSlot
    <3>2. avail \div MaxAccess \in Nat
      BY VirtualArrayAssumption
    <3>3. avail \div MaxAccess # 0
      BY <2>2, <3>1, VirtualArrayAssumption
    <3>. QED  BY <2>2, <3>2, <3>3 DEF MaxMinHeights
  <2>. QED  BY <2>1, <2>2
<1>. HIDE DEF h
<1>2. h * MaxAccess \in Nat /\ h * MaxAccess >= MaxAccess
  <2>1. \A b \in Nat : h * b >= b
    BY <1>1
  <2>. QED  BY <1>1, <2>1, VirtualArrayAssumption
<1>. QED  BY <1>2 DEF h

LEMMA InitIInv == Init => IInv
<1>. SUFFICES ASSUME Init PROVE IInv
  OBVIOUS
<1>1. Slots = {}
  BY DEF Init, Slots
<1>2. TypeOK
  <2>1. mem \in [Slots -> Values] /\ store \in [Index -> Values]
    BY <1>1, VirtualArrayAssumption DEF Init
  <2>2. /\ status = "none" /\ rowsInMem \in Nat /\ rowsPerChunk \in Nat \ {0}
        /\ curStartRow \in Nat /\ granted \subseteq Index
    BY DEF Init
  <2>3. preZero \in BOOLEAN /\ bsOpen \in BOOLEAN /\ dirty \in BOOLEAN /\ writable \in BOOLEAN
    BY DEF Init
  <2>4. firstUndefRow \in 0 .. Rows
    BY VirtualArrayAssumption DEF Init
  <2>. QED  BY <2>1, <2>2, <2>3, <2>4 DEF TypeOK
<1>. QED
  BY <1>1, <1>2
     DEF Init, IInv, WindowIsBacked, PointerIsGood, CleanIsSaved, NoVirtualBug

LEMMA RequestIInv ==
    ASSUME IInv, NEW zeroed \in BOOLEAN, NEW avail \in Memory, NEW chunk \in Chunks,
           Request(zeroed, avail, chunk)
    PROVE  IInv'
<1>1. rowsInMem' \in Nat /\ rowsInMem' >= 1
      /\ (rowsInMem' >= MaxAccess \/ rowsInMem' >= Rows)
      /\ (~bsOpen' => rowsInMem' = Rows)
  <2>1. avail \in Nat
    BY VirtualArrayAssumption
  <2>2. CASE Fits(avail)
    BY <2>2, VirtualArrayAssumption DEF Request
  <2>3. CASE ~Fits(avail)
    <3>1. rowsInMem' = MaxMinHeights(avail) * MaxAccess /\ bsOpen'
      BY <2>3 DEF Request
    <3>2. rowsInMem' \in Nat /\ rowsInMem' >= MaxAccess
      BY <2>1, <3>1, RoomForAnAccess
    <3>. QED  BY <3>1, <3>2, VirtualArrayAssumption
  <2>. QED  BY <2>2, <2>3
<1>2. chunk \in Nat \ {0}
  BY VirtualArrayAssumption
<1>3. rowsPerChunk' \in Nat \ {0}
  BY <1>1, <1>2 DEF Request, Least
<1>4. mem' \in [Slots' -> Values] /\ store' \in [Index -> Values]
  BY VirtualArrayAssumption DEF Request, Slots
<1>5. TypeOK'
  <2>1. bsOpen' \in BOOLEAN
    BY DEF Request
  <2>2. /\ status' = "live" /\ preZero' \in BOOLEAN /\ curStartRow' \in Nat
        /\ dirty' \in BOOLEAN /\ granted' \subseteq Index /\ writable' \in BOOLEAN
    BY DEF Request
  <2>3. firstUndefRow' \in 0 .. Rows
    BY VirtualArrayAssumption DEF Request
  <2>. QED  BY <1>1, <1>3, <1>4, <2>1, <2>2, <2>3 DEF TypeOK
<1>6. WindowIsBacked'
  BY <1>1 DEF Request, WindowIsBacked
<1>7. PointerIsGood' /\ NoVirtualBug'
  BY DEF Request, PointerIsGood, NoVirtualBug
<1>8. CleanIsSaved'
  BY <1>1 DEF Request, CleanIsSaved, Slots
<1>. QED  BY <1>5, <1>6, <1>7, <1>8 DEF IInv

(* What a move of the window leaves alone, when nothing is zeroed yet.     *)
LEMMA MoveIInv ==
    ASSUME IInv, status = "live",
           NEW start \in 0 .. Rows, NEW num \in 1 .. (MaxAccess + 1),
           ErrorAtOnce(start, num) = "none",
           Move(start, start + num)
    PROVE  /\ \A k \in Slots : Buffer(start, start + num, k) \in Values
           /\ store' \in [Index -> Values]
           /\ ~(dirty /\ ~OutsideWindow(start, start + num)) =>
                 \A k \in Slots : curStartRow' + k < firstUndefRow
                    => Buffer(start, start + num, k) = store'[curStartRow' + k]
<1>. DEFINE end == start + num
            at == Window(start, end)
<1>1. /\ mem \in [Slots -> Values] /\ store \in [Index -> Values]
      /\ curStartRow \in Nat /\ firstUndefRow \in 0 .. Rows
      /\ at \in Nat /\ curStartRow' = at /\ Rows \in Nat
  BY WindowHoldsAccess, VirtualArrayAssumption DEF IInv, TypeOK, Move
<1>2. \A r \in Index : Flushed(r) \in Values
  BY <1>1 DEF Flushed
<1>3. ASSUME NEW k \in Slots, at + k < firstUndefRow
      PROVE  at + k \in Index
  BY <1>1, <1>3 DEF Slots, Index
<1>4. CASE OutsideWindow(start, end)
  <2>1. at = NewStart(start, end) /\ store' = [r \in Index |-> Flushed(r)]
    BY <1>4 DEF Window, Move
  <2>2. ASSUME NEW k \in Slots
        PROVE  Transfers(at, k) <=> at + k < firstUndefRow
    BY <1>1, <2>2, TransfersTheDefined DEF IInv
  <2>3. ASSUME NEW k \in Slots
        PROVE  Buffer(start, end, k) \in Values
    BY <1>1, <1>2, <1>3, <1>4, <2>1, <2>2, <2>3 DEF Buffer
  <2>4. ASSUME NEW k \in Slots, at + k < firstUndefRow
        PROVE  Buffer(start, end, k) = store'[at + k]
    BY <1>3, <1>4, <2>1, <2>2, <2>4 DEF Buffer
  <2>. QED  BY <1>1, <1>2, <2>1, <2>3, <2>4
<1>5. CASE ~OutsideWindow(start, end)
  BY <1>1, <1>5 DEF Window, Move, Buffer, IInv, CleanIsSaved
<1>. QED  BY <1>4, <1>5

LEMMA AccessIInv ==
    ASSUME IInv, NEW start \in 0 .. Rows, NEW num \in 1 .. (MaxAccess + 1),
           NEW write \in BOOLEAN, Access(start, num, write)
    PROVE  IInv'
<1>. DEFINE end == start + num
            at == Window(start, end)
<1>1. /\ status = "live" /\ status' = "live"
      /\ ErrorAtOnce(start, num) = "none" /\ ~Undefined(start, end, write)
      /\ Move(start, end)
      /\ curStartRow' = at
      /\ mem' = [k \in Slots |-> IF ToZero(start, end, at + k) THEN Zero
                                 ELSE Buffer(start, end, k)]
      /\ firstUndefRow' = DefinedAfter(end, write)
      /\ dirty' = DirtyAfter(start, end, write)
      /\ granted' = start .. (end - 1) /\ writable' = write
      /\ UNCHANGED shape
  BY DEF Access, Move
<1>2. /\ at \in Nat /\ at <= start /\ end <= at + rowsInMem /\ end <= Rows
      /\ ~bsOpen => at = 0
      /\ start \in Nat /\ end \in Nat
  BY <1>1, WindowHoldsAccess, VirtualArrayAssumption
<1>3. /\ \A k \in Slots : Buffer(start, end, k) \in Values
      /\ store' \in [Index -> Values]
      /\ ~(dirty /\ ~OutsideWindow(start, end)) =>
            \A k \in Slots : at + k < firstUndefRow
               => Buffer(start, end, k) = store'[at + k]
  BY <1>1, MoveIInv
<1>4. Slots' = Slots /\ rowsInMem \in Nat /\ firstUndefRow \in Nat /\ firstUndefRow <= Rows
  BY <1>1, VirtualArrayAssumption DEF Slots, shape, IInv, TypeOK
<1>. HIDE DEF at, end
<1>5. TypeOK'
  <2>1. mem' \in [Slots -> Values]
    BY <1>1, <1>3, VirtualArrayAssumption
  <2>2. firstUndefRow' \in 0 .. Rows
    BY <1>1, <1>2, <1>4, VirtualArrayAssumption DEF DefinedAfter
  <2>3. granted' \subseteq Index
    BY <1>1, <1>2, VirtualArrayAssumption DEF Index
  <2>4. dirty' \in BOOLEAN
    BY <1>1 DEF DirtyAfter, IInv, TypeOK
  <2>. QED  BY <1>1, <1>2, <1>3, <1>4, <2>1, <2>2, <2>3, <2>4 DEF TypeOK, shape, IInv
<1>6. WindowIsBacked'
  BY <1>1, <1>2 DEF WindowIsBacked, IInv, shape
<1>7. PointerIsGood'
  <2>1. ASSUME NEW r \in granted'
        PROVE  /\ InWindow(r)' /\ r - at \in Slots /\ at + (r - at) = r
               /\ r \in start .. (end - 1) /\ r \in Nat
    <3>1. r \in start .. (end - 1) /\ r \in Nat
      BY <1>1, <1>2, <2>1
    <3>2. r - at \in Slots /\ at + (r - at) = r
      BY <1>2, <1>4, <3>1 DEF Slots
    <3>. QED  BY <1>1, <1>4, <3>1, <3>2 DEF InWindow
  <2>2. ASSUME NEW r \in granted', r >= firstUndefRow'
        PROVE  mem'[r - at] = Zero
    <3>1. r \in start .. (end - 1) /\ r - at \in Slots /\ at + (r - at) = r
      BY <2>1
    <3>2. r >= firstUndefRow /\ ~write
      BY <1>1, <1>2, <1>4, <2>2, <3>1 DEF DefinedAfter
    <3>3. preZero
      BY <1>1, <1>2, <1>4, <3>1, <3>2 DEF Undefined
    <3>. QED  BY <1>1, <3>1, <3>2, <3>3 DEF ToZero
  <2>3. writable' => dirty' /\ \A r \in granted' : r < firstUndefRow'
    <3>. SUFFICES ASSUME writable'
                  PROVE  dirty' /\ \A r \in granted' : r < firstUndefRow'
      OBVIOUS
    <3>1. write /\ dirty'
      BY <1>1 DEF DirtyAfter
    <3>2. end <= firstUndefRow' /\ firstUndefRow' \in Nat
      BY <1>1, <1>2, <1>4, <3>1 DEF DefinedAfter
    <3>. QED  BY <1>2, <2>1, <3>1, <3>2
  <2>. QED  BY <1>1, <2>1, <2>2, <2>3 DEF PointerIsGood
<1>8. CleanIsSaved'
  <2>. SUFFICES ASSUME ~dirty', NEW k \in Slots, at + k < firstUndefRow'
                PROVE  mem'[k] = store'[at + k]
    BY <1>1, <1>4 DEF CleanIsSaved
  <2>1. ~write /\ ~(dirty /\ ~OutsideWindow(start, end)) /\ at + k < firstUndefRow
    BY <1>1 DEF DirtyAfter, DefinedAfter
  <2>2. ~ToZero(start, end, at + k)
    BY <1>2, <1>4, <2>1 DEF ToZero, Slots
  <2>. QED  BY <1>1, <1>3, <2>1, <2>2
<1>9. NoVirtualBug'
  BY <1>1 DEF NoVirtualBug
<1>. QED  BY <1>5, <1>6, <1>7, <1>8, <1>9 DEF IInv

(* The errors: the code's own is never one of them.                        *)
LEMMA NeverVirtualBug ==
    ASSUME IInv, status = "live",
           NEW start \in 0 .. Rows, NEW num \in 1 .. (MaxAccess + 1)
    PROVE  /\ ErrorAtOnce(start, num) # "virtual_bug"
           /\ ErrorAtOnce(start, num) = "none" <=> ~BeyondTheArray(start + num, num)
<1>. DEFINE end == start + num
<1>1. end \in Nat /\ start \in Nat
  BY VirtualArrayAssumption
<1>2. ~bsOpen => rowsInMem = Rows /\ curStartRow = 0
  BY DEF IInv, WindowIsBacked
<1>3. ~BeyondTheArray(end, num) /\ OutsideWindow(start, end) => bsOpen
  BY <1>1, <1>2, VirtualArrayAssumption DEF BeyondTheArray, OutsideWindow
<1>. QED  BY <1>3 DEF ErrorAtOnce

LEMMA RefuseAtOnceIInv ==
    ASSUME IInv, NEW start \in 0 .. Rows, NEW num \in 1 .. (MaxAccess + 1),
           RefuseAtOnce(start, num)
    PROVE  IInv' /\ status' = "bad_access" /\ BeyondTheArray(start + num, num)
<1>1. status' = "bad_access" /\ BeyondTheArray(start + num, num)
  BY NeverVirtualBug DEF RefuseAtOnce, Fails, ErrorAtOnce
<1>2. /\ granted' = {}
      /\ UNCHANGED <<shape, firstUndefRow, writable, mem, store, curStartRow, dirty>>
  BY DEF RefuseAtOnce, Fails
<1>3. status # "none" /\ Slots' = Slots
  BY <1>2 DEF RefuseAtOnce, Slots, shape
<1>. QED
  BY <1>1, <1>2, <1>3 DEF IInv, TypeOK, WindowIsBacked, PointerIsGood, CleanIsSaved,
                          NoVirtualBug, shape

LEMMA FileFailsIInv ==
    ASSUME IInv, NEW start \in 0 .. Rows, NEW num \in 1 .. (MaxAccess + 1),
           FileFails(start, num)
    PROVE  IInv'
<1>1. /\ granted' = {} /\ status' = "file_error"
      /\ UNCHANGED <<shape, firstUndefRow, writable, mem, store, curStartRow, dirty>>
  BY DEF FileFails, Fails
<1>2. status # "none" /\ Slots' = Slots
  BY <1>1 DEF FileFails, Slots, shape
<1>. QED
  BY <1>1, <1>2 DEF IInv, TypeOK, WindowIsBacked, PointerIsGood, CleanIsSaved,
                    NoVirtualBug, shape

LEMMA RefuseAfterMoveIInv ==
    ASSUME IInv, NEW start \in 0 .. Rows, NEW num \in 1 .. (MaxAccess + 1),
           NEW write \in BOOLEAN, RefuseAfterMove(start, num, write)
    PROVE  IInv'
<1>. DEFINE end == start + num
<1>1. /\ status = "live" /\ status' = "bad_access" /\ granted' = {}
      /\ ErrorAtOnce(start, num) = "none" /\ Move(start, end)
      /\ mem' = [k \in Slots |-> Buffer(start, end, k)]
      /\ dirty' = (dirty /\ ~OutsideWindow(start, end))
      /\ curStartRow' = Window(start, end)
      /\ UNCHANGED <<shape, firstUndefRow, writable>>
  BY DEF RefuseAfterMove, Fails, Move
<1>2. /\ \A k \in Slots : Buffer(start, end, k) \in Values
      /\ store' \in [Index -> Values]
      /\ ~dirty' => \A k \in Slots : curStartRow' + k < firstUndefRow
                                      => Buffer(start, end, k) = store'[curStartRow' + k]
  BY <1>1, MoveIInv
<1>3. curStartRow' \in Nat /\ (~bsOpen => curStartRow' = 0)
  BY <1>1, WindowHoldsAccess
<1>4. Slots' = Slots
  BY <1>1 DEF Slots, shape
<1>5. TypeOK'
  <2>1. mem' \in [Slots -> Values]
    BY <1>1, <1>2
  <2>2. dirty' \in BOOLEAN
    BY <1>1 DEF IInv, TypeOK
  <2>. QED  BY <1>1, <1>2, <1>3, <1>4, <2>1, <2>2 DEF IInv, TypeOK, shape
<1>6. CleanIsSaved'
  BY <1>1, <1>2, <1>4 DEF CleanIsSaved
<1>. QED
  BY <1>1, <1>3, <1>5, <1>6
     DEF IInv, WindowIsBacked, PointerIsGood, NoVirtualBug, shape

LEMMA WriteIInv ==
    ASSUME IInv, NEW r \in Index, NEW v \in Values, Write(r, v)
    PROVE  IInv'
<1>1. /\ status = "live" /\ writable /\ r \in granted
      /\ mem' = [mem EXCEPT ![r - curStartRow] = v]
      /\ UNCHANGED <<status, shape, store, curStartRow, firstUndefRow, dirty,
                     granted, writable>>
  BY DEF Write
<1>2. Slots' = Slots /\ r - curStartRow \in Slots
  BY <1>1 DEF Slots, shape, IInv, PointerIsGood, InWindow
<1>3. dirty /\ \A q \in granted : q < firstUndefRow
  BY <1>1 DEF IInv, PointerIsGood
<1>4. granted \subseteq Nat /\ firstUndefRow \in Nat
  BY VirtualArrayAssumption DEF IInv, TypeOK, Index
<1>5. TypeOK'
  <2>1. mem' \in [Slots -> Values]
    BY <1>1, <1>2 DEF IInv, TypeOK
  <2>. QED  BY <1>1, <1>2, <2>1 DEF IInv, TypeOK, shape
<1>6. PointerIsGood'
  BY <1>1, <1>2, <1>3, <1>4 DEF IInv, PointerIsGood, InWindow
<1>. QED
  BY <1>1, <1>3, <1>5, <1>6
     DEF IInv, WindowIsBacked, CleanIsSaved, NoVirtualBug, shape

LEMMA FreePoolIInv ==
    ASSUME IInv, FreePool
    PROVE  IInv'
<1>1. Slots' = {}
  BY DEF FreePool, Slots
<1>2. TypeOK'
  <2>1. mem' \in [Slots' -> Values] /\ store' \in [Index -> Values]
    BY <1>1, VirtualArrayAssumption DEF FreePool
  <2>2. /\ status' = "none" /\ rowsInMem' \in Nat /\ rowsPerChunk' \in Nat \ {0}
        /\ curStartRow' \in Nat /\ granted' \subseteq Index
    BY DEF FreePool
  <2>3. /\ preZero' \in BOOLEAN /\ bsOpen' \in BOOLEAN /\ dirty' \in BOOLEAN
        /\ writable' \in BOOLEAN
    BY DEF FreePool
  <2>4. firstUndefRow' \in 0 .. Rows
    BY VirtualArrayAssumption DEF FreePool
  <2>. QED  BY <2>1, <2>2, <2>3, <2>4 DEF TypeOK
<1>. QED
  BY <1>1, <1>2
     DEF FreePool, IInv, WindowIsBacked, PointerIsGood, CleanIsSaved, NoVirtualBug

LEMMA StutterIInv == IInv /\ UNCHANGED vars => IInv'
  BY DEF IInv, TypeOK, WindowIsBacked, PointerIsGood, CleanIsSaved, NoVirtualBug, vars,
         Slots, InWindow

LEMMA NextIInv == IInv /\ [Next]_vars => IInv'
<1>. SUFFICES ASSUME IInv, Next PROVE IInv'
  BY StutterIInv
<1>1. CASE \E zeroed \in BOOLEAN, avail \in Memory, chunk \in Chunks :
               Request(zeroed, avail, chunk)
  BY <1>1, RequestIInv
<1>2. ASSUME NEW start \in 0 .. Rows, NEW num \in 1 .. (MaxAccess + 1),
             NEW write \in BOOLEAN,
             \/ Access(start, num, write)
             \/ RefuseAtOnce(start, num)
             \/ RefuseAfterMove(start, num, write)
             \/ FileFails(start, num)
      PROVE  IInv'
  BY <1>2, AccessIInv, RefuseAtOnceIInv, RefuseAfterMoveIInv, FileFailsIInv
<1>3. CASE \E r \in Index, v \in Values : Write(r, v)
  BY <1>3, WriteIInv
<1>4. CASE FreePool
  BY <1>4, FreePoolIInv
<1>. QED  BY <1>1, <1>2, <1>3, <1>4 DEF Next

(* In every state the window has its file, the pointer of the last access  *)
(* is good, a clean window is saved and the code's internal error is not   *)
(* raised (access_virt_sarray, access_virt_barray).                        *)
THEOREM WindowSafe ==
    Spec => []WindowIsSafe
<1>1. IInv => WindowIsSafe
  BY DEF IInv, WindowIsSafe
<1>. QED  BY InitIInv, NextIInv, <1>1, PTL DEF Spec

-----------------------------------------------------------------------------
(* The refinement.  AllRows and View are RowArray's rows and view here.    *)

AllRows == [r \in Index |-> RowOf(r)]
View == [r \in granted |-> mem[r - curStartRow]]

(* An array just requested or just freed is one of zeroes.                 *)
LEMMA FreshRows ==
    ASSUME firstUndefRow' = 0, granted' = {}, writable' = FALSE
    PROVE  Plain!Fresh
<1>1. \A r \in Index : RowOf(r)' = Zero
  BY VirtualArrayAssumption DEF RowOf, Index
<1>2. AllRows' = [r \in Plain!Index |-> Zero]
  BY <1>1 DEF AllRows, Plain!Index, Index
<1>3. View' = [r \in {} |-> Zero]
  BY DEF View
<1>. QED  BY <1>2, <1>3 DEF Plain!Fresh, AllRows, View

LEMMA InitIsPlain == Init => Plain!Init
<1>. SUFFICES ASSUME Init PROVE Plain!Init
  OBVIOUS
<1>1. \A r \in Index : RowOf(r) = Zero
  BY VirtualArrayAssumption DEF Init, RowOf, Index
<1>2. AllRows = [r \in Plain!Index |-> Zero]
  BY <1>1 DEF AllRows, Plain!Index, Index
<1>3. View = [r \in {} |-> Zero]
  BY DEF Init, View
<1>. QED  BY <1>2, <1>3 DEF Init, Plain!Init, AllRows, View

(* After a move of the window, every row defined before it reads the same. *)
LEMMA MoveKeepsRows ==
    ASSUME IInv, status = "live",
           NEW start \in 0 .. Rows, NEW num \in 1 .. (MaxAccess + 1),
           ErrorAtOnce(start, num) = "none",
           Move(start, start + num), UNCHANGED rowsInMem,
           firstUndefRow' \in Nat, firstUndefRow <= firstUndefRow',
           NEW r \in Index, r < firstUndefRow,
           r - Window(start, start + num) \in Slots =>
              mem'[r - Window(start, start + num)]
                = Buffer(start, start + num, r - Window(start, start + num))
    PROVE  RowOf(r)' = RowOf(r)
<1>. DEFINE end == start + num
            at == Window(start, end)
<1>1. /\ at \in Nat /\ r \in Nat /\ firstUndefRow \in Nat /\ curStartRow \in Nat
      /\ curStartRow' = at /\ Slots' = Slots
  BY WindowHoldsAccess, VirtualArrayAssumption DEF IInv, TypeOK, Move, Index, Slots
<1>2. RowOf(r)' = IF r - at \in Slots THEN mem'[r - at] ELSE store'[r]
  BY <1>1 DEF RowOf, InWindow
<1>3. CASE r - at \in Slots
  <2>1. at + (r - at) = r
    BY <1>1
  <2>2. Buffer(start, end, r - at) = RowOf(r)
    BY <1>3, <2>1, BufferIsRow
  <2>. QED  BY <1>2, <1>3, <2>2
<1>4. CASE r - at \notin Slots
  <2>1. CASE OutsideWindow(start, end)
    BY <1>2, <1>4, <2>1, FlushedIsRow DEF Move
  <2>2. CASE ~OutsideWindow(start, end)
    BY <1>1, <1>2, <1>4, <2>2 DEF Move, Window, RowOf, InWindow
  <2>. QED  BY <2>1, <2>2
<1>. QED  BY <1>3, <1>4

LEMMA MisusedIsRefused ==
    ASSUME IInv, status = "live",
           NEW start \in 0 .. Rows, NEW num \in 1 .. (MaxAccess + 1), NEW write \in BOOLEAN
    PROVE  Plain!Misused(start, num, write)
              <=> \/ ErrorAtOnce(start, num) # "none"
                  \/ Undefined(start, start + num, write)
  BY NeverVirtualBug DEF Plain!Misused, BeyondTheArray, Undefined

LEMMA AccessIsPlain ==
    ASSUME IInv, IInv', NEW start \in 0 .. Rows, NEW num \in 1 .. (MaxAccess + 1),
           NEW write \in BOOLEAN, Access(start, num, write)
    PROVE  Plain!Access(start, num, write)
<1>. DEFINE end == start + num
            at == Window(start, end)
<1>1. /\ status = "live" /\ status' = "live"
      /\ ErrorAtOnce(start, num) = "none" /\ ~Undefined(start, end, write)
      /\ Move(start, end)
      /\ curStartRow' = at
      /\ mem' = [k \in Slots |-> IF ToZero(start, end, at + k) THEN Zero
                                 ELSE Buffer(start, end, k)]
      /\ firstUndefRow' = DefinedAfter(end, write)
      /\ granted' = start .. (end - 1) /\ writable' = write
      /\ UNCHANGED shape
  BY DEF Access, Move
<1>2. /\ at \in Nat /\ at <= start /\ end <= at + rowsInMem /\ end <= Rows
      /\ start \in Nat /\ end \in Nat
  BY <1>1, WindowHoldsAccess, VirtualArrayAssumption
<1>3. /\ Slots' = Slots /\ rowsInMem \in Nat /\ rowsInMem' = rowsInMem
      /\ firstUndefRow \in Nat /\ firstUndefRow' \in Nat /\ firstUndefRow <= firstUndefRow'
      /\ Index \subseteq Nat
  BY <1>1, <1>2, VirtualArrayAssumption DEF Slots, shape, IInv, TypeOK, DefinedAfter, Index
<1>4. ASSUME NEW r \in Index, r < firstUndefRow
      PROVE  RowOf(r)' = RowOf(r)
  <2>1. ASSUME r - at \in Slots
        PROVE  mem'[r - at] = Buffer(start, end, r - at)
    <3>1. at + (r - at) = r
      BY <1>2, <1>3
    <3>2. ~ToZero(start, end, r)
      BY <1>3, <1>4 DEF ToZero
    <3>. QED  BY <1>1, <2>1, <3>1, <3>2
  <2>. QED  BY <1>1, <1>3, <1>4, <2>1, MoveKeepsRows
<1>. HIDE DEF at, end
(* A row the caller is given is in the window, and what is there is its    *)
(* content in the plain array.                                             *)
<1>5. ASSUME NEW r \in start .. (end - 1)
      PROVE  r \in Index /\ r - at \in Slots /\ at + (r - at) = r /\ r \in Nat
  BY <1>2, <1>3, VirtualArrayAssumption DEF Slots, Index
<1>6. ASSUME NEW r \in start .. (end - 1), r >= firstUndefRow, preZero
      PROVE  mem'[r - at] = Zero
  BY <1>1, <1>5, <1>6 DEF ToZero
<1>7. ASSUME NEW r \in start .. (end - 1)
      PROVE  mem'[r - at] = RowOf(r)'
  <2>1. CASE r >= firstUndefRow'
    <3>1. r >= firstUndefRow /\ ~write
      BY <1>1, <1>2, <1>3, <1>5, <2>1 DEF DefinedAfter
    <3>2. preZero
      BY <1>1, <1>2, <1>3, <1>5, <3>1 DEF Undefined
    <3>. QED  BY <1>6, <2>1, <3>1, <3>2 DEF RowOf
  <2>2. CASE ~(r >= firstUndefRow')
    BY <1>1, <1>3, <1>5, <2>2 DEF RowOf, InWindow
  <2>. QED  BY <2>1, <2>2
<1>8. ASSUME NEW r \in Index, preZero \/ r < firstUndefRow \/ r >= firstUndefRow'
      PROVE  RowOf(r)' = RowOf(r)
  <2>1. CASE r < firstUndefRow
    BY <1>4, <2>1
  <2>2. CASE r >= firstUndefRow'
    BY <1>3, <2>2 DEF RowOf
  <2>3. CASE ~(r < firstUndefRow) /\ ~(r >= firstUndefRow') /\ preZero
    <3>1. write /\ firstUndefRow < end /\ r < end /\ r >= firstUndefRow
      BY <1>1, <1>3, <2>3 DEF DefinedAfter
    <3>2. start <= firstUndefRow
      BY <1>1, <1>2, <1>3, <3>1 DEF Undefined
    <3>3. r \in start .. (end - 1)
      BY <1>2, <1>3, <3>1, <3>2
    <3>4. RowOf(r)' = Zero
      BY <1>6, <1>7, <2>3, <3>1, <3>3
    <3>. QED  BY <3>1, <3>4 DEF RowOf
  <2>. QED  BY <1>8, <2>1, <2>2, <2>3
<1>9. View' = [r \in start .. (end - 1) |-> AllRows'[r]]
  BY <1>1, <1>5, <1>7 DEF View, AllRows
<1>10. \A r \in Plain!Index : preZero \/ r < firstUndefRow \/ r >= firstUndefRow'
           => AllRows'[r] = AllRows[r]
  BY <1>8 DEF AllRows, Plain!Index, Index
<1>11. AllRows' \in [Plain!Index -> Values]
  <2>1. mem' \in [Slots' -> Values] /\ store' \in [Index -> Values]
    BY DEF IInv, TypeOK
  <2>2. \A r \in Index : RowOf(r)' \in Values
    BY <2>1, VirtualArrayAssumption DEF RowOf, InWindow
  <2>. QED  BY <2>2 DEF AllRows, Plain!Index, Index
<1>12. ~Plain!Misused(start, num, write)
  BY <1>1, MisusedIsRefused DEF end
<1>13. /\ granted' = start .. (start + num - 1) /\ writable' = write
       /\ UNCHANGED <<status, preZero>>
       /\ firstUndefRow' = IF write /\ firstUndefRow < start + num THEN start + num
                           ELSE firstUndefRow
  BY <1>1 DEF DefinedAfter, shape, end
<1>. QED
  BY <1>1, <1>9, <1>10, <1>11, <1>12, <1>13, Zenon
     DEF Plain!Access, AllRows, View, end

(* A failed access changes no row and takes the caller's pointer away.     *)
LEMMA FailsEmptiesView ==
    ASSUME granted' = {}
    PROVE  View' = [r \in {} |-> Zero]
  BY DEF View

LEMMA RefuseAtOnceIsPlain ==
    ASSUME IInv, NEW start \in 0 .. Rows, NEW num \in 1 .. (MaxAccess + 1),
           NEW write \in BOOLEAN, RefuseAtOnce(start, num)
    PROVE  Plain!Refuse(start, num, write)
<1>1. /\ status = "live" /\ status' = "bad_access" /\ granted' = {}
      /\ UNCHANGED <<preZero, rowsInMem, firstUndefRow, writable, mem, store, curStartRow>>
      /\ ErrorAtOnce(start, num) # "none"
  BY RefuseAtOnceIInv DEF RefuseAtOnce, Fails, shape
<1>2. AllRows' = AllRows
  BY <1>1 DEF AllRows, RowOf, InWindow, Slots
<1>3. Plain!Misused(start, num, write)
  BY <1>1, MisusedIsRefused
<1>4. View' = [r \in {} |-> Zero]
  BY <1>1, FailsEmptiesView
<1>. QED  BY <1>1, <1>2, <1>3, <1>4 DEF Plain!Refuse, AllRows, View

LEMMA FileFailsIsPlain ==
    ASSUME NEW start \in 0 .. Rows, NEW num \in 1 .. (MaxAccess + 1), FileFails(start, num)
    PROVE  Plain!FileFails
<1>1. /\ status = "live" /\ status' = "file_error" /\ granted' = {}
      /\ UNCHANGED <<preZero, rowsInMem, firstUndefRow, writable, mem, store, curStartRow>>
  BY DEF FileFails, Fails, shape
<1>2. AllRows' = AllRows
  BY <1>1 DEF AllRows, RowOf, InWindow, Slots
<1>3. View' = [r \in {} |-> Zero]
  BY <1>1, FailsEmptiesView
<1>. QED  BY <1>1, <1>2, <1>3 DEF Plain!FileFails, AllRows, View

LEMMA RefuseAfterMoveIsPlain ==
    ASSUME IInv, NEW start \in 0 .. Rows, NEW num \in 1 .. (MaxAccess + 1),
           NEW write \in BOOLEAN, RefuseAfterMove(start, num, write)
    PROVE  Plain!Refuse(start, num, write)
<1>. DEFINE end == start + num
            at == Window(start, end)
<1>1. /\ status = "live" /\ status' = "bad_access" /\ granted' = {}
      /\ ErrorAtOnce(start, num) = "none" /\ Undefined(start, end, write)
      /\ Move(start, end)
      /\ mem' = [k \in Slots |-> Buffer(start, end, k)]
      /\ UNCHANGED <<preZero, rowsInMem, firstUndefRow, writable>>
  BY DEF RefuseAfterMove, Fails, shape
<1>2. firstUndefRow \in Nat /\ Index \subseteq Nat
  BY VirtualArrayAssumption DEF IInv, TypeOK, Index
<1>3. ASSUME NEW r \in Index
      PROVE  RowOf(r)' = RowOf(r)
  <2>1. CASE r < firstUndefRow
    <3>1. r - at \in Slots => mem'[r - at] = Buffer(start, end, r - at)
      BY <1>1
    <3>. QED  BY <1>1, <1>2, <1>3, <2>1, <3>1, MoveKeepsRows
  <2>2. CASE r >= firstUndefRow
    BY <1>1, <2>2 DEF RowOf
  <2>. QED  BY <1>2, <2>1, <2>2
<1>4. AllRows' = AllRows
  BY <1>3 DEF AllRows
<1>5. Plain!Misused(start, num, write)
  BY <1>1, MisusedIsRefused
<1>6. View' = [r \in {} |-> Zero]
  BY <1>1, FailsEmptiesView
<1>. QED  BY <1>1, <1>4, <1>5, <1>6 DEF Plain!Refuse, AllRows, View

LEMMA WriteIsPlain ==
    ASSUME IInv, NEW r \in Index, NEW v \in Values, Write(r, v)
    PROVE  Plain!Write(r, v)
<1>1. /\ status = "live" /\ writable /\ r \in granted
      /\ mem' = [mem EXCEPT ![r - curStartRow] = v]
      /\ UNCHANGED <<status, preZero, rowsInMem, store, curStartRow, firstUndefRow,
                     granted, writable>>
  BY DEF Write, shape
<1>2. /\ r - curStartRow \in Slots /\ Slots' = Slots /\ mem \in [Slots -> Values]
      /\ r < firstUndefRow /\ firstUndefRow \in Nat /\ curStartRow \in Nat
      /\ Index \subseteq Nat /\ granted \subseteq Index
  BY <1>1, VirtualArrayAssumption
     DEF Slots, IInv, TypeOK, PointerIsGood, InWindow, Index
<1>3. ASSUME NEW q \in Index
      PROVE  mem'[q - curStartRow] = IF q = r THEN v ELSE mem[q - curStartRow]
  <2>1. CASE q = r
    BY <1>1, <1>2, <2>1
  <2>2. CASE q # r
    <3>1. q - curStartRow # r - curStartRow
      BY <1>2, <1>3, <2>2
    <3>. QED  BY <1>1, <1>2, <2>2, <3>1
  <2>. QED  BY <2>1, <2>2
<1>4. ASSUME NEW q \in Index
      PROVE  RowOf(q)' = IF q = r THEN v ELSE RowOf(q)
  BY <1>1, <1>2, <1>3 DEF RowOf, InWindow
<1>5. AllRows' = [AllRows EXCEPT ![r] = v]
  BY <1>4 DEF AllRows
<1>6. View' = [View EXCEPT ![r] = v]
  BY <1>1, <1>2, <1>3 DEF View
<1>. QED  BY <1>1, <1>5, <1>6 DEF Plain!Write, AllRows, View

LEMMA StutterIsPlain == UNCHANGED vars => UNCHANGED Plain!vars
<1>. SUFFICES ASSUME UNCHANGED vars PROVE UNCHANGED Plain!vars
  OBVIOUS
<1>1. AllRows' = AllRows
  BY DEF vars, AllRows, RowOf, InWindow, Slots
<1>2. View' = View
  BY DEF vars, View
<1>. QED  BY <1>1, <1>2 DEF vars, Plain!vars, AllRows, View

LEMMA NextIsPlain == IInv /\ IInv' /\ [Next]_vars => [Plain!Next]_(Plain!vars)
<1>. SUFFICES ASSUME IInv, IInv', Next PROVE Plain!Next
  BY StutterIsPlain
<1>1. ASSUME NEW zeroed \in BOOLEAN, NEW avail \in Memory, NEW chunk \in Chunks,
             Request(zeroed, avail, chunk)
      PROVE  Plain!Request
  <2>1. Plain!Fresh
    BY <1>1, FreshRows DEF Request
  <2>. QED  BY <1>1, <2>1 DEF Request, Plain!Request
<1>2. ASSUME NEW start \in 0 .. Rows, NEW num \in 1 .. (MaxAccess + 1),
             NEW write \in BOOLEAN,
             \/ Access(start, num, write)
             \/ RefuseAtOnce(start, num)
             \/ RefuseAfterMove(start, num, write)
             \/ FileFails(start, num)
      PROVE  \/ Plain!Access(start, num, write)
             \/ Plain!Refuse(start, num, write)
             \/ Plain!FileFails
  BY <1>2, AccessIsPlain, RefuseAtOnceIsPlain, RefuseAfterMoveIsPlain, FileFailsIsPlain
<1>3. ASSUME NEW r \in Index, NEW v \in Values, Write(r, v)
      PROVE  Plain!Next
  BY <1>3, WriteIsPlain DEF Plain!Next, Plain!Index, Index
<1>4. ASSUME FreePool
      PROVE  Plain!Free
  <2>1. Plain!Fresh
    BY <1>4, FreshRows DEF FreePool
  <2>. QED  BY <1>4, <2>1 DEF FreePool, Plain!Free
<1>. QED  BY <1>1, <1>2, <1>3, <1>4 DEF Next, Plain!Next

(* However small the memory and wherever the window moves, the virtual     *)
(* arrays of jmemmgr.c are the plain arrays their callers take them for.   *)
THEOREM VirtualIsPlain == Spec => BehavesAsPlainArray
<1>1. IInv /\ [Next]_vars => [Plain!Next]_(Plain!vars)
  BY NextIInv, NextIsPlain
<1>. QED
  BY InitIInv, NextIInv, InitIsPlain, <1>1, PTL
     DEF Spec, BehavesAsPlainArray, Plain!Spec
=============================================================================
