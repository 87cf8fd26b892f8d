# A verification of the Mohonk map application

The application shows maps of the Mohonk preserve on an Android phone and the
user's position on them. It downloads two SQLite databases (the maps and the
points of interest) and, on demand, the picture of a map, which it decodes with
the libjpeg whose whole source is in the repository. This directory holds TLA+
models of the application and of that library, the TLC configurations that check
them, and proofs for TLAPS. Paths below are relative to
`src/src/edu/newpaltz/nynjmohonk/`, those of C files to `src/jni/jpeg/`, unless
they start with `src/`.

## The system

| Component | State it keeps | Operations | Status |
|---|---|---|---|
| `MapDatabaseHelper` | files `maps.sqlite` and `maps.sqlite.tmp`, static `dbLoadState` (0 new, 3 loading, 1 done, 2 error), the open helper, `myDatabase` | `downloadDB`, `setupDatabase`, `createDatabase`, `openDatabase`, `selectFromDatabase` | `DbDownload` |
| `LocDBHelper` | the same for `locs.sqlite`; static `pointStore`, never allocated | the same, and `generatePoints` | download in `MainMenu`, points in `MapScreen` |
| `MainMenu` | field `d` (the progress dialog), worker threads, runnables posted to the user interface thread | `onCreate`, buttons, menu items, `clearCache`, `downloadDatabase`, `connectionError`, `onPause`, `onDestroy` | `MainMenu`, and its worker also in `DbDownload` |
| `DownloadMapsActivity` | fields `currentMap`, `currentView`, `d` | `onCreate`, `onItemClick`, `waitImageLoaded`, `loadImage`, two runnables | `MapImage` |
| `Map` | a row; `imageLoadState`; the picture's file | `isDownloaded`, `loadImage`, `getAllMaps`, parcel | `MapImage`, `DbDownload`; the data part not |
| `MapViewActivity` | `d`, `willCenter`, `outOfRangeAlert`, three threads, `pointStore` | `onCreate`, `onLocationChanged`, `checkPoints`, `mRemoveGPSWaiting`, `onPause`, `onResume`, `onDestroy`, menu items | `MapScreen` |
| `MapView` | touch automaton, matrix, position of the mark, `firstDraw` | `onTouchEvent`, `onDraw`, `centerOnPoint`, `updateLocation`, zoom | `Touch`, `MapRender`; the matrix only as shifts and steps |
| `src/jni/bitmap/bitmap.c` | static `bitmapData` | `renderBitmap` (decode once a screen, then restore a window) | `MapRender` |
| `PointOfInterest` | a record | `getAllPoints`, setters | `MapScreen`, without the data |
| `CompassListener` | a sensor value | `onSensorChanged` | its redraw, in `MapScreen` |
| `Polygon`, `TEA` | none | pure functions without a caller | no |
| `MyApplication`, `SplashScreen`, `ProxyAlertReceiver` | constants, a timer, nothing | | constants only |
| `NoteDBHelper`, `NoteBuilder`, `MainMenu.newDatabaseCheck`, `Map.getDecryptedImage`, package `olana.map` | | never started, or not in the manifest | no |

The library, `src/jni/jpeg/`:

| Component | State it keeps | Operations | Modules |
|---|---|---|---|
| `jidctint.c`, `jfdctint.c`, `jcdctmgr.c`, `jddctmgr.c` | a divisor and a multiplier table | 24 inverse and 24 forward DCTs, quantizing, dequantizing | `InverseDct`, `ForwardDct`, `BlockCodec` |
| `transupp.c`, `jctrans.c`, `jpegtran.c` | virtual arrays of blocks, crop, trim, the destination's header | request of the workspace, adjusting, eight transforms, markers | `Transform` |
| `jdmaster.c`, `jdmainct.c`, `jdsample.c`, `jdmerge.c`, `jdpostct.c`, `jdapistd.c`, `jquant2.c` | row counters, group and strip buffers, a histogram, the kind of pass | start, read lines or raw data, finish output, finish | `Scaling`, `OutputRows` |
| `jdinput.c`, `jdcoefct.c`, `jdapimin.c`, `jdtrans.c`, `jddctmgr.c` | `global_state`, the input controller, the place in a scan, coefficient arrays, latched tables | consume input, decompress, read coefficients, start and finish output, finish | `DecodeScans` |
| `jmemmgr.c`, `jmemansi.c` | a window, a temporary file, `dirty`, `first_undef_row` | request, realize, access, free | `RowArray`, `VirtualArray` |
| `jchuff.c`, `jdhuff.c`, `jcmaster.c`, `jdmarker.c` | bit buffers, a run of ended bands, held-back correction bits, predictions, restart counters, tables | encode, count, make tables, decode, resynchronize | `HuffmanTable`, `ScanEncoder`, `ScanDecoder`, `EntropyScan` |
| the rest: the compressor's front end, other markers, arithmetic coding, color conversion, one-pass quantization, fast and float DCTs, programs, other memory back ends | | | no |

How they interact. Every download runs in a thread of its own that sets a load
state; another place spins on that state (`while(getLoadState() == 3);`) and
then reads it once more in a switch, and posts a runnable to the user interface
thread. Threads share static fields, fields of the activity, and files, with no
lock. In the library a stage calls the next through the methods of `cinfo`, all
in one thread, and a stage that cannot go on returns and is called again. The
process can be ended at any step: by the exit button, by Back in the main menu
(`onDestroy` exits), or by the system.

What is hard about it:

* the database is replaced by delete and rename, not by one atomic step, through
  a `.tmp` file that all downloads share;
* the same load state is read three times while others may set it;
* a picture is written under its final name, and its existence is what
  "downloaded" means;
* progress dialogs cannot be cancelled, so a dialog nobody dismisses ends the
  use of a screen; and the modality of the dialog is all that protects the
  fields its threads share;
* errors half way, kills, second attempts, and a cache cleared during a
  download;
* on the map screen a timer, positions, a thread and the user race, positions
  arrive after the screen is gone, and the native pixel buffer outlives it;
* in the library, data arrives in pieces and a call may stop anywhere in an MCU
  and be made again; output and input are in different scans; a counting pass
  and a writing pass must do the same; buffers of several heights are in step
  only at the end of a picture; edges are never whole; every scale has
  arithmetic of its own;
* a gesture is put together from events whose first may be swallowed.

`PROJECT.json` lists each of these hazards at its line with the properties that
watch it.

## The modules

**`DbInstaller`** is the abstract specification of downloading a database: which
version is current, the newest ever installed, and what is announced. A failed
download changes nothing, a success is announced only when a version no older
than any before is in place, and a crash leaves what is there. It admits the one
gap of the code, `Withdraw` before `Install`.

**`DbDownload`** is `MapDatabaseHelper.downloadDB`, line by line, run by any
number of worker threads (`MainMenu.downloadDatabase`, lines 251-275), beside
the user interface thread in `Map.getAllMaps`, and kills.

* Files are inodes: `db` and `tmp` are names, `content` gives the pieces of each
  inode, `fd[t]` and `handle` are open descriptors. Unlinking an open file,
  truncating a file someone is writing, and renaming a file are then what the
  phone does. An inode no name or descriptor refers to may be reused.
* `pc[t]` follows the code: `begin` (state 3, line 217), `fetch` (241-244: the
  answer is buffered whole), `setup` and `create` (248: `setupDatabase` looks for
  the file, and then has it created), `open` (250), `write` (254-256, one piece a
  step), `delete` (271-274), `rename` (278-281), `finish` (284), `await`
  (the spin loops), `report` (the switch). `FailDownload` is the catch block.
* The reader goes through `createDatabase` in the same two steps (`CreateDatabase`,
  `CopyDatabase`), `OpenDatabase` and `SelectFromDatabase`, so that a worker may
  delete or rename between any two of them.
* `GetReadableDatabase` is Android's: the first call of a process creates an
  empty database when the file is absent (the skeleton), later ones return the
  open handle. The repository ships no asset to copy, so `createDatabase` of a
  missing file always ends in its `IOException`.
* `Next` lets every thread start a download at any time, as the menu does.
  `SerialNext` starts one only when none runs: the case the code was written
  for. What holds only of `SerialSpec` says so.
* `newest` and `report` only observe.

**`MCDbDownload`** adds the symmetry sets for TLC. Threads and inodes are
interchangeable; symmetry is not used in the run with liveness.

**`MapImage`** is the download screen: a tap starts a waiter (`waitImageLoaded`)
and a loader (`Map.loadImage`); a visit is one instance of the activity with
`Map` objects of its own, and the threads of an earlier visit go on with that
visit's objects. `currentMap` is read when a thread runs. `attached[k]` says
that the file a loader writes is still the one under the map's name (clearing
the cache unlinks it).

**`MainMenu`** is the main menu: what can be touched, the field `d` and the
dialog it refers to, the dialog of the corrupted alert that no field refers to,
the queue of the user interface thread, `clearCache` threads, and workers that
download the databases one after the other. A `clearCache` thread is named by the
worker it starts and takes three steps: `DeleteMaps`, `StartAgain`, `PostCleared`.
There may be several, as leaving the menu takes down the dialog that keeps the
user from the next. A download is reduced to what other threads and the menu see;
its definitions are mapped to `LocDBHelper`, whose `downloadDB` is the second
stage, and apply to both. Looking for a missing file and having it created is one
step here, in `Fetch` and `OpenMap`; `DbDownload` has the two apart. Files are
"absent", "skeleton" or "usable". Four variables only observe: the stages of which
a worker has `failed` and `told`, those where another worker set the load state
after it (`overtaken`), and the databases whose `.tmp` file two had written at once
(`shared`).

**`MapRender`** is the picture of the map screen: `MapView.onDraw` with
`bitmap.c`. A pixel is the name of the map it comes from, "blank" or "mark".
`bitmap` is the screen's own bitmap, `bitmapData` the global buffer of the
native library. `MustDecode`, `Decoded`, `Window` and `Restored` are the parts
of `renderBitmap`; `Draw` is all of `onDraw`, the mark included, which is drawn
at (-1, -1) while no position is known.

**`MapScreen`** extends it with the activity: opening (five outcomes, by what
`getAllPoints` meets in `locs.sqlite`), the wait behind the progress dialog `d`,
the timer `mRemoveGPSWaiting`, positions as messages to the main looper, the
thread `pointCheck`, the alerts, the menu, pausing, `onDestroy`, and redraws by
the compass. `pointStore` is null for good, so `checkPoints` only throws and a
position is the last thing the screen shows; what it calls beyond its first line
cannot run and is left out. A position that belongs to a destroyed visit, or a
second one, throws as well. Android may destroy a screen that has finished only
after the next one was opened: of such an instance (`lingering`) only the listener
is left to do anything, which `EarlierLocation` and `DestroyEarlier` model. A range
alert for a screen that has finished may throw (`AlertWithoutScreen`).

**`MCMapScreen`** and **`MCTouch`** give the sets of positions and of places.

**`Touch`** is `MapView.onTouchEvent`, one action for each kind of
`MotionEvent`, over a list of fingers. `prevX` is -1 until a place was read; an
event that finds it so is swallowed (`Ignore`). Zooming is counted in steps.

**`InverseDct`** and **`ForwardDct`** are `jidctint.c` and `jfdctint.c`. A
routine is two one-dimensional passes, and a pass is the table of the weight
each output gives each input: the sum of the `FIX` constants on the way from the
one to the other. Adding, subtracting and multiplying lose nothing; the shifts
do, and are modelled at their places. `Idct_2x4` and its like name the passes of
each routine, so that a wrong constant in any of the 48 would be a wrong table
here. **`BlockCodec`** takes a block through `forward_DCT` (`Quantize`) and back
(`Decode`), from samples or from coefficients. **`MCBlockCodec`** has the
blocks, and the cosine transform as the reference.

**`Transform`** is `transupp.c` beside the parts of `jctrans.c` and `jpegtran.c`
that call it: `Request` (`jtransform_request_workspace`: refusals, `CropAxis`,
trim), `Adjust` (`jtransform_adjust_parameters`: sizes, sampling, `DstTurned`
for the tables, `NewExif`), and `Execute` with one operator for each `do_*`. A
block is named by where its samples were in the first picture, and by its
transposition and changes of sign. Runs follow one another on the same picture.

**`Scaling`** has the sizes of `jpeg_core_output_dimensions` and
`jpeg_calc_output_dimensions`; the two modules of the decompressor use it.
**`OutputRows`** is the output side: `ReadScanlines` is a whole call down to
`process_data` and `decompress_data`, as `Processed` (main buffer), `Upsample`
(separate or merged) and `PostProcess` (none, one pass, prepass, second pass);
`Prepare` is `prepare_for_output_pass` and `CrankDummyPass` the loop of
`output_pass_setup`. A pixel row is named by the plane rows it was made of,
`Stale` being what the workspace holds before.

**`DecodeScans`** is the input side: `ReadMarker` is `consume_markers`, with
`StartInputPass` and `Latched` for what the start of a scan sets up; `TakeMcus`
is `consume_data` or `decompress_onepass` over the MCUs that have arrived; an
application decodes plainly, shows scans of its choice, or takes the
coefficients, one action for each call of `jdapimin.c`, `jdapistd.c` and
`jdtrans.c`. A call that waits is a state (`PRELOAD`, `BUFPOST`, `STOPPING`),
and a suspension may leave it before any piece of input. What a scan adds to a
block is the name <<scan, MCU, block>>.

**`VirtualArray`** is one virtual array with the file of `jmemansi.c`: `Request`
with `realize_virt_arrays`, `Access` (the errors, the new window, write-back,
read, zeroing, `dirty`), a caller's write, failing files, `FreePool`.
**`RowArray`** is what it promises: an array of rows, filled from the front, of
which a caller holds those of its last access. Sample and block arrays have the
same code twice and are one model.

**`HuffmanTable`** is `jpeg_gen_optimal_table` and both
`jpeg_make_*_derived_tbl`. **`ScanEncoder`** is `jchuff.c`: all six
`encode_mcu_*`, with `emit_eobrun`, correction bits, restarts, and the pass that
counts. **`ScanDecoder`** is `jdhuff.c`: `jpeg_fill_bit_buffer`, the look-up and
the slow way, the five `decode_mcu*` with the undoing of a suspended refinement
MCU, and of `jdmarker.c` `read_restart_marker`, `next_marker` and
`jpeg_resync_to_restart`. **`EntropyScan`** composes them with the passes of
`jcmaster.c`: a scan is counted, its tables are made, it is written, a stretch
of it may be lost (`Lose`), it arrives piece by piece and is decoded; then comes
the next scan of the script.

**`DbDownload_proofs`**, **`MapImage_proofs`**, **`MainMenu_proofs`**,
**`MapScreen_proofs`** (which has those of `Touch` too), **`VirtualArray_proofs`**,
**`OutputRows_proofs`**, **`DecodeScans_proofs`** and **`Transform_proofs`** hold
the theorems. The **`MC`** modules hold the instances.

Definitions marked `Mutant` or `Slip` in the modules (`OpenInPlace`,
`WorkspaceSlip`, ...) are no part of a specification: each is a plausible
mistake in the definition that follows it. Put in its place it must make a
property fail, which `PROJECT.json` records under "mutants".

## What is assumed

* Reads see the latest write. `dbLoadState` and `imageLoadState` are not
  volatile; a compiler that keeps one in a register would make the spin loops
  endless, and no model here shows that.
* A `ProgressDialog` is modal and cannot be cancelled with Back, as
  `ProgressDialog.show(context, title, message)` makes it.
* The activities handle an orientation change themselves (`configChanges` in
  `src/AndroidManifest.xml`), so they are not created again for it.
* The disk has room for one file a worker, two names, a reader and one more.
* The server publishes versions in ascending order.
* A picture's bytes are those of its URL: a picture is whole when all pieces
  are.
* The maps of a run have the same size, and a picture of which libjpeg reads the
  header is decoded in full (an unreadable one not at all).
* `Dialog.isShowing` stays true of a hidden dialog, and a posted position is
  delivered even after `removeUpdates`, as on the Android versions of the time.
* The system does not destroy a paused map screen, save by ending the process.
* A file that is no database may or may not be deleted when it is opened.
* `Touch` follows one coordinate of two, and the system may cancel a gesture. A
  second finger that is not there is an exception or an old value.
* Left out: the alert with only an OK button, which changes nothing; the
  runnable posted on success, whose body is commented out; the text of dialogs.
  Closing the helper's own handle never happens in the code.

Of the library:

* Samples and coefficients are named, not computed, save in the DCT modules;
  filters, colors and smoothing estimates are reduced to the rows they read.
* In `VirtualArray` fresh memory and fresh files hold some value of a row. A
  failing file ends the array: nobody reads the window again, as the error exit
  leaves the library. The application's build links `jmemnobs.c`, which always
  has memory for all rows.
* In `EntropyScan` the scans have one component; what the others send with the
  same tables is a given count (`elsewhere`). A scan is written before it is
  read. The suspension of an output buffer (`dump_buffer` fails,
  `encode_mcu_huff` returns) would be a stutter. If more than two restart
  markers in a row are lost nothing is claimed but that the decoder comes to its
  end: the numbers cannot tell.
* `ScansAssumption` describes the files `DecodeScans` reads: a frame and scans
  that passed the checks of `jdmarker.c` and `jdinput.c`, and an EOI at the end
  and nowhere else: `jdatasrc.c` makes one up where the file has none, and what
  follows one is not read. A file that is refused
  later, for a table that is missing, is among them.
* `OutputAssumption` is what the decompressor accepts of a header (a positive
  height, sampling factors from 1 to 4, blocks of 1 to 16) and what an application
  may set; raw data is not quantized (`master_selection` refuses it).
* `TransformAssumption` is what the decompressor accepts of a header (a positive
  size, sampling factors from 1 to 4, one component if and only if it is grey)
  and `jpegtran` of its command line, and the kinds of markers it asks to be saved.
* `process_data_context_main` and its pointer lists are left out: it runs only
  when an upsampler needs context rows, and none sets `need_context_rows`.
* Two-pass quantization with strips of four lines is left out of `rows`, and
  forward transforms 12 or 14 samples wide of `dct`; see "Known disagreements".
* The Exif size is only claimed for a file that begins with its Exif marker: the
  code looks at the first saved marker and no other.

**Fairness.** `DbDownload`, `MapImage` and `MainMenu` assume weak fairness of
each thread and of the user interface thread's queue: Android schedules every
runnable thread, and a spinning thread is preempted. For a thread in a request
this also says that the network answers or fails in the end. The code sets no
timeout, so this is the transport's doing and an assumption. `MapScreen` assumes
that the looper runs a posted timer (weak fairness of `RemoveGPSWaiting`) and
that the system destroys a finished activity (`Destroy`). No fairness is given
to the user, to kills, to positions or to the world, and none to `Touch`.
`DecodeScans` assumes that an application that has called
`jpeg_finish_decompress` calls it again as long as it is suspended and more data
is there (weak fairness of `Stopping`); the other modules of the library assume
none, and state that no call waits in vain as invariants.

## The runs

Properties that belong together are conjoined: the table names what a run
checks, and each name is defined, with its parts, at the end of the module.

| Run | Instance | What it shows |
|---|---|---|
| `db_serial` | 1 thread, 5 inodes, 2 pieces, 2 versions, 3 starts, network and file errors, kills | `SoundDatabase` (never torn, never older), `ReaderSnapshot` (a reader's rows are stable), `SuccessMeansInstalled`, `ImplementsInstaller` |
| `db_concurrent` | 2 threads, 6 inodes, 1 version, 2 starts, failing requests, fair | two overlapping downloads both end (`DownloadEnds`) and leave no half-written file (`QuietMeansWhole`) |
| `image` | 2 maps, 2 visits, 3 taps, 2 pieces, all faults, fair | while no map is tried twice in a visit: `DialogProtects` the shared fields, `MessagesAreTrue`, `FirstDialogCloses`; two loaders of one file leave it whole (`AllEndedMeansComplete`) |
| `menu` | 2 databases, 2 workers, network errors and kills, fair | `MissingIsBeingRepaired`: missing maps have a worker, a clearing thread, or a failure that explains them; `FailuresAreTold`: each worker tells of the stages that failed and of no others; `MenuThreadsEnd`: the workers end and the clearing dialog closes |
| `map` | 2 maps of 4 by 4 pixels, each of which can be decoded or not, window of 2, mark of 1, 3 positions, 2 visits, 2 waiting positions, fair | `PictureIsExplained` (a readable map shows nothing of another one, an unreadable one nothing but windows of the last one; no old mark near the position), `NothingOutlivesTheScreen`, `SignalAlertIsTrue`, `WaitingEnds` |
| `touch` | 3 fingers, places -1 to 2, 1 step of zooming either way | `PinchIsSound` (limits, and a second finger is read only while it is there), `FollowsFingers`: no jump when one of two is lifted (`NoJump`), and the scale changes as the distance does (`ZoomFollowsFingers`) |
| `dct` | 24 sizes, steps 1 and 16, impulses, ramps, edges, checkerboards, and blocks of one coefficient | `LossIsBounded` to half a step and two grey levels, `NoGenerationLoss` when a decoded block is encoded again, `TransformsAreCosine` |
| `transform` | blocks of 2 by 2 samples, 32 pictures, 8 transforms, 19 crops, trim, perfect, gray, three ways of copying markers, two runs | `OnlyThePicture` is read and shown, `MovesAsAPicture` (sample by sample), `EdgesAsAsked`, `HeadersAgree` |
| `rows` | 11 pictures, scales 1/8 to 2, merged and separate upsampling, no, one-pass, two-pass and both quantizations, raw data, 1 to 3 lines a call, 2 passes, suspensions | `WholePictureOnce`, `StagesAgree` (sizes, iMCU rows, histogram), `EveryCallBringsALine` |
| `scans` | six pairs of files (interleaved, one scan a component, progressive, tables alone, refused ones), 3 ways of using them, 1 to 3 MCUs at once, fair | `DecodedAsCoded`, `DequantizedAsCoded` (with the table its first scan had), `NoEndlessWait`, `ShownAsAsked`, `EveryFinishEnds` |
| `vmem` | 5 rows, accesses of 1 to 3 rows (3 is misuse), memory for 0, 4 or 5 rows | `WindowIsSafe`, `BehavesAsPlainArray` |
| `entropy` | 2 to 8 blocks of 6 coefficients, 3 scan scripts, restart intervals 0 to 2, 3 position limits, stretches lost | `PassesAgree`, `TableIsSound`, `DecodedInPlace`, `KeepsInStep` |

**Why the bounds are enough.** Two pieces give an empty, a partial and a whole
file. Two versions give an older and a newer one; three starts let a download
that failed and one that was killed be followed by a third. Five inodes for one
thread (six for two) are what the assumption on the disk asks for, and a freed
inode is reused. Two workers already meet in every pair of steps; a third adds a
third party to the same two names. Three taps over two maps and two visits give
two maps in one visit, one map twice in a visit, and a thread of an old visit
beside a new one. `MaxStarts`, `MaxVersion`, `MaxVisits`, `MaxTaps` and
`MaxWorkers` bound only the user and the server. In `menu` two workers and two
databases let one worker be in the first stage and the other in the second, and
clearings meet each other and a worker at every step. `MenuThreadsEnd` says that
again and again all is at rest: as `MaxWorkers` bounds what the user starts, that is
the end of every thread.

In `map`, the window is larger than the mark and smaller than the picture, as
100 pixels are; of the positions one is inside, one at the south-east corner
(where both ends of the window are cut off and the mark lies partly outside) and
one out of range. Two visits let a second screen meet the buffer, the timer and
the positions of the first; two waiting positions are one more than the thread
can take. The points in `locs.sqlite` are varied only where it is a good
file. In `touch` three fingers are needed for a pinch that goes on after a
finger was lifted, and the place -1 for an event that is swallowed.

In `dct` the impulses and harmonics lie on the first row, the first column and
the diagonal, so that every weight of both passes of every size is met; steps of
1 and 16 are below and above the rounding of samples. In `transform` iMCUs are
whole, partial or the only one, sampling factors differ both ways, and the
second run transforms what the first has left. In `rows` the last iMCU row is
whole, partial or a single line, and an iMCU row gives one scanline to several;
a third line asked for at once is one more than a row group has. In `scans` the
luma component has dummy blocks at both edges, a scan is finer than the one
before it, and output is asked for up to one scan ahead. In `vmem` a window of
four over five rows overlaps its old place when it moves back, and chunks of
three end inside it; memory for none gives the least window. In `entropy` the
constants are scaled down (`LimSe` 5, `MaxRun` 2, `MaxCorrBits` 7, `ByteBits` 3,
`RestartNumbers` 6, `Lookahead` 2, `MaxLen` 4, `MaxClen` 8, `MinGetBits` 5) so
that a run of zeroes, a run of ended bands, the buffer of correction bits and
the code lengths all reach their limits within a few blocks, and more than two
bytes are read ahead. `MaxClen` itself, the length at which
`jpeg_gen_optimal_table` gives up, is not reached.

Deadlock is checked in `vmem` and `entropy`. Elsewhere it is not: when the
bounds are used up and every thread has ended, or the picture has been read,
these systems rest.

**`FirstTries`.** Most properties of `MapImage` are stated while no map has been
tapped twice in a visit: after a failure the object keeps state 2, and the
waiter of the second try runs ahead of its loader. `AllEndedMeansComplete` has
no such condition.

## Known disagreements

The models follow the code. Where it does not do what its comments or its use
say, the properties leave the case out, by a condition, a fault set or an
instance that is named here:

* Two downloads at once share `maps.sqlite.tmp` (`MapDatabaseHelper.java:250`),
  and one may announce success with no database in place;
  `SuccessMeansInstalled` is checked of `SerialSpec` only. If both wrote the file
  before either renamed it, the second deletes what the first has installed and has
  nothing to put in its place: the maps are gone, with a success announced and no
  one to bring them back (`shared` in `MissingIsBeingRepaired`). Left out is a download
  whose HTTP status is an error, or whose `renameTo` fails: the code looks at
  neither (lines 241, 280), and `Faults` leaves both out where success is
  checked.
* Two downloads at once also share the load state (`MapDatabaseHelper.java:202`),
  which the switch reads once more (`MainMenu.java:261`). If another worker sets it
  between a worker's last write and its switch, a failure may be silent, or an
  error announced by a worker that did not fail (`overtaken` in `FailureIsTold`).
* A picture is written under its final name (`Map.java:269`): after a broken
  transfer or a kill a partial one counts as downloaded. `AllEndedMeansComplete`
  speaks of loaders that ended well.
* A second try at a map can leave its dialog for ever
  (`DownloadMapsActivity.java:100`).
* On a first launch without a network `connectionError` dismisses a dialog that
  was never made (`MainMenu.java:331`), and the application ends.
* After a download from the menu its dialog stays (`MainMenu.java:267` is
  commented out).
* `LocDBHelper.pointStore` is never allocated, and the thread `pointCheck` is
  started at every position: the first position on a map ends the application
  (`MapViewActivity.java:248`). Before that the view centres where the position
  is not, as the vertical coordinate counts from the other side.
* `bitmapData` outlives the screen (`bitmap.c:203-207`): a map whose file cannot be
  decoded, opened after one that can, is redrawn around the position with pixels
  of that other map. `KnownOrigin` allows a map that is not `readable` these pixels,
  and says that they come from nowhere else and not before a position is known.
* A pinch that is cancelled leaves `isMultiTouch` set (`MapView.java:176`), so the
  next move of a single finger calls `getX(1)`; so does one whose end was the
  event the view swallowed. `SecondFingerIsThere` and `NoJump` leave these gestures
  out (`spoiled`). The first move of a pinch is measured against the distance the
  one before has left (line 213), and `ZoomFollowsFingers` does not speak of it.
* `jfdctint.c:1472` and `1874` use terms that were not scaled, so forward
  transforms of 12 and 14 points are not the cosine transform. `jpeg_fdct_15x15`
  (2036, 2120) loses half a bit, which is harmless.
* `jdpostct.c:224` limits the rows left in a strip without those already sent,
  so that with strips higher than two rows the second pass returns lines below
  the picture.
* `jddctmgr.c:262` holds that a component without a table has coefficients of
  zero; when output is asked for a scan ahead of the input, its coefficients
  have come by then.

## What is proved

Of the download, for every number of threads, inodes, pieces, versions and
starts, and every set of faults, from `DbAssumption` alone:

* `TypeCorrect`: `Spec => []TypeOK`, of the unrestricted program.
* `NeverTorn`, `NeverOlder`: `NoTornDatabase` and `NewestOrNothing` are invariants
  of `SerialSpec`.
* `AlwaysSound`: `SoundDatabase`, from the first three.
* `StableSnapshot`: `SerialSpec => ReaderSnapshot`.
* `SuccessIsTrue` and `Refinement`: if the two faults the code does not notice
  (error pages, a failed `renameTo`) do not happen, `SerialSpec` implies
  `SuccessMeansInstalled` and implements `DbInstaller`. The condition is needed
  because the code looks at neither the HTTP status nor the result of
  `renameTo`; that one download runs at a time is needed too ("Known
  disagreements").
* `QuietIsWhole`: any number of downloads at once leave a whole file when they
  are quiet (`QuietMeansWhole`), if `OneAnswer` holds: the server has one version
  and no fault leaves part of a file. Without it the file they share can be torn.

The argument. `NoTornDatabase` is not inductive: renaming is safe only because
the file renamed is whole, that because the copy loop wrote all of the answer to
that very file, and that because no one else has it under another name or open.
`SerialInv` says so: `OneAtATime`; `Progress(t)`, the pieces written so far are
a prefix of the answer, and all of it from `delete` on; `TmpIsPrivate`, the
`.tmp` file is neither the database nor what a reader has open;
`BodyIsRecent(t)`, what a worker has buffered is no older than what was
installed; `StateIsFinal(t)`, the load state of a worker past its download is 1
or 2. `SerialStep` proves it inductive, one step for each action; `OthersIdle`
disposes of the other threads and `SkeletonIsNew` of the file Android creates.

For the refinement, `ExactInv` adds what is installed at each place of the
worker: state 3 belongs to a download under way (`LoadingIsOwned`), the answer
is a version, nothing is installed when it comes to the renaming, its answer is
after it, and so state 1 at the switch means a version is there. `Simulation`
maps `Begin`, `FailDownload`, `DeleteOld`, `RenameTmp`, `Finish`, `ClearCache`
and `Kill` to the actions of `DbInstaller`, and every other step to a stutter.

For `QuietIsWhole` no thread is alone, so nothing private to a thread helps.
`SharedInv` says that a file under either name is whole, or a skeleton that no
one writes to, or that somebody is filling it and has filled what it has passed
(`Healthy`). A second worker that opens the file again empties it, and is then
the one that fills it; whoever writes a piece writes what every other would have
written there (`WritingHeals`), which is where one version is needed.

Of the downloading of pictures, for any number of maps, visits, taps and pieces
(module `MapImage_proofs`): `PictureIsWhole`, that is `AllEndedMeansComplete`;
`DialogAlwaysProtects`, `DialogProtects`; and `MessagesAreAlwaysTrue`,
`MessagesAreTrue`. `ImageInv` has four parts. The types; `Linked`, that a thread
belongs to a tap, a tap to a visit and a message to a tap; `LastOpener`, that
among the loaders of a file that exists one has it open and has all it wrote in
it, which holds whatever is tried how often; and `FirstInv`, that while no map is
tried twice in a visit only the threads of the last tap run, under their dialog
(`OnlyLastRuns`), that the load state of the map says how far they have come
(`LastTap`), and that one message at most is posted and tells that state
(`LastMessage`). `DialogProtects` needs these together: no other row can be
tapped while the dialog is up, only the message takes it down, and the message is
posted when the load has ended.

Of the main menu, for any number of databases and downloads, overlapping or not
(`MainMenu_proofs`): `MissingIsAlwaysBeingRepaired` and `FailuresAreAlwaysTold`,
that is `MissingIsBeingRepaired` and `FailuresAreTold`, the types included. `MenuInv`
adds that a worker or a clearing thread runs only after it was started
(`NoWorkerAhead`). For the missing file (`FileInv`): unless two workers had written
one `.tmp` file, the file belongs to the one worker that has written it and not yet
renamed it (`HeldByOne`), so that a worker that deletes has something to rename.
For the failures (`TellInv`): a worker that was not overtaken reads at its switch
the state it has set itself (`ReadsOwn`), 2 just if it failed (`FailedSoFar`), and
none has told of a stage it is not past (`ToldIsPassed`).

Of the map screen, for pictures of any size, any window larger than the mark,
any positions and any number of visits, from `RenderAssumption` and
`ScreenAssumption` (module `MapScreen_proofs`): `ScreenTypes`, `OriginIsKnown`,
`NothingIsLeft`, `AlertIsTrue` and `MarksAreErased`, that is `TypeOK`,
`KnownOrigin`, `NothingOutlivesTheScreen`, `SignalAlertIsTrue` and `CleanWindow`;
and `PictureAlwaysExplained`, that is `PictureIsExplained`. `CleanWindow` needs that
a view not yet drawn is blank (`NewIsBlank`), that a position is never negative
(`CircleIsWhole`), and that every pixel within reach lies in the window
(`WindowIsWide`), which is where the arithmetic of `First` and `Last` is used.
`KnownOrigin` needs the first two again, for a map that cannot be decoded, and for
one that can that the buffer holds it (`RestoredFromOwn`): once it was drawn
first, nothing else is put there until another screen is drawn.
`SignalAlertIsTrue` needs that a dialog that still shows belongs to a visit
without a position (`ShowingIsWaiting`).

Of touch, for any number of fingers, any places and any limits (`MapScreen_proofs`):
`SecondFinger` and `PinchAlwaysSound`, that is `PinchIsSound`; `NeverJumps`,
`ZoomAlwaysFollows` and so `MapFollowsFingers`, that is the action property
`FollowsFingers`. `TouchInv` adds that a pinch has two fingers unless it was
spoiled (`PinchHasFingers`), and the types need that a step of zooming begins
within the limits. For the action properties, what the view remembers is where
the first finger was at the last event whenever a move would be added to it
(`PrevIsFirst`): lifting one of two fingers sets it anew, whichever it was. And
the distance it remembers is that of the two fingers (`SpanIsKept`).

Of the virtual array, for every number of rows, size of access, amount of memory
and size of chunk, from `VirtualArrayAssumption` alone: `WindowSafe`, that is
`WindowIsSafe`, and `VirtualIsPlain`, that is the refinement
`BehavesAsPlainArray`. The parts of `WindowIsSafe` are inductive together and
none of them alone: moving the window loses nothing because a clean one is what
the file holds (`CleanIsSaved`), every row asked for is in it because it is as
high as the largest access (`WindowIsBacked`), and the pointer of the last
access stays good because only the next one moves the window (`PointerIsGood`).
`TransfersTheDefined` shows that the loop over chunks moves the defined rows of
a window and no others, `FlushedIsRow` and `BufferIsRow` that a defined row has
its content wherever it lives, `WindowHoldsAccess` that the new window holds the
access. `AccessIsPlain` then maps an access to one of `RowArray`, refusals to
refusals, and the moves of rows between memory and file to nothing a caller can
see.

Of the output side of the decompressor, for pictures of any height, sampling and
size of block, at any scale, with any number of lines asked for at once, any
suspensions and any number of passes, each of which may be given up half way
(`OutputRows_proofs`):

* `WholePicture`, that is `WholePictureOnce`, the types included.
* `StagesSuit`, that is `StagesAgree`.
* `CallsBringLines`, that is the action property `EveryCallBringsALine`.

They take `ShortStrips` as a hypothesis: where colors are quantized in two passes,
no component is sampled more than twice as high as another. It is the line
between where `jdpostct.c` is right and the case under "Known disagreements";
without two-pass quantization all samplings are covered. `RowsInvariant` says that
`RowsInv` holds between any two calls. Its heart is `InStep`: the number of the
next line is the number of row groups the main buffer has given, times the lines
of a group, plus the lines the upsampler has given of the group at hand
(`Given`), whether these are counted by `next_row_out` or are the one spare row
of merged upsampling. While `InStep` holds, the rows in the buffer are those of
the iMCU row decoded last (`Holds`), and what the upsampler keeps was made of the
group at hand. `Strips` says where the strip of a quantizer begins and what the
prepass has saved, `Quantized` what there is when it has ended, and `Counted`
what the application has. `InStep` is established by every start of a pass
(`FreshInStep`), whatever the pass before has left, and kept by each upsampler
(`SepUpsampleStep`, `Merged1vStep`, `Merged2vStep`) and through each controller
(`ThroughStep`, `DummyStep`, `SecondPassStep`). `DecodedAtTheEnd` derives from it
that the last line needs the last iMCU row.

The numbers behind it come from `Scaling`: `ScaledSize`, the size of a block at
the scale asked for is 1 to 16; `ScaledBlock`, a component's is that size times
1, 2, 4 or 8, square or twice as long one way, so that `InverseOfEverySize` finds
its routine; `DescribedGeometry`, an iMCU row gives each component a whole number
of row groups, and as many iMCU rows as there are make up the height;
`IdealRows`, no line of the picture is made of a row below its components. A
least number with a property exists (`LeastNatural`, from well-founded
induction), which is how the doubling loop of `jpeg_calc_output_dimensions` is
reasoned about.

Of the input side of the decompressor, for any files in a row, any way of using
the library, and data that arrives in any portions (`DecodeScans_proofs`):

* `PlaceIsAlwaysInside`, the type invariant: an iMCU row that was suspended is
  taken up inside itself, and the API keeps to its states.
* `NoCallWaitsForever`, that is `NoEndlessWait`.
* `TablesAreLatched`, that is `DequantizedAsCoded`.
* `DecodesAsCoded`, that is `DecodedAsCoded`: however the data is cut, each block
  of the picture holds what its scans had for it, and all of it at the end.
* `ShowsAsAsked`, that is `ShownAsAsked`: what is shown of an iMCU row, and what
  smoothing looks at around it, has all the scans up to the one asked for.

The last two have the hypothesis `OncePerScan`, that no scan names a component
twice, which the JPEG standard demands and `get_sos` (`jdmarker.c`) does not
check: the blocks of the second naming are decoded over those of the first. The
files of the run keep to it, one component a scan and several.

`ScanInv` relates the marker reader, the input controller, the coefficient
controller and the state of the API: a file has a marker left until its EOI was
read (`MarkersLeft`); the headers end with a scan that starts only when the
application asks for the picture (`Headers`); the input is inside a scan or has
taken all of it, and once it has taken all of them no scan is asked for that it
has not (`InPlace`); and coefficients are kept unless the picture is shown in
step with its only scan (`Calls`), which is what an output pass waits on.
`TablesInv` adds for the tables that those in force are the last definitions
before the place in the file, or what the file before left (`TablesInForce`);
that no scan before the first one of a picture has used a table (`FirstScan`);
and that a component that has been scanned has saved its table (`TablesSaved`).
Between a file's header and its first pass any number of calls may come, and the
tables may be redefined before the second scan: both are steps in which the last
two parts hold and the property alone would not be enough.

`CodedInv` adds what has been decoded. The number of the scan is the count of
those found before the place in the file (`Sequenced`); the arrays are empty when
the first has been found (`Started`); the row, the MCU row in it and the column
that are kept for a suspended scan say how many of its MCUs were taken, and a
scan that has ended had all of them taken (`Counted`); a picture that is not
kept is not smoothed, and shown with the scan it has (`OnePass`); and a block
holds what the scans before this one had for it, and what this one has if its MCU
is among those taken (`Arrays`). `DecodedAsCoded` alone is not inductive: it
allows a block to be missing before the end, and says nothing of how far a scan
has come.

The step that matters is an MCU's arrival (`McuArrives`). `Coded` goes from the
block to its MCU by division, and the code from the MCU to its blocks by counters;
the two agree because a place in a row of MCUs is a quotient and a remainder
(`QuotientIs`, `QuotientOf`), because the blocks of the components before in the
MCU are as many as `per_scan_setup` counts (`FirstBlockCounts`; that the recursive
function `blocks_in_MCU` has values is `BlocksDefined`, by a smallest
counterexample), and because at the right and bottom edge the last MCU has exactly
the blocks the picture has left (`PartOfCeil`, `Edges`: a component is not larger
than the MCUs of the picture, and larger than all of them but the last).
`BlocksAfter` puts the arrivals of a call together, `TakenAfter` the counters.
`RowsAbove` is what output relies on: of the block rows above the one being read,
all has arrived.

Of the lossless transformations, for pictures of any size and sampling, blocks of
any size, all switches and any number of runs one after the other
(`Transform_proofs`):

* `Invariance`: what a run reads and what it writes are pictures. The arrays have
  the size their header gives, what is shown in them is real, and what was
  written is what the run made of its source.
* `ShowsOnlyThePicture`, that is `OnlyThePicture`: no routine reads beyond the
  source's arrays or writes beyond its workspace, and a file shows no padding.
* `MovesLikeAPicture`, that is `MovesAsAPicture`: every sample is the one that
  turning, mirroring and cropping the source puts there.
* `EdgesAreAsAsked`, that is `EdgesAsAsked`: a perfect or trimmed transform leaves
  no seam, and a crop keeps what was asked for and less than an iMCU more.
* `TablesAreTransposedToo`: blocks are transposed just if the tables are.
* `HeadersAlwaysAgree`, that is `HeadersAgree`: whatever is copied, the file
  written has each marker that may be there once, once, and its Exif size is its
  own. The hypothesis is `OneHeaderFirst`, that the files given have at most one
  JFIF and one Adobe marker: `jcopy_markers_execute` leaves out the one the
  library writes itself, and does not look for doubles among those it copies.

The argument goes from one axis to the picture. `Blocks`, `AreaInside` and
`OppositeInside` are about numbers: the blocks of a crop area, and the mirror
image of a block of a whole iMCU, are blocks of the picture. `MirrorIsOpposite`
says that the code's two ways of counting from the other end, block by block and
in groups of a row of the workspace, agree. `Geometry` and `CropFits` take this to
the frame that `jtransform_request_workspace` computes, with its factors
exchanged or not, and with the sizes a crop and a trim leave. `CellsAsPlaces` is
the heart of it: the eight routines, each with its loops and cases at the edges,
are one rule, which block goes where and how it is turned. `ArraysAreSound` then
says it of the three kinds of destination, a workspace, the source's own array,
and the array flipped in place row by row, where reading what was already
written is the danger (`RowsAreSwapped`). `MovedSamples` and `OppositeSample` go
down from blocks to samples. `TransformInv` is what a run keeps: `Pictured`;
`Reading`, the file is what the run reads until it writes; `Asked`, the workspace
was requested for this source and these switches; `Headed`, the destination has
the header that goes with them; and `AsMade`. That a run reads what the run before
has written is why `Pictured` is part of it. `MarkersInv` says of the markers what
the second run needs to find of the first. What `OfKinds` keeps of a sequence is
defined by recursion over its length: `KeptDefined` shows that there is such a
function and `KeptMarkers` what it keeps, by looking at the first place where it
would be wrong (`FirstFailure`), since the library's theorems on induction cannot
be used with this prover.

Only model-checked:

* Liveness (`DownloadEnds`, `FirstDialogCloses`, `MenuThreadsEnd`, `WaitingEnds`,
  `EveryFinishEnds`), which needs fairness and `ENABLED`: beyond the proof
  system.
* Two downloads at once, but for `QuietMeansWhole`.
* `BlockCodec`: bounds on the rounding of fixed-point arithmetic over 64 samples.
* `EntropyScan`: `HuffmanTable`, `ScanEncoder` and `ScanDecoder` are recursive
  operators, of which nothing can be proved.

## Not modelled

* The compressor's way from samples to coefficients (`jcapimin.c`, `jcapistd.c`,
  `jccoefct.c`, `jcmainct.c`, `jcprepct.c`, `jcsample.c`, `jcparam.c`,
  `jcmarker.c`): the application never compresses. It is the next thing to
  model, as the mirror of `OutputRows`.
* Reading and writing the fields of markers other than restart markers: their
  content is given to `DecodeScans` and `Transform` as data.
* Arithmetic coding: its state is a probability for every context, too many for
  TLC at any size that says something.
* Color conversion, one-pass quantization, the choice of colors in `jquant2.c`:
  arithmetic of single pixels. The floating-point DCT is out of TLC's reach, the
  fast one is not exact.
* The programs (`cjpeg.c`, `djpeg.c`, ...) and file formats, and memory back
  ends for other systems.
* `Polygon`, `TEA`, `NoteDBHelper`, `NoteBuilder`, `ProxyAlertReceiver`,
  `addProxyAlert`, `Map.getDecryptedImage` and package `olana.map`: no code that
  runs calls them. `SplashScreen` is a timer.
* The database rows as data, the rotation of the mark, the second coordinate of
  touch, the matrix.

Worth doing next: the compressor's front end.
