--------------------------- MODULE MCDecodeScans ---------------------------
(***************************************************************************)
(* Small files of each kind the input side distinguishes: a luma component *)
(* of 5 x 3 blocks, so that both edges have dummy blocks, and a chroma     *)
(* component of 3 x 2; a grayscale one with sampling factors of 2; tables  *)
(* alone and a file that needs them; and two files that are refused.       *)
(***************************************************************************)
EXTENDS DecodeScans

Comp(h, v, q) == [h |-> h, v |-> v, q |-> q]
FrameOf(progressive, comps) ==
  [height |-> 40, width |-> 24, blockSize |-> 8, comps |-> comps, progressive |-> progressive]
Color(q) == <<Comp(2, 2, 1), Comp(1, 1, q)>>
Gray == <<Comp(2, 2, 1)>>

Dqt(slot, table) == [m |-> "DQT", slot |-> slot, table |-> table]
Sos(comps, ss, al) == [m |-> "SOS", comps |-> comps, Ss |-> ss, al |-> al]
PseudoSos == Sos(<<>>, 0, 0)
EOI == [m |-> "EOI"]
FileOf(frame, markers) == [frame |-> frame, markers |-> markers]

Sequential == FileOf(FrameOf(FALSE, Color(2)), <<Dqt(1, 1), Dqt(2, 2), Sos(<<1, 2>>, 0, 0), EOI>>)
ByComponent == FileOf(FrameOf(FALSE, Color(1)),
                      <<Dqt(1, 1), Sos(<<1>>, 0, 0), Dqt(1, 2), Sos(<<2>>, 0, 0), EOI>>)
Progressive == FileOf(FrameOf(TRUE, Color(1)),
                      <<Dqt(1, 1), PseudoSos, Sos(<<1, 2>>, 0, 0), Dqt(1, 2), Sos(<<1>>, 1, 1),
                        Sos(<<2>>, 1, 0), EOI>>)
Grayscale == FileOf(FrameOf(FALSE, Gray), <<Dqt(1, 3), Sos(<<1>>, 0, 0), EOI>>)
Tables == FileOf(FrameOf(FALSE, <<>>), <<Dqt(1, 4), Dqt(2, 5), EOI>>)
Abbreviated == FileOf(FrameOf(FALSE, Color(2)), <<Sos(<<1, 2>>, 0, 0), EOI>>)
TwiceCoded == FileOf(FrameOf(FALSE, Gray), <<Dqt(1, 1), Sos(<<1>>, 0, 0), Sos(<<1>>, 0, 0), EOI>>)

AllStreams == {<<Sequential, Grayscale>>, <<ByComponent, Abbreviated>>, <<Progressive, Grayscale>>,
               <<Tables, Abbreviated>>, <<Abbreviated, Sequential>>, <<TwiceCoded, Sequential>>}
AllModes == {"plain", "buffered", "coefs"}
=============================================================================
