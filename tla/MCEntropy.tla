----------------------------- MODULE MCEntropy ------------------------------
(***************************************************************************)
(* Blocks of six coefficients: short and long runs of zeroes, coefficients *)
(* that appear in the first and in the refinement scan, and ends of band.  *)
(***************************************************************************)
EXTENDS EntropyScan

Block(a, b, c, d, e, f) ==
  [k \in 0 .. LimSe |-> <<a, b, c, d, e, f>>[k + 1]]

Flat == Block(3, 0, 0, 0, 0, 0)
Ones == Block(0, 1, 0, -1, 0, 0)
Far == Block(5, 0, 0, 0, 0, -3)
Dense == Block(-4, 3, -2, 1, 2, -1)
Mixed == Block(1, 0, 2, 0, 0, 1)
Late == Block(-1, 0, 0, 0, 0, 1)
Strong == Block(-7, 2, -3, 2, 3, -2)

Part(first, last, Ah, Al) ==
  [progressive |-> TRUE, Ss |-> first, Se |-> last, Ah |-> Ah, Al |-> Al]
Progressive == <<Part(0, 0, 0, 1), Part(1, LimSe, 0, 1), Part(0, 0, 1, 0), Part(1, LimSe, 1, 0)>>
Slow == <<Part(0, 0, 0, 0), Part(1, 2, 0, 0), Part(3, LimSe, 0, 2), Part(3, LimSe, 2, 1),
          Part(3, LimSe, 1, 0)>>
Baseline == <<[progressive |-> FALSE, Ss |-> 0, Se |-> LimSe, Ah |-> 0, Al |-> 0]>>

File(script, blocks, interval) ==
  [script |-> script, blocks |-> blocks, interval |-> interval, limit |-> LimSe + 1,
   elsewhere |-> Nothing, lossy |-> FALSE]

(* What another component of the scan has sent with the same tables.       *)
Skewed == [dc |-> (0 :> 9) @@ (1 :> 5) @@ (2 :> 3) @@ (3 :> 2) @@ (4 :> 1) @@ (5 :> 1),
           ac |-> (0 :> 13) @@ (1 :> 8) @@ (2 :> 5) @@ (17 :> 3) @@ (33 :> 2) @@ (18 :> 1)]

Triples(shapes) == {<<a, b, c>> : a \in shapes, b \in shapes, c \in shapes}

SomeFiles ==
  {File(Progressive, blocks, interval) :
      blocks \in Triples({Flat, Far, Dense, Mixed}), interval \in {0, 2}}
  \cup {File(Slow, blocks, 1) : blocks \in {<<Strong, Far>>, <<Dense, Strong>>, <<Late, Mixed>>}}
  \cup {File(Progressive, blocks, 0) :
          blocks \in {<<Strong, Strong, Late, Strong>>, <<Flat, Flat, Flat, Flat, Late>>,
                      <<Ones, Late, Ones>>, <<Mixed, Ones, Dense, Flat>>}}
  \cup {[File(Baseline, blocks, interval) EXCEPT
              !.limit = limit, !.elsewhere = IF interval = 0 THEN Skewed ELSE Nothing] :
          blocks \in Triples({Flat, Far, Dense}), interval \in {0, 1},
          limit \in {0, 2, LimSe + 1}}
  \cup {[File(script, blocks, 2) EXCEPT !.lossy = TRUE] :
          script \in {Progressive, Baseline}, blocks \in {<<Dense, Far, Flat, Mixed>>}}
  \cup {[File(Progressive, <<Mixed, Ones, Strong>>, 1) EXCEPT !.lossy = TRUE],
        [File(Baseline, <<Flat, Ones, Flat, Flat, Far, Flat, Flat, Flat>>, 1)
            EXCEPT !.lossy = TRUE]}
=============================================================================
