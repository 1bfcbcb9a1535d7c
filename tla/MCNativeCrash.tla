---------------------------- MODULE MCNativeCrash ----------------------------
(***************************************************************************)
(* Five images of which three go into the table: one of two segments with  *)
(* a gap and a build id behind another note, one without a load segment    *)
(* but with a build id, one of three bytes without, which finds that id in *)
(* its slot, one with spaces in its name, and one the table has no room    *)
(* for.  Words have three nibbles.  The crashes are at the first and the   *)
(* last byte of an image and past it, inside the image that is not in the  *)
(* table, with and without a link register, and one was sent.              *)
(***************************************************************************)
EXTENDS NativeCrash

CONSTANTS t1, t2

MCImages ==
    << [ name |-> <<"/lib/libgame.so">>,
         load |-> {[lo |-> 256, size |-> 16], [lo |-> 300, size |-> 212]},
         notes |-> << <<[kind |-> "other", id |-> <<>>],
                        [kind |-> "gnu", id |-> <<"a", "0", "9">>]>>,
                      <<[kind |-> "cut", id |-> <<>>]>> >> ],
       [ name |-> <<"linux-gate">>, load |-> {},
         notes |-> << <<[kind |-> "gnu", id |-> <<"5">>]>> >> ],
       [ name |-> <<"main">>, load |-> {[lo |-> 512, size |-> 3]}, notes |-> << <<>> >> ],
       [ name |-> <<"/opt/my", Space, "b", ".so">>, load |-> {[lo |-> 600, size |-> 50]},
         notes |-> << <<[kind |-> "gnu", id |-> <<"c">>]>> >> ],
       [ name |-> <<"/lib/late.so">>, load |-> {[lo |-> 700, size |-> 100]}, notes |-> <<>> ] >>

Null    == [sig |-> 11, code |-> 1, addr |-> 0, pc |-> 511, lr |-> 512]
Bus     == [sig |-> 7, code |-> 2, addr |-> 4095, pc |-> 515, lr |-> 0]
Stopped == [sig |-> 11, code |-> -6, addr |-> 20, pc |-> 256, lr |-> 700]
Jump    == [sig |-> 11, code |-> 1, addr |-> 0, pc |-> 0, lr |-> 300]

Spaced  == [sig |-> 11, code |-> 1, addr |-> 8, pc |-> 605, lr |-> 0]

MCCrashes == {Null, Bus, Stopped, Jump, Spaced}

\* Only the old handlers of the signals that come make a difference.
Plan(a, b, times) ==
    [ crashes |-> [t \in Threads |-> IF t = t1 THEN a ELSE b],
      olds    |-> {table \in [Signals -> OldHandlers] :
                      \A s \in Signals : table[s] = "default"
                                          \/ \E crash \in Range(a) \cup Range(b) : crash.sig = s},
      fills   |-> times ]

\* One thread crashes, on a disk that fills up; two do, or one crashes and its old
\* handler does too.
MCScenarios ==
    {Plan(<<c>>, <<>>, IF c \in {Null, Stopped, Spaced} THEN 1 ELSE 0) : c \in MCCrashes}
    \cup {Plan(<<Null>>, <<Bus>>, 0), Plan(<<Null>>, <<Jump>>, 0), Plan(<<Bus>>, <<Stopped>>, 0)}
    \cup {Plan(n, <<>>, 0) : n \in {<<Null, Bus>>, <<Null, Jump>>, <<Stopped, Bus>>}}
    \cup {Plan(<<Null, Bus>>, <<Bus>>, 0)}
=============================================================================
