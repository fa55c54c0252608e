----------------------------- MODULE MCDesktop -----------------------------
EXTENDS Desktop

Screens ==
  {[width |-> s[1], height |-> s[2], bpp |-> b, stride |-> s[1] + pad] :
     s \in {<<640, 480>>, <<1024, 768>>, <<1280, 720>>, <<1280, 800>>, <<1920, 1080>>},
     b \in {3, 4}, pad \in {0, 64}}
Standard == [width |-> 1024, height |-> 768, bpp |-> 4, stride |-> 1024]

BootKinds ==
  <<[kind |-> "Usable", tag |-> 0], [kind |-> "Bootloader", tag |-> 0],
    [kind |-> "UnknownUefi", tag |-> 0], [kind |-> "UnknownBios", tag |-> 1],
    [kind |-> "UnknownBios", tag |-> 3], [kind |-> "UnknownBios", tag |-> 4],
    [kind |-> "UnknownBios", tag |-> 5], [kind |-> "UnknownBios", tag |-> 20]>>

\* The upper halves of addresses, and bounds below them: the sizes are those at
\* which the unit changes.
Upper ==
  <<<<0, 0, 0, 0, 0, 0, 0, 0>>, <<0, 0, 0, 0, 0, 0, 0, 1>>,
    <<0, 0, 0, 15, 15, 0, 0, 0>>, <<15, 15, 15, 15, 15, 15, 15, 15>>>>
Bounds ==
  <<<<0, 1>>, <<0, 1024>>, <<654336, 655359>>, <<655360, 1048576>>, <<1048576, 2097152>>,
    <<1048576, 2097151>>, <<2097152, 12582912>>, <<0, 1073741824>>, <<0, 1073741823>>,
    <<4096, 14335>>, <<1, 2147483647>>>>

Hex(n) == [k \in 1 .. 8 |-> (n \div 16^(8 - k)) % 16]

Region(j) ==
  LET kind == BootKinds[(j % 8) + 1]
      upper == Upper[(j % 4) + 1]
      bounds == Bounds[(j % 11) + 1]
  IN  [kind |-> kind.kind, tag |-> kind.tag, start |-> upper \o Hex(bounds[1]), end |-> upper \o Hex(bounds[2])]

\* Up to more regions than the list has entries, starting with any of them.
Map(n, first) == [k \in 1 .. n |-> Region(first + k)]
Maps ==
  {Map(n, 0) : n \in {0, 1, 9, 10, 29, 30, 31}} \cup
  {Map(35, first) : first \in {9, 18, 27, 36}}

MCMachines ==
  [screen : Screens \cup {NoScreen}, map : {Map(2, 0)}] \cup [screen : {Standard}, map : Maps]
=============================================================================
