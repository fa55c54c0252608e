-------------------------- MODULE MCWindowManager --------------------------
EXTENDS WindowManager

Win(x, y, w, h, t) == [x |-> x, y |-> y, width |-> w, height |-> h, title_len |-> t]

\* As in kernel_main the third window lies over the first; it also sticks out
\* of the screen on the right.
MCLayout == <<Win(2, 0, 3, 3, 1), Win(0, 1, 2, 2, 2), Win(4, 0, 3, 2, 1)>>

\* Two solid pixels, one of them off the hot spot.
MCSprite == {<<0, 0>>, <<1, 1>>}

MCMouseEvents ==
  {[dx |-> d[1], dy |-> d[2], left |-> l] :
     d \in {<<1, 0>>, <<-3, 0>>, <<0, 1>>, <<0, -2>>}, l \in BOOLEAN}
=============================================================================
