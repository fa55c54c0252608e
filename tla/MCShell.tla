------------------------------ MODULE MCShell ------------------------------
EXTENDS Shell

MCPrompt == <<">">>
MCBanner == <<"a", Newline>>

\* A line that fits, a line that wraps, and text that scrolls the
\* whole screen away.
MCOutputs ==
  {<<"a", Newline>>, <<"a", "a", "a", "a", Newline>>,
   <<"a", Newline, Newline, "a", Newline>>}
=============================================================================
