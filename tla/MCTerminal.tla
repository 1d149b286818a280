----------------------------- MODULE MCTerminal -----------------------------
(***************************************************************************)
(* TLC instances of Terminal: scripts of up to three lines, and sessions   *)
(* at the prompt that type, paste and press keys.                          *)
(***************************************************************************)
EXTENDS Terminal

MCMiddle ==
    {<<"sp", "w", "sq", "sp", "cmt", ";">>, <<"sq", "bs", "sq", ";", "dq">>, <<";", "sp", "w", ";", ";">>}

\* Lines that end, continue or hold several statements, with blanks, quotes
\* over two lines, escapes and comments where they matter.
MCLines ==
    {<<"w", ";">>, <<"sp", "w", "sp", "w">>, <<";", "sp", "w", ";", ";">>,
     <<"w", ";", "sp", "cmt", "w">>, <<"cmt", "w", ";">>,
     <<"sp", "w", "sq", "sp", "cmt", ";">>, <<"sq", "bs", "sq", ";", "dq">>,
     <<"use", "sp", "w", ";", "exit">>}

MCFiles ==
    {<<>>} \cup UNION {[1..n -> MCLines] : n \in 1..2}
           \cup {<<a, b, c>> : a \in MCLines, b \in MCMiddle, c \in MCMiddle}

MCChunks ==
    {<<"up">>, <<"w", "down">>, <<"search">>, <<"edit">>, <<"enter">>,
     <<";", "enter">>, <<"w", ";", ";", "enter">>, <<"w", "up", "sq">>, <<"search", "down">>,
     <<"w", "enter", "sq", ";", "sq", ";", "sp", "cmt", "enter", ";", "enter">>}
MCHistory == <<<<"w", "sp", "w", ";">>>>
=============================================================================
