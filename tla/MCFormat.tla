------------------------------ MODULE MCFormat ------------------------------
(* Format on every call of up to three pieces, with 16-bit words, and on    *)
(* the calls of fkprintf and kprintf that the kernel has.                   *)
EXTENDS Format

Part(f, a, t) == [format |-> f, args |-> a, text |-> t]

Pieces ==
  {Part(<<"A">>, <<>>, <<"A">>), Part(<<"d", " ">>, <<>>, <<"d", " ">>),
   Part(<<"%", "%">>, <<>>, <<"%">>), Part(<<"%", "z">>, <<>>, <<"%", "z">>),
   Part(<<"%", "c">>, <<"%">>, <<"%">>),
   Part(<<"%", "s">>, <<<<"%", "d">>>>, <<"%", "d">>),
   Part(<<"%", "s">>, <<<<>>>>, <<>>),
   Part(<<"%", "s">>, <<NULL>>, <<"(", "n", "u", "l", "l", ")">>),
   Part(<<"%", "d">>, <<0>>, <<"0">>), Part(<<"%", "u">>, <<1090>>, <<"1", "0", "9", "0">>),
   Part(<<"%", "d">>, <<-1>>, <<"6", "5", "5", "3", "5">>),
   Part(<<"%", "x">>, <<0>>, <<"0", "x", "0">>),
   Part(<<"%", "p">>, <<43962>>, <<"0", "x", "a", "b", "b", "a">>),
   Part(<<"%", "x">>, <<4096>>, <<"0", "x", "1", "0", "0", "0">>)}

Plain(t) == Part(t, <<>>, t)

(* kernel.c:9, 18, 80 and 81, and fb.c:117, with short numbers. *)
Kernel ==
  {<<Plain(<<"A", " ">>)>>, <<Plain(<<"B", " ">>)>>,
   <<Plain(<<"m", "q", "o", "s", "-", "r", "v", " ", "s", "t", "a", "r",
             "t", "e", "d", "LF">>)>>,
   <<Plain(<<"h", "e", "a", "p", ":", " ", "~">>),
     Part(<<"%", "u">>, <<3>>, <<"3">>),
     Plain(<<" ", "m", "b", " ", "/", " ", "6", "4", " ", "m", "b", "LF">>)>>,
   <<Plain(<<"B", "a", "c", "k", "b", "u", "f", "f", "e", "r", " ", "i",
             "s", " ", "i", "n", " ", "h", "e", "a", "p", " ", "a", "t", " ">>),
     Part(<<"%", "p">>, <<43962>>, <<"0", "x", "a", "b", "b", "a">>),
     Plain(<<" ", "(", "S", "i", "z", "e", ":", " ">>),
     Part(<<"%", "u">>, <<36864>>, <<"3", "6", "8", "6", "4">>),
     Plain(<<" ", "b", "y", "t", "e", "s", ")", "LF">>)>>}

MCCalls == Kernel \cup UNION {[1 .. n -> Pieces] : n \in 0 .. 3}

=============================================================================
