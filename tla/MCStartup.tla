------------------------------ MODULE MCStartup ------------------------------
(* Instances of Startup for TLC.                                           *)
EXTENDS Startup

\* One option of each kind, the three options a sharing program needs, two
\* variants, a number that fits a port, one that does not, the empty word, and an id.
SomeWords ==
    {"-v", "-V", "-a", "-f", "-D", "-P", "-p", "-I", "--ft_sending_give_up_after",
     "sha1_info", "id1", "id", "1", "70000", ""}

\* Files of up to five bytes: up to three chunks, the last one full or not.
SmallFiles == UNION {[1 .. n -> {0, 1}] : n \in 0 .. 5}

\* A name that leaves room in its field, and one that fills it.
SomeNames == {<<1>>, <<1, 1>>}
=============================================================================
