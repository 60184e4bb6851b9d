----------------------------- MODULE MCReadline -----------------------------
(* Readline with lines of up to three characters.                           *)
EXTENDS Readline

MCLines == UNION {[1..n -> Chars] : n \in 1..LDISC_MAX_LINE - 1}

=============================================================================
