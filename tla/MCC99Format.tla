---------------------------- MODULE MCC99Format ----------------------------
(***************************************************************************)
(* The directives for the TLC runs of C99Format: every conversion with     *)
(* every length modifier that ISO C allows it.                             *)
(***************************************************************************)
EXTENDS C99Format

Directives(convs, widths, precs, suppress) ==
  UNION {[conv : {c}, len : Lengths(c), width : widths, prec : precs, suppress : suppress] :
           c \in convs}

Printf ==
  Directives({"d", "u", "f"}, {"", "*"}, {"", "*"}, {FALSE})
    \cup Directives({"c", "p", "s"}, {"", "*"}, {""}, {FALSE})
    \cup Directives({"n", "%"}, {""}, {""}, {FALSE})

Scanf ==
  Directives({"d", "u", "f", "c", "s", "p", "["}, {""}, {""}, BOOLEAN)
    \cup Directives({"n", "%", "[?"}, {""}, {""}, {FALSE})

\* For three directives in a format.
FewPrintf == {d \in Printf : d.conv \in {"d", "n"} /\ d.len \in {"", "l", "ll"} /\ d.prec = ""}
FewScanf == {d \in Scanf : d.conv \in {"d", "f", "p"} /\ d.len \in {"", "l", "ll"}}
=============================================================================
