-------------------------- MODULE MCLuminalClient --------------------------
(* Instances of LuminalClient for TLC. *)
EXTENDS LuminalClient

CONSTANTS t1, t2

MCThread == {t1, t2}
MCExpiry == {0, 2}

(* No answer at all, an unauthorized one, and one with data. *)
MCAnswers ==
    [via : {"raise"}, status : {0}, read : {"none"}, body : {"none"}, says : {FALSE}]
    \cup [via : {"HTTPError"}, status : {401}, read : {"whole"}, body : {"none"}, says : {FALSE}]
    \cup [via : {"response"}, status : {200}, read : {"whole"}, body : {"data"}, says : {FALSE}]
============================================================================
