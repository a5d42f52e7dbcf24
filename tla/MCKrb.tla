-------------------------------- MODULE MCKrb --------------------------------
EXTENDS Krb

T(kind, renewable, addr) == [kind |-> kind, life |-> 0, renewable |-> renewable, addr |-> addr]

Tgt == T("tgt", TRUE, TRUE)
OldTgt == T("tgt", FALSE, FALSE)
Cross == T("cross", TRUE, TRUE)
Service == T("service", FALSE, TRUE)

\* A cache may hold several TGTs, after a kinit for another lifetime, and tickets for
\* services before or after them.
MCCaches == { Absent, <<>>, << Tgt >>, << Service, Tgt >>, << OldTgt, Tgt >>, << Tgt, Cross >>,
              << Cross, OldTgt, Service >>, << Service >> }

Every == AllFns

\* Both ends, and two retries on two daemons.
EverySide == AllSides

\* get and get_fwd fill the buffer that the others start from.
WithInput == {<<>>, << Tgt >>, << OldTgt, Cross >>}
=============================================================================
