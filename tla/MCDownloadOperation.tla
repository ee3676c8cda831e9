------------------------- MODULE MCDownloadOperation -------------------------
(* Bounds for the model checking of DownloadOperation.                      *)
EXTENDS DownloadOperation

MCOperations == 1..2

AllOptions == [mayOverwrite : BOOLEAN, reserveSpace : BOOLEAN, tryContinue : BOOLEAN,
               inheritPermissions : BOOLEAN, doCleanup : BOOLEAN]

\* Either space is reserved or an earlier download is continued.
OneWay == {o \in AllOptions : ~(o.reserveSpace /\ o.tryContinue)}
ReserveAndContinue == {o \in AllOptions : o.reserveSpace /\ o.tryContinue}
Anew == {o \in AllOptions : ~o.tryContinue}
Continue == {o \in OneWay : o.tryContinue}
=============================================================================
