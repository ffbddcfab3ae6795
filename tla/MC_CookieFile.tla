---------------------------- MODULE MC_CookieFile ----------------------------
(* CookieFile with a 2-byte cookie and one- or two-digit ports.            *)
EXTENDS CookieFile

MCHost == <<"h", ":">>
\* Address texts for a one- and a two-digit port.
MCAddrTexts == {MCHost \o <<"1">>, MCHost \o <<"1", "2">>}
\* Before the handle is opened: no file, a torn cookie, a record with a
\* longer address than any written here, a cookie with no address.
MCOldContents == {<<>>, <<"x">>, <<"y", "y">> \o MCHost \o <<"2", "2", "2">>,
                  <<"x", "y">>}
=============================================================================
