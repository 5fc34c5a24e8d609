--------------------------- MODULE MCHttpResponse ---------------------------
EXTENDS HttpResponse

\* One ordinary final status, one without a body, one that is not final;
\* one framing header and one other.
CONSTANTS length, other

MCFinalStatuses == {200, 204}
MCBodilessStatuses == {204}
MCOtherStatuses == {100}
MCNames == {length, other}
MCFramingNames == {length}
=============================================================================
