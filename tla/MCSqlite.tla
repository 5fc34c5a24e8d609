------------------------------ MODULE MCSqlite ------------------------------
\* Two writes, two transaction calls and two nested callbacks are enough for
\* a call inside another one, and for a write between a lost transaction and
\* the next.
EXTENDS Sqlite
=============================================================================
