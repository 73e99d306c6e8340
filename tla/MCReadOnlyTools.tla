--------------------------- MODULE MCReadOnlyTools ---------------------------
EXTENDS ReadOnlyTools

CONSTANTS upper, lower, quoted

\* An unquoted identifier is stored in upper case; a quoted lower-case sibling
\* and a quoted name outside the allowlist are warehouses of their own.
MCStored == [n \in {upper, lower, quoted} |-> IF n = lower THEN upper ELSE n]

\* A run from the cache, two billed ones and one of another text.
Run(same, cached, seconds) == [same |-> same, cached |-> cached, seconds |-> seconds]

MCHistories == {
  {Run(TRUE, TRUE, 0)},
  {Run(TRUE, TRUE, 0), Run(TRUE, FALSE, 8), Run(TRUE, FALSE, 40)},
  {Run(FALSE, FALSE, 2)} }

=============================================================================
