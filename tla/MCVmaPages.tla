----------------------------- MODULE MCVmaPages -----------------------------
EXTENDS VmaPages

\* All pages of one table, and one of the kernel half that shares none with them; none
\* at a multiple of the largest entry.  Pages 2 and 3 may be mapped in a row.
MCRanges == {<<2, 1, 9>>, <<3, 1, 9>>, <<3, 1, 10>>, <<6, 1, 9>>}
=============================================================================
