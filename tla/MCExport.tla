------------------------------ MODULE MCExport ------------------------------
(* Export with pages of one or two rows, over a table of three rows. *)
EXTENDS Export, TLC

CONSTANTS csv, fi

MCSamples == {[place |-> fi, sources |-> {}], [place |-> None, sources |-> {csv}]}
MCFilters == {NoFilter, [place |-> fi, source |-> None], [place |-> None, source |-> csv]}
MCLimits == {None, 0, 5}
MCCursors == {2}

WriterSymmetry == Permutations(Writers)
=============================================================================
