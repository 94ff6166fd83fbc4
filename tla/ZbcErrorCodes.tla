--------------------------- MODULE ZbcErrorCodes ---------------------------
(***************************************************************************)
(* The errno values that the library's functions return, negated.          *)
(***************************************************************************)
EXTENDS Integers

EIO       == -5
ENXIO     == -6
ENOMEM    == -12
EACCES    == -13
ENODEV    == -19
EINVAL    == -22
EMFILE    == -24
ENOTSUP   == -95
ETIMEDOUT == -110
=============================================================================
