---------------------------- MODULE MCXmlCopies ----------------------------
(* XmlCopies for TLC: every class, objects on which a few calls are made. *)
EXTENDS XmlCopies
=============================================================================
