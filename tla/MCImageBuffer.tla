---------------------------- MODULE MCImageBuffer ----------------------------
(* Small instances of ImageBuffer for TLC.  The geometry checks come along: *)
(* ImageBuffer may count positions in sectors because sectors tile the file.*)
EXTENDS ImageBuffer, MCDiskGeometry
=============================================================================
