----------------------------- MODULE MCScanOutput -----------------------------
(***************************************************************************)
(* Small instances of ScanOutput for TLC.                                  *)
(***************************************************************************)
EXTENDS ScanOutput, TLC

CONSTANTS i1, i2, claim, bucket, folder

Path(slashes, f) == [pad |-> {}, slashes |-> slashes, folder |-> f]

To(type, store_, path) ==
    [mikebom |-> TRUE, format |-> "cyclonedx-json",
     output  |-> [type |-> type, store |-> store_, padded |-> FALSE,
                  secret |-> type # "Pvc", prefix |-> path]]

Pvc       == To("Pvc", claim, Path(1, folder))
S3        == To("S3", bucket, Path(0, folder))
S3Slash   == To("S3", bucket, Path(2, folder))
Oci       == To("Oci", bucket, Path(0, Absent))
OciSpdx   == [Oci EXCEPT !.format = "spdx-2.3-json"]
PvcBlanks == [Pvc EXCEPT !.output.prefix.pad = {"front"}]
S3Blanks  == [S3 EXCEPT !.output.padded = TRUE, !.output.prefix.pad = {"back"}]
NoClaim   == To("Pvc", Absent, Path(0, Absent))
NoSecret  == [S3 EXCEPT !.output.secret = FALSE]
NoMikebom == [Oci EXCEPT !.mikebom = FALSE]

Users == {Pvc, S3, S3Slash, Oci, OciSpdx, PvcBlanks, S3Blanks, NoClaim, NoSecret, NoMikebom}

OneOfEach == {Pvc, S3, Oci}

ImageSymmetry == Permutations(Images)
=============================================================================
