------------------------------- MODULE ScanJob -------------------------------
(***************************************************************************)
(* The pure builder of scan_job/mod.rs: the containers and volumes of a    *)
(* scan Job and the place its upload container writes to, and next to it   *)
(* derive_sbom_location of status_aggregator.rs, which tells the user      *)
(* where to look.  Names, images, arguments and labels are left out; a     *)
(* path is the blanks around it, its leading slashes and the folder behind *)
(* them.                                                                   *)
(***************************************************************************)
EXTENDS Naturals

CONSTANTS
    Images,    \* image references, each with a short_image_hash of its own
    Stores,    \* PVC claims, S3 buckets and OCI repositories a spec may name
    Folders,   \* folders a pathPrefix may name
    Absent     \* an unset field, a missing block or a blank name

ASSUME AbsentAssumption == Absent \notin Stores \cup Folders

Formats == {"cyclonedx-json", "spdx-2.3-json", "spdx-3-json"}

\* A prefix of blanks only has no folder and no slash.
Prefix == [pad     : SUBSET {"front", "back"},
           slashes : 0 .. 2,
           folder  : Folders \cup {Absent}]

(* spec.output: its type and the block of that type.  store is the claim,  *)
(* the bucket or the repository with its registry, padded whether it is    *)
(* written with blanks around it; secret says whether the credentials      *)
(* Secret is named; only Pvc and S3 have a prefix.                         *)
Output == [type   : {"Pvc", "S3", "Oci"},
           store  : Stores \cup {Absent},
           padded : BOOLEAN,
           secret : BOOLEAN,
           prefix : Prefix]

\* What the builder reads of a spec; mikebom: mikebomImage is not blank.
ScanSpec == [mikebom : BOOLEAN, format : Formats, output : Output]

-----------------------------------------------------------------------------
(* Where SBOMs are written and said to be. *)

\* The extension of the file, cdx.json and the like: one per format.
scan_format_args(format) ==
    CASE format = "cyclonedx-json" -> "cdx.json"
      [] format = "spdx-2.3-json"  -> "spdx.json"
      [] format = "spdx-3-json"    -> "spdx3.json"

NoPrefix == [pad |-> {}, slashes |-> 0, folder |-> Absent]

trim(prefix) == [prefix EXCEPT !.pad = {}]

\* A slash behind blanks is not a leading one.
strip_leading_slash(prefix) ==
    [prefix EXCEPT !.slashes = IF @ = 0 \/ "front" \in prefix.pad THEN @ ELSE @ - 1]

(* What is left of a prefix in the backend: a file system takes repeated   *)
(* slashes for one, and none at the root; an object key keeps them; an OCI *)
(* tag has no folder.                                                      *)
Seen(type, prefix) ==
    CASE type = "Pvc" -> [prefix EXCEPT !.slashes = IF @ > 0 /\ "front" \in prefix.pad
                                                    THEN 1 ELSE 0]
      [] type = "S3"  -> prefix
      [] type = "Oci" -> NoPrefix

\* Two addresses are equal when the backend takes them for the same.
Address(output, prefix, image, extension) ==
    [type   |-> output.type,
     store  |-> output.store,
     prefix |-> Seen(output.type, prefix),
     image  |-> image,
     ext    |-> IF output.type = "Oci" THEN "" ELSE extension]

\* The destination of output-upload's script or arguments: nothing is trimmed.
upload_address(spec, image) ==
    Address(spec.output, strip_leading_slash(spec.output.prefix), image,
            scan_format_args(spec.format))

\* Mutant: the prefix is forgotten.
derive_without_prefix(spec, image) ==
    Address(spec.output, NoPrefix, image, "json")

\* The prefix is trimmed but not stripped, and the extension is always json.
derive_sbom_location(spec, image) ==
    Address(spec.output, trim(spec.output.prefix), image, "json")

(* The backend has what the upload writes to: no claim, bucket or          *)
(* repository has blanks around its name.                                  *)
StoreExists(output) == ~output.padded

-----------------------------------------------------------------------------
(* The pod template. *)

\* Mutant: the scan is a main container, beside the upload.
scan_beside_upload == [init |-> <<"init-pull">>, main |-> {"mikebom-scan", "output-upload"}]

\* initContainers run one after the other, then the containers at once.
pod_template == [init |-> <<"init-pull", "mikebom-scan">>, main |-> {"output-upload"}]

Containers == {pod_template.init[k] : k \in DOMAIN pod_template.init} \cup pod_template.main

volumes(spec) ==
    {"workdir"}
    \cup (IF spec.output.type = "Pvc" /\ spec.output.store # Absent
          THEN {"pvc-output"} ELSE {})
    \cup (IF spec.output.type = "Oci" /\ spec.output.secret
          THEN {"oci-credentials"} ELSE {})

\* The volumes that the three containers mount.
mounts(spec) ==
    {"workdir"} \cup (CASE spec.output.type = "Pvc" -> {"pvc-output"}
                        [] spec.output.type = "S3"  -> {}
                        [] spec.output.type = "Oci" -> {"oci-credentials"})

\* Mutant: the Secret of an S3 bucket is not asked for.
OutputIsCompleteNoS3Secret(output) ==
    /\ output.store # Absent
    /\ output.type = "Oci" => output.secret

\* build_output_upload_container accepts the output block, blanks or not.
OutputIsComplete(output) ==
    /\ output.store # Absent
    /\ output.type \in {"S3", "Oci"} => output.secret

\* build_scan_job returns a Job.
Buildable(spec) == spec.mikebom /\ OutputIsComplete(spec.output)
=============================================================================
