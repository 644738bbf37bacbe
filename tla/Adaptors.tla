------------------------------- MODULE Adaptors -------------------------------
(***************************************************************************)
(* processing/adaptorV2.cxx and processing/inporters/: what the adaptors   *)
(* of a Catalyst stage read of a file, and the description that is made of *)
(* it for catalyst_execute.                                                *)
(*                                                                         *)
(* A stage has a sequence of scripts, each [script, variables], the latter *)
(* a sequence.  An adaptor is [reader, arrays]: the arrays it hands to     *)
(* coprocess.  A description is [fields, kept]: a field is [data, part],   *)
(* the number of the data object that its values are in and the layers it  *)
(* holds, and kept is the number of the one object the descriptor keeps, 0 *)
(* for none.                                                               *)
(***************************************************************************)
EXTENDS Sections, SequencesExt

CONSTANTS
    Format,         \* the first reader that can read the file, of "netcdf",
                    \* "image", "pimage", "rectilinear"; "other" if none can
    Layers,         \* the number of layers (lenZ) of each file
    Arrays          \* the variables or arrays in each file

XMLFormats == {"image", "pimage", "rectilinear"}

ASSUME AdaptorsAssumption ==
    LET files == DOMAIN Format
    IN  /\ Format \in [files -> {"netcdf", "other"} \cup XMLFormats]
        /\ Layers \in [files -> Nat]
        /\ DOMAIN Arrays = files

(* ProcessingSpecCatalyst::process.  For a NetCDF file there is an adaptor *)
(* for each variable of each script.  The other readers ignore the         *)
(* variables and hand on what the file holds.                              *)
VariablesOf(scripts) == FlattenSeq([n \in DOMAIN scripts |-> scripts[n].variables])

AdaptorsFor(scripts, f) ==
    CASE Format[f] = "netcdf" ->
            LET names == VariablesOf(scripts)
            IN  [n \in DOMAIN names |-> [reader |-> "netcdf", arrays |-> {names[n]}]]
      [] Format[f] \in XMLFormats ->
            [n \in DOMAIN scripts |-> [reader |-> Format[f], arrays |-> Arrays[f]]]
      [] OTHER -> <<>>

(* What inporter i reads: its own layers of a NetCDF file, all of another. *)
LayersRead(reader, f, i) ==
    IF reader = "netcdf" THEN Extent(Layers[f], SectionSize, SectionIndex(i))
    ELSE 0..(Layers[f] - 1)

NoData == [fields |-> [name \in {} |-> 0], kept |-> 0]

(* Adaptor::coprocess.  There is one channel for all adaptors.  The node   *)
(* refers to the values of the object, it does not copy them; the          *)
(* descriptor keeps the last object only.                                  *)
Coprocessed(description, arrays, part) ==
    LET data == description.kept + 1
    IN  [fields |-> [name \in arrays \cup DOMAIN description.fields |->
                        IF name \in arrays THEN [data |-> data, part |-> part]
                        ELSE description.fields[name]],
         kept |-> data]

SkipsEmptySections(description, adaptor, f, i) ==   \* mutant
    IF LayersRead(adaptor.reader, f, i) = {} THEN description
    ELSE Coprocessed(description, adaptor.arrays, LayersRead(adaptor.reader, f, i))

ReadPart(description, adaptor, f, i) ==
    Coprocessed(description, adaptor.arrays, LayersRead(adaptor.reader, f, i))

(* Reading what cannot be opened, or a variable that is not in the file.   *)
(* The netCDF reader's asserts are not compiled in a release build, so it  *)
(* goes on with dimensions that were never set, which ends the program or  *)
(* gives a field without layers of the file.  The others give empty data.  *)
Undetermined(adaptor, f, gone) ==
    adaptor.reader = "netcdf" /\ (gone \/ ~(adaptor.arrays \subseteq Arrays[f]))

ReadNothing(description, adaptor) ==
    Coprocessed(description, IF adaptor.reader = "netcdf" THEN adaptor.arrays ELSE {}, {})

(* An adaptor's process. *)
Described(description, adaptor, f, i, gone) ==
    IF gone \/ Undetermined(adaptor, f, gone) THEN ReadNothing(description, adaptor)
    ELSE ReadPart(description, adaptor, f, i)
=============================================================================
