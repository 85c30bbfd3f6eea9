-------------------------- MODULE MCClientArtifacts --------------------------
(***************************************************************************)
(* The native jobs of a device's install, one per behavior: apply a diff,  *)
(* decompress a file, rebuild a directory, extract a bundle; and the       *)
(* packed integers the diff is written in. The jobs share their variables: *)
(* "input" is what the job is given, r1..r9 are its own.                   *)
(***************************************************************************)
EXTENDS Integers, Sequences

CONSTANTS
    ByteBits, UIntBits, NumberByteBits, NumberUIntBits, CacheSize,
    InSizes, OutSizes, BlockMax, Overlength,
    MaxOpen, PieceSizes, Wrong, MaxReads,
    Block, NameField, PrefixField, MaxLongName, MaxDevicePath, MaxSegment,
    ValidatorPath, Buffer, MaxRleLen, MaxCovers

VARIABLES kind, input, pc, out, result, ioFailed, r1, r2, r3, r4, r5, r6, r7, r8, r9

vars == <<kind, input, pc, out, result, ioFailed, r1, r2, r3, r4, r5, r6, r7, r8, r9>>

Number == INSTANCE MCPackedUInt
    WITH ByteBits <- NumberByteBits, UIntBits <- NumberUIntBits,
         value <- input, tagBits <- r1, tag <- r2

DiffInputs == INSTANCE MCPatchStream
FileInputs == INSTANCE MCZstdStream
PatchInputs == INSTANCE MCDirPatch
BundleInputs == INSTANCE MCBundleArchive

Patch == INSTANCE PatchStream
    WITH diff <- input, clip <- r1, size <- r2, covers <- r3, rle <- r4, coverCount <- r5,
         job <- r6, chunk <- r7

Zstd == INSTANCE ZstdStream
    WITH file <- input, inSize <- r1, outSize <- r2, filePos <- r3, in <- r4, moved <- r5,
         zds <- r6, dctx <- r7, outBuff <- r8, lastStatus <- r9

\* DirPatch, with its theorems for MCClientArtifacts_proofs.
Dir == INSTANCE DirPatch_proofs
    WITH patch <- input, files <- out, path <- r1, new <- r2, sums <- r3, handles <- r4,
         read <- r5, reads <- r6, Data <- PatchInputs!FileBytes

Tar == INSTANCE BundleArchive
    WITH bundle <- input, tar <- r1, complete <- r2, at <- r3, header <- r4,
         longName <- r5, left <- r6, bytes <- r7

ASSUME Number!ByteBitsAssumption /\ Number!UIntBitsAssumption
ASSUME Patch!ByteBitsAssumption /\ Patch!UIntBitsAssumption
ASSUME Patch!CacheSizeAssumption /\ DiffInputs!MaxRleLenAssumption
ASSUME Zstd!SizesAssumption
ASSUME Dir!LimitAssumption
ASSUME Tar!ProfileAssumption

Init ==
    \/ kind = "number" /\ Number!Init /\ pc = "value" /\ out = <<>> /\ result = "running"
       /\ ioFailed = FALSE /\ r3 = 0 /\ r4 = 0 /\ r5 = 0 /\ r6 = 0 /\ r7 = 0 /\ r8 = 0 /\ r9 = 0
    \/ kind = "patch" /\ input \in DiffInputs!AllDiffs /\ Patch!Init /\ r8 = 0 /\ r9 = 0
    \/ kind = "zstd" /\ input \in FileInputs!AllFiles /\ Zstd!Init
    \/ kind = "dir" /\ input \in PatchInputs!AllPatches /\ Dir!Init
       /\ ioFailed = FALSE /\ r7 = 0 /\ r8 = 0 /\ r9 = 0
    \/ kind = "tar" /\ input \in BundleInputs!AllBundles /\ Tar!Init
       /\ r8 = 0 /\ r9 = 0

Next ==
    /\ UNCHANGED kind
    /\ \/ kind = "number" /\ Number!NextValue
          /\ UNCHANGED <<pc, out, result, ioFailed, r3, r4, r5, r6, r7, r8, r9>>
       \/ kind = "patch" /\ Patch!Next /\ UNCHANGED <<r8, r9>>
       \/ kind = "zstd" /\ Zstd!Next
       \/ kind = "dir" /\ Dir!Next /\ UNCHANGED <<ioFailed, r7, r8, r9>>
       \/ kind = "tar" /\ Tar!Next /\ UNCHANGED <<r8, r9>>

\* The thread that runs the job is not stopped while the process lives.
Spec == Init /\ [][Next]_vars /\ WF_vars(Next)

-----------------------------------------------------------------------------
\* A packed integer is read back with its tag, whatever follows it (patch.c).
NumberReadBack == kind = "number" => Number!ReadBack

\* The size computed before a packed integer is written is its size, and fits the
\* buffers of the decoder.
NumberSizeIsKnown == kind = "number" => Number!SizeIsKnown

\* A packed integer that is cut short or would lose bits is refused.
BadNumberRefused == kind = "number" => Number!IncompleteOrTooLargeRefused

\* The buffers of patch_single_stream_diff hold no more than they have room for.
PatchTypeOK == kind = "patch" => Patch!TypeOK

\* A diff as hdiffz writes it, received whole, is refused only when a read or a write
\* fails: writer and reader agree on steps, covers, run lengths and step memory.
CompleteDiffApplies == kind = "patch" => Patch!CompleteDiffApplies

\* What a diff has written, its buffer included, is a beginning of the new data.
OutputIsNewData == kind = "patch" => Patch!OutputIsNewData

\* An archive that arrived whole is decompressed unless the disk fails, wherever the
\* buffers of codemagic_patch_decompress_zstd_file cut its frames.
CompleteFileDecompresses == kind = "zstd" => Zstd!CompleteFileDecompresses

\* hpatch_dir answers "ok" only over the whole new directory, byte for byte.
OkMeansWholeDirectory == kind = "dir" => Dir!OkMeansWholeDirectory

\* The old files are read as one stream through at most MaxOpen handles.
ReadsOldData == kind = "dir" => Dir!ReadsOldData

\* What the server's archive writer accepts, the device's extractor installs.
AcceptedBundleInstalls == kind = "tar" => Tar!AcceptedBundleInstalls

\* What a job is to rebuild, and what of it is there: a directory counts as written when
\* the client takes it over. The numbers' only job is to come to an end.
Wanted == CASE kind = "patch" -> input.new
            [] kind = "zstd" -> Zstd!Content(input.frames)
            [] kind = "dir" -> Dir!Target(input)
            [] kind = "tar" -> input
            [] OTHER -> <<>>
Rebuilt == CASE kind = "patch" -> out.written
             [] kind = "dir" /\ result # "ok" -> <<>>
             [] OTHER -> out
Answer == IF kind = "number" /\ input + 1 \notin Number!StreamPos THEN "ok" ELSE result

Rebuilds == INSTANCE Rebuild WITH target <- Wanted, out <- Rebuilt, result <- Answer

\* Every job is a decoder as Rebuild has it: never wrong, and answered in the end.
ImplementsRebuild == Rebuilds!Spec
=============================================================================
