---------------------------- MODULE ImagePipeline ----------------------------
(***************************************************************************)
(* One run of `imagecustomizer customize` (customizeImageOptionsHelper),    *)
(* `convert`, `inject-files` or `create`: a writable raw image is made, a   *)
(* fixed sequence of stages works on it, each through a loopback device or  *)
(* image connection of its own, and one of the last writes the output.      *)
(*                                                                          *)
(* The stages hand the image to each other through a file, and only that    *)
(* file: what a stage wrote is in it once its device is gone.  A stage that  *)
(* is closed with Close instead of CleanClose, or fails, leaves a device     *)
(* behind that may still have writes to make (ImageConnection shows that     *)
(* CleanClose leaves none).                                                 *)
(*                                                                          *)
(* The image is abstracted to version numbers: of the root file system, of   *)
(* the ESP, and of the root file system to which each copy of the verity     *)
(* root hash belongs (0: none).                                             *)
(***************************************************************************)
EXTENDS Naturals, Sequences

CONSTANT
    IsoExports   \* are configurations included that ask for artifacts or the
                 \* SELinux policy of an input ISO whose OS is not customized?

ASSUME IsoExportsAssumption == IsoExports \in BOOLEAN

VARIABLES
    config,        \* the ResolvedConfig
    raw,           \* each raw image file: "absent", "left" by an earlier run, or "made"
    rawImageFile,  \* rc.RawImageFile
    image,         \* the image that the stages see
    stage,         \* the stage in hand, an index of Stages
    attached,      \* the files with a device of the stage in hand
    lingering,     \* devices of earlier stages: "none", "clean" or "dirty"
    store,         \* the directory of the input ISO's artifacts exists
    tools,         \* the tools chroot is open
    output,        \* the image as it was when the output was written
    removeFailed,  \* a file that could not be removed
    failing,       \* an error is on its way to main
    pc

stageVars == <<image, stage, attached>>
vars == <<config, raw, rawImageFile, image, stage, attached, lingering, store, tools,
          output, removeFailed, failing, pc>>

-----------------------------------------------------------------------------
(* Configurations.                                                          *)

\* What the stages look at.  "base": the base image has verity partitions that
\* are kept read-only; "reinit": they are reinitialized; "new": added.
Configs ==
    [command : {"customize", "convert", "inject", "create"}, inputIsIso : BOOLEAN, os : BOOLEAN, liveChange : BOOLEAN,
     storage : {"none", "partitions", "resetUuids"},
     output : {"image", "cosi", "live"}, verity : {"none", "new", "base", "reinit"},
     uki : {"none", "create", "modify", "passthrough"},
     artifacts : BOOLEAN, selinuxPolicy : BOOLEAN, toolsDir : BOOLEAN, preview : BOOLEAN]

\* rc.CustomizeOSPartitions
CustomizeOSPartitions(c) == c.os \/ c.storage = "partitions"

\* Config.IsValid, validateUkiModifyMode and validateUkiPassthroughMode, for a
\* configuration without base configurations.  A change of partitions needs
\* os.bootloader.resetType, which those two UKI modes exclude.
IsValid(c) ==
    /\ c.storage # "none" => c.os /\ c.uki \notin {"modify", "passthrough"}
    /\ c.uki # "none" => c.os
    /\ c.uki \in {"modify", "passthrough"} => c.verity # "new"
    /\ c.uki = "passthrough" => c.verity # "reinit"
    /\ c.verity = "reinit" => c.preview

\* validateIsoPxeCustomization
validateIsoPxeCustomization(c) ==
    c.inputIsIso => c.output = "live" /\ c.storage # "partitions"

\* Configurations left out of the model: a base image whose verity partitions
\* are dropped by a new partition layout, and verity in a LiveOS image.
InScope(c) ==
    /\ c.verity \in {"base", "reinit"} => c.storage # "partitions"
    /\ c.output = "live" => c.verity = "none"
    /\ c.liveChange => c.inputIsIso
    /\ c.inputIsIso /\ ~CustomizeOSPartitions(c) /\ (c.artifacts \/ c.selinuxPolicy) => IsoExports

\* ValidateConfig
ValidateConfig ==
    {c \in Configs : /\ c.command = "customize"
                     /\ IsValid(c) /\ validateIsoPxeCustomization(c) /\ InScope(c)}

\* The commands without a configuration of the OS: of their settings only the output
\* format and the tools directory, of their input UKIs and verity.
NoSettings ==
    [command |-> "convert", inputIsIso |-> FALSE, os |-> FALSE, liveChange |-> FALSE,
     storage |-> "none", output |-> "image", verity |-> "none", uki |-> "none",
     artifacts |-> FALSE, selinuxPolicy |-> FALSE, toolsDir |-> FALSE, preview |-> FALSE]

\* ConvertImageOptions and InjectFilesOptions; neither writes a LiveOS.
Options(cmd, format, v, u, dir) ==
    [NoSettings EXCEPT !.command = cmd, !.output = format, !.verity = v, !.uki = u, !.toolsDir = dir]

ConvertAndInjectOptions ==
    {Options(cmd, format, v, u, dir) :
        cmd \in {"convert", "inject"}, format \in {"image", "cosi"}, v \in {"none", "base"},
        u \in {"none", "passthrough"}, dir \in BOOLEAN}

\* validateCreateImageConfig: a disk, packages and a tools directory are required; verity,
\* UKIs and an input are refused.
validateCreateImageConfig ==
    {[NoSettings EXCEPT !.command = "create", !.os = TRUE, !.storage = "partitions",
                        !.toolsDir = TRUE, !.preview = TRUE]}

-----------------------------------------------------------------------------
(* Stages.                                                                  *)

Files == {"image.raw", "image2.raw"}

\* Mutation: the file systems are shrunk after the hash tree is made.
customizeStagesVerityFirst ==
    <<"validateTargetOs", "customizePartitions", "customizeImageHelper",
      "collectVerityMetadataFromImage", "customizeVerityImage", "shrinkFilesystemsHelper",
      "createUki", "collectOSInfo", "checkFileSystems",
      "outputArtifacts", "outputSelinuxPolicy", "convertWriteableFormatToOutputImage">>

\* Mutation: the OS is described before the UKIs are made.
customizeStagesInfoFirst ==
    <<"validateTargetOs", "customizePartitions", "customizeImageHelper",
      "collectVerityMetadataFromImage", "shrinkFilesystemsHelper", "customizeVerityImage",
      "collectOSInfo", "createUki", "checkFileSystems",
      "outputArtifacts", "outputSelinuxPolicy", "convertWriteableFormatToOutputImage">>

\* The order of customizeOSContents and customizeImageOptionsHelper.
customizeStages ==
    <<"validateTargetOs", "customizePartitions", "customizeImageHelper",
      "collectVerityMetadataFromImage", "shrinkFilesystemsHelper", "customizeVerityImage",
      "createUki", "collectOSInfo", "checkFileSystems",
      "outputArtifacts", "outputSelinuxPolicy", "convertWriteableFormatToOutputImage">>

\* A COSI file describes the OS as it is before its file systems are shrunk.
convertRawImageToOutputFormat ==
    <<"prepareImageConversionData", "shrinkFilesystemsHelper", "convertWriteableFormatToOutputImage">>

\* convertImageToCosi; the other formats are one call of qemu-img from the input.
ConvertImage ==
    IF config.output = "cosi"
    THEN <<"initToolsChroot", "convertImageToRaw">> \o convertRawImageToOutputFormat
         \o <<"toolsChrootCleanClose">>
    ELSE <<"ConvertImageFileFromAnyFormat">>

injectFilesWithOptions ==
    <<"initToolsChroot", "convertImageToRaw", "injectFilesIntoImage">>
    \o convertRawImageToOutputFormat \o <<"toolsChrootCleanClose">>

CreateImage ==
    <<"CreateNewImage", "initToolsChroot", "CustomizeImageHelperCreate", "toolsChrootCleanClose",
      "convertWriteableFormatToOutputImage">>

Stages ==
    CASE config.command = "customize" ->
            <<"convertInputImageToWriteableFormat", "initToolsChroot">> \o customizeStages
            \o <<"toolsChrootCleanClose">>
      [] config.command = "convert" -> ConvertImage
      [] config.command = "inject" -> injectFilesWithOptions
      [] OTHER -> CreateImage

InOSContents(s) ==
    s \notin {"convertInputImageToWriteableFormat", "initToolsChroot", "outputArtifacts",
              "outputSelinuxPolicy", "convertWriteableFormatToOutputImage", "toolsChrootCleanClose"}

\* Stages that do not work on the image.
WithoutImage(s) ==
    s \in {"convertInputImageToWriteableFormat", "convertImageToRaw", "initToolsChroot",
           "toolsChrootCleanClose"}

\* customizeOSContents returns at once for an ISO whose OS is not customized.
customizeOSContents == CustomizeOSPartitions(config) \/ ~config.inputIsIso

\* The condition under which the stage is run at all.
Runs(s) ==
    /\ InOSContents(s) => customizeOSContents
    /\ s = "customizePartitions" => config.storage # "none"
    /\ s = "collectVerityMetadataFromImage" => config.verity = "new"
    /\ s \in {"shrinkFilesystemsHelper", "collectOSInfo", "prepareImageConversionData"} =>
          config.output = "cosi"
    /\ s = "customizeVerityImage" => config.verity # "none"
    /\ s = "createUki" => config.uki \in {"create", "modify"}
    /\ s = "outputArtifacts" => config.artifacts
    /\ s = "outputSelinuxPolicy" => config.selinuxPolicy

\* Mutation: the reconstruction of the raw image ignores changes to LiveOS settings.
RebuildRawForOSOnly == CustomizeOSPartitions(config)

\* rebuildFullOsImage of convertInputImageToWriteableFormat (the input is an ISO).
RebuildRaw == CustomizeOSPartitions(config) \/ config.liveChange

\* rebuildFullOsImage of convertWriteableFormatToOutputImage.
RebuildFullOsImage == CustomizeOSPartitions(config) \/ ~config.inputIsIso \/ config.liveChange

\* repackageLiveOS works on the ISO's artifacts alone.
UsesRawImage(s) ==
    /\ ~WithoutImage(s) /\ s # "ConvertImageFileFromAnyFormat"
    /\ s = "convertWriteableFormatToOutputImage" /\ config.output = "live" => RebuildFullOsImage

\* createImageBoilerplate truncates the file.
MakesRawImage(s) == s = "CreateNewImage"

\* The files to which a stage attaches a device.  qemu-img reads the file itself.
Opens(s) ==
    CASE s = "customizePartitions" /\ config.storage = "partitions" -> Files
      [] s = "convertWriteableFormatToOutputImage" /\ config.output = "image" -> {}
      [] ~UsesRawImage(s) -> {}
      [] OTHER -> {rawImageFile}

\* The files that a stage may write to through its device: those it mounts
\* writable, or formats.
Writes(s) ==
    CASE s = "customizePartitions" ->
            IF config.storage = "partitions" THEN {"image2.raw"} ELSE {rawImageFile}
      [] s \in {"customizeImageHelper", "shrinkFilesystemsHelper", "customizeVerityImage",
                "createUki", "injectFilesIntoImage", "CreateNewImage",
                "CustomizeImageHelperCreate"} -> {rawImageFile}
      [] s = "convertWriteableFormatToOutputImage" /\ config.output = "live" -> {rawImageFile}
      [] OTHER -> {}

\* Mutation: the customized image is closed without waiting for its device.
LeftToDeferMore(s) == s \in {"validateTargetOs", "customizeImageHelper"}

\* Stages that return without a CleanClose (createLiveOSFromRaw is one).
LeftToDefer(s) ==
    \/ s = "validateTargetOs"
    \/ s = "convertWriteableFormatToOutputImage" /\ config.output = "live"

Current == Stages[stage]

-----------------------------------------------------------------------------

Versions == 0 .. 8

Images == [root : Versions, esp : Versions, hash : Versions, bootHash : Versions,
           espHash : Versions, kernelInfo : Versions, cosiEsp : Versions]

NoImage == [root |-> 0, esp |-> 0, hash |-> 0, bootHash |-> 0, espHash |-> 0,
            kernelInfo |-> 0, cosiEsp |-> 0]

TypeOK ==
    /\ config \in Configs
    /\ raw \in [Files -> {"absent", "left", "made"}]
    /\ rawImageFile \in Files
    /\ image \in Images
    /\ stage \in 1 .. Len(Stages)
    /\ attached \subseteq Files
    /\ lingering \in [Files -> {"none", "clean", "dirty"}]
    /\ {store, tools, failing} \subseteq BOOLEAN
    /\ output \in Images
    /\ removeFailed \subseteq Files \cup {"from-iso"}
    /\ pc \in {"stage", "attached", "worked", "deferClose", "deferTools", "deferStore",
               "deferRaw", "exited"}

\* The build directory may hold the files of a run that was killed.
Init ==
    /\ config \in ValidateConfig \cup ConvertAndInjectOptions \cup validateCreateImageConfig
    /\ raw \in [Files -> {"absent", "left"}]
    /\ rawImageFile = "image.raw"
    /\ image = NoImage
    /\ stage = 1
    /\ attached = {}
    /\ lingering = [f \in Files |-> "none"]
    /\ store = FALSE /\ tools = FALSE
    /\ output = NoImage
    /\ removeFailed = {}
    /\ failing = FALSE
    /\ pc = "stage"

-----------------------------------------------------------------------------
(* The input, and the tools chroot.                                         *)

\* Mutation: one stage too many.
NextStageOffByOne ==
    /\ stage' = stage + 1
    /\ pc' = IF stage <= Len(Stages) THEN "stage" ELSE "deferTools"

NextStage ==
    IF stage < Len(Stages)
    THEN stage' = stage + 1 /\ pc' = "stage"
    ELSE pc' = "deferTools" /\ UNCHANGED stage

At(s) == pc = "stage" /\ Current = s

\* The base image: with verity, its root hash is in grub.cfg or in the UKI.
BaseImage ==
    LET hash == IF config.verity \in {"base", "reinit"} THEN 1 ELSE 0 IN
    [root |-> 1, esp |-> 1, hash |-> hash,
     bootHash |-> IF config.uki = "none" THEN hash ELSE 0,
     espHash |-> IF config.uki = "none" THEN 0 ELSE hash,
     kernelInfo |-> 0, cosiEsp |-> 0]

\* convertImageToRaw is what is left of it for an input that is no ISO.
convertInputImageToWriteableFormat ==
    /\ At("convertInputImageToWriteableFormat") \/ At("convertImageToRaw")
    /\ store' = config.inputIsIso
    /\ IF config.inputIsIso /\ ~RebuildRaw
       THEN UNCHANGED <<raw, image>>
       ELSE /\ raw' = [raw EXCEPT !["image.raw"] = "made"]
            /\ image' = BaseImage
    /\ NextStage
    /\ UNCHANGED <<config, rawImageFile, attached, lingering, tools, output,
                   removeFailed, failing>>

\* An error: the artifacts that were extracted are not handed to the caller's
\* deferred clean-up.
ConvertInputFails ==
    /\ At("convertInputImageToWriteableFormat") \/ At("convertImageToRaw")
    /\ store' \in {FALSE, config.inputIsIso}
    /\ raw' \in {raw, [raw EXCEPT !["image.raw"] = "made"]}
    /\ failing' = TRUE
    /\ pc' = IF config.command = "customize" THEN "deferRaw" ELSE "deferTools"
    /\ UNCHANGED <<config, rawImageFile, stageVars, lingering, tools, output, removeFailed>>

\* Only `customize` has more to clean up than the tools chroot.
AfterTools == IF config.command = "customize" THEN "deferStore" ELSE "exited"

\* validateToolsDir and initToolsChroot, whose own Close after an error may fail.
initToolsChroot ==
    /\ At("initToolsChroot")
    /\ \/ /\ tools' = config.toolsDir
          /\ NextStage
          /\ UNCHANGED failing
       \/ /\ config.toolsDir
          /\ failing' = TRUE
          /\ tools' \in BOOLEAN
          /\ pc' = AfterTools
          /\ UNCHANGED stage
    /\ UNCHANGED <<config, raw, rawImageFile, image, attached, lingering, store, output,
                   removeFailed>>

-----------------------------------------------------------------------------
(* A stage opens the image, works on it and closes it.                      *)

StageSkipped ==
    /\ pc = "stage" /\ ~Runs(Current)
    /\ NextStage
    /\ UNCHANGED <<config, raw, rawImageFile, image, attached, lingering, store, tools,
                   output, removeFailed, failing>>

\* connectToExistingImage, reconnectToExistingImage or NewLoopback.
StageOpens ==
    /\ pc = "stage" /\ Runs(Current) /\ ~WithoutImage(Current)
    /\ UsesRawImage(Current) /\ ~MakesRawImage(Current) => raw[rawImageFile] # "absent"
    /\ attached' = Opens(Current)
    /\ raw' = IF "image2.raw" \in Writes(Current) /\ rawImageFile = "image.raw"
              THEN [raw EXCEPT !["image2.raw"] = "made"]
              ELSE IF MakesRawImage(Current) THEN [raw EXCEPT ![rawImageFile] = "made"]
              ELSE raw
    /\ pc' = "attached"
    /\ UNCHANGED <<config, rawImageFile, image, stage, lingering, store, tools, output,
                   removeFailed, failing>>

StageFails ==
    /\ pc \in {"stage", "attached", "worked"} /\ Runs(Current) /\ ~WithoutImage(Current)
    /\ failing' = TRUE
    /\ pc' = "deferClose"
    /\ UNCHANGED <<config, raw, rawImageFile, stageVars, lingering, store, tools, output,
                   removeFailed>>

\* Stage s does its work.
Work(s, newImage) ==
    /\ pc = "attached" /\ Current = s
    /\ image' = newImage
    /\ pc' = "worked"
    /\ UNCHANGED <<config, raw, rawImageFile, stage, attached, lingering, store, tools,
                   removeFailed, failing>>

ReadOnlyRoot == config.verity = "base"

\* The hash partition is not one of the file systems whose UUID can be reset.
customizePartitions ==
    /\ config.storage = "resetUuids" => config.verity \notin {"base", "reinit"}
    /\ Work("customizePartitions", [image EXCEPT !.root = @ + 1])
    /\ UNCHANGED output

\* doOsCustomizations; for a UKI, prepareUki notes the kernel command line, with
\* the root hash that it has now, in uki-kernel-info.json.
customizeImageHelper ==
    /\ Work("customizeImageHelper",
            [image EXCEPT !.root = IF ReadOnlyRoot THEN @ ELSE @ + 1,
                          !.kernelInfo = IF config.uki \in {"create", "modify"}
                                         THEN image.espHash ELSE @])
    /\ UNCHANGED output

shrinkFilesystemsHelper ==
    /\ Work("shrinkFilesystemsHelper", [image EXCEPT !.root = IF ReadOnlyRoot THEN @ ELSE @ + 1])
    /\ UNCHANGED output

\* Mutation: the command line noted for the UKI is not updated.
KernelArgsForVerityGrubOnly(hash) == [image EXCEPT !.hash = hash, !.bootHash = hash]

\* updateKernelArgsForVerity: the root hash goes into grub.cfg or, for a UKI,
\* into uki-kernel-info.json.
KernelArgsForVerity(hash) ==
    IF config.uki \in {"create", "modify"}
    THEN [image EXCEPT !.hash = hash, !.kernelInfo = hash]
    ELSE [image EXCEPT !.hash = hash, !.bootHash = hash]

customizeVerityImage ==
    /\ Work("customizeVerityImage", IF ReadOnlyRoot THEN image ELSE KernelArgsForVerity(image.root))
    /\ UNCHANGED output

\* The UKI, or its addon, is built with the command line of uki-kernel-info.json.
createUki ==
    /\ Work("createUki", [image EXCEPT !.esp = @ + 1, !.espHash = image.kernelInfo])
    /\ UNCHANGED output

\* The packages and the boot entries that a COSI file describes.
collectOSInfo ==
    /\ Work("collectOSInfo", [image EXCEPT !.cosiEsp = image.esp])
    /\ UNCHANGED output

prepareImageConversionData ==
    /\ Work("prepareImageConversionData", [image EXCEPT !.cosiEsp = image.esp])
    /\ UNCHANGED output

\* What is injected is what outputArtifacts gave away to be signed: files of the ESP.
injectFilesIntoImage ==
    /\ Work("injectFilesIntoImage", [image EXCEPT !.esp = @ + 1])
    /\ UNCHANGED output

\* createNewImageHelper: partitions, file systems and fstab.
CreateNewImage ==
    /\ Work("CreateNewImage", [NoImage EXCEPT !.root = 1, !.esp = 1])
    /\ UNCHANGED output

\* doOsCustomizationsCreate: packages, boot loader and scripts.
CustomizeImageHelperCreate ==
    /\ Work("CustomizeImageHelperCreate", [image EXCEPT !.root = @ + 1, !.esp = @ + 1])
    /\ UNCHANGED output

\* Stages that only look at the image.
Inspect ==
    /\ Current \in {"validateTargetOs", "collectVerityMetadataFromImage", "checkFileSystems",
                    "outputArtifacts", "outputSelinuxPolicy"}
    /\ Work(Current, image)
    /\ UNCHANGED output

\* A LiveOS cannot be made from an image with UKIs.
convertWriteableFormatToOutputImage ==
    /\ config.output # "cosi"
    /\ config.output = "live" => config.uki = "none"
    /\ Work("convertWriteableFormatToOutputImage", image)
    /\ output' = image

\* The partitions are read through a device of its own and packed with the metadata.
convertToCosi ==
    /\ config.output = "cosi"
    /\ Work("convertWriteableFormatToOutputImage", image)
    /\ output' = image

ConvertImageFileFromAnyFormat ==
    /\ Work("ConvertImageFileFromAnyFormat", BaseImage)
    /\ output' = BaseImage

-----------------------------------------------------------------------------

\* Devices of the stage that are closed without waiting for them.
Lingering(files) ==
    [f \in Files |-> IF f \in files \cap Writes(Current) THEN "dirty"
                     ELSE IF f \in files /\ lingering[f] = "none" THEN "clean"
                     ELSE lingering[f]]

\* The check of ErrVerityPreviewFeatureRequired after customizeImageHelper.
VerityPreviewRequired ==
    Current = "customizeImageHelper" /\ config.verity \in {"base", "reinit"} /\ ~config.preview

\* Mutation: rc.RawImageFile is not updated.
NewRawImageFileForgotten == rawImageFile

\* customizeOSContents goes on with the file that customizePartitions returns.
NewRawImageFile ==
    IF Current = "customizePartitions" /\ config.storage = "partitions"
    THEN "image2.raw"
    ELSE rawImageFile

\* os.Remove of file f, whose error is ignored.
TryRemove(f) ==
    \/ raw' = [raw EXCEPT ![f] = "absent"] /\ UNCHANGED removeFailed
    \/ removeFailed' = removeFailed \cup {f} /\ UNCHANGED raw

\* CleanClose returns nil, or the stage returns and its deferred Close runs.
\* After a change of file the old one is removed.
StageCloses ==
    /\ pc = "worked" /\ ~VerityPreviewRequired
    /\ attached' = {}
    /\ lingering' = IF LeftToDefer(Current) THEN Lingering(attached) ELSE lingering
    /\ rawImageFile' = NewRawImageFile
    /\ IF "image2.raw" \in Writes(Current) /\ rawImageFile = "image.raw"
       THEN TryRemove("image.raw")
       ELSE UNCHANGED <<raw, removeFailed>>
    /\ NextStage
    /\ UNCHANGED <<config, image, store, tools, output, failing>>

\* The image has been closed, and customizeOSContents gives up.
ErrVerityPreviewFeatureRequired ==
    /\ pc = "worked" /\ VerityPreviewRequired
    /\ attached' = {}
    /\ failing' = TRUE
    /\ pc' = "deferTools"
    /\ UNCHANGED <<config, raw, rawImageFile, image, stage, lingering, store, tools, output,
                   removeFailed>>

toolsChrootCleanClose ==
    /\ At("toolsChrootCleanClose")
    /\ \/ tools' = FALSE /\ NextStage /\ UNCHANGED failing
       \/ tools /\ failing' = TRUE /\ pc' = "deferTools" /\ UNCHANGED <<tools, stage>>
    /\ UNCHANGED <<config, raw, rawImageFile, image, attached, lingering, store, output,
                   removeFailed>>

-----------------------------------------------------------------------------
(* Deferred calls, and the kernel.                                          *)

\* The deferred Close of the stage that failed; a new partition layout that
\* was not finished is removed.
StageDeferredClose ==
    /\ pc = "deferClose"
    /\ lingering' = Lingering(attached)
    /\ attached' = {}
    /\ IF Current = "customizePartitions" /\ config.storage = "partitions"
          /\ raw["image2.raw"] # "absent"
       THEN TryRemove("image2.raw")
       ELSE UNCHANGED <<raw, removeFailed>>
    /\ pc' = "deferTools"
    /\ UNCHANGED <<config, rawImageFile, image, stage, store, tools, output, failing>>

toolsChrootClose ==
    /\ pc = "deferTools"
    /\ tools' \in {tools, FALSE}
    /\ pc' = AfterTools
    /\ UNCHANGED <<config, raw, rawImageFile, stageVars, lingering, store, output,
                   removeFailed, failing>>

inputIsoArtifactsCleanUp ==
    /\ pc = "deferStore"
    /\ \/ store' = FALSE /\ UNCHANGED <<removeFailed, failing>>
       \/ /\ store
          /\ removeFailed' = removeFailed \cup {"from-iso"}
          /\ failing' = TRUE
          /\ UNCHANGED store
    /\ pc' = "deferRaw"
    /\ UNCHANGED <<config, raw, rawImageFile, stageVars, lingering, tools, output>>

cleanUp ==
    /\ pc = "deferRaw"
    /\ TryRemove(rawImageFile)
    /\ failing' = (failing \/ removeFailed' # removeFailed)
    /\ pc' = "exited"
    /\ UNCHANGED <<config, rawImageFile, stageVars, lingering, store, tools, output>>

\* The kernel writes back what a lingering device still has, and then frees it.
DeviceReleased(f) ==
    /\ lingering[f] # "none"
    /\ lingering' = [lingering EXCEPT ![f] = IF @ = "dirty" THEN "clean" ELSE "none"]
    /\ UNCHANGED <<config, raw, rawImageFile, stageVars, store, tools, output,
                   removeFailed, failing, pc>>

Exited == pc = "exited" /\ UNCHANGED vars

Next ==
    \/ convertInputImageToWriteableFormat \/ ConvertInputFails \/ initToolsChroot
    \/ StageSkipped \/ StageOpens \/ StageFails
    \/ customizePartitions \/ customizeImageHelper \/ shrinkFilesystemsHelper
    \/ customizeVerityImage \/ createUki \/ collectOSInfo \/ Inspect
    \/ prepareImageConversionData \/ injectFilesIntoImage
    \/ CreateNewImage \/ CustomizeImageHelperCreate
    \/ convertWriteableFormatToOutputImage \/ convertToCosi \/ ConvertImageFileFromAnyFormat
    \/ StageCloses \/ ErrVerityPreviewFeatureRequired \/ toolsChrootCleanClose
    \/ StageDeferredClose \/ toolsChrootClose \/ inputIsoArtifactsCleanUp \/ cleanUp
    \/ (\E f \in Files : DeviceReleased(f))
    \/ Exited

Spec == Init /\ [][Next]_vars

-----------------------------------------------------------------------------
(* Properties.                                                              *)

\* The files that the stage in hand reads or writes.
InUse ==
    attached \cup (IF pc = "attached" /\ UsesRawImage(Current) THEN {rawImageFile} ELSE {})

\* A stage never works on a file to which the device of an earlier stage may
\* still write: in every command a stage that writes is closed with CleanClose before the
\* next one opens the image.
NoStaleImage == \A f \in InUse : lingering[f] # "dirty"

\* A stage that works on rc.RawImageFile finds the file that this run made, not
\* none, and not one that a run which was killed left in the build directory.
RawImagePresent ==
    pc \in {"stage", "attached"} /\ Runs(Current) /\ UsesRawImage(Current)
    /\ ~MakesRawImage(Current) => raw[rawImageFile] = "made"

\* When the output is written, the hash tree is that of the root file system in
\* it, and so is the root hash that the boot loader or the UKI passes on.
VerityMatchesRoot ==
    output # NoImage /\ config.verity # "none" =>
        /\ output.hash = output.root
        /\ output.hash = (IF config.uki = "none" THEN output.bootHash ELSE output.espHash)

\* The description in a COSI file is of the ESP that is in it.
CosiMetadataCurrent ==
    output # NoImage /\ config.output = "cosi" => output.cosiEsp = output.esp

\* However a run of `customize` ends, a raw image that it made is left in the build
\* directory only if its removal failed.  The other commands do not remove theirs.
RawFilesRemoved ==
    pc = "exited" /\ config.command = "customize" =>
        \A f \in Files : raw[f] = "made" => f \in removeFailed
=============================================================================
