------------------------ MODULE ImagePipeline_proofs ------------------------
(***************************************************************************)
(* What a run of each command keeps true, for every configuration: the      *)
(* safety properties of ImagePipeline follow from PipelineInv, which says    *)
(* what the image, its files and their devices are at each stage.           *)
(***************************************************************************)
EXTENDS ImagePipeline, TLAPS

\* The configurations of the four commands.
Legal == ValidateConfig \union ConvertAndInjectOptions \union validateCreateImageConfig

On(command, n) == config.command = command /\ stage = n

\* The stages in which no error has been met.
Running == pc \in {"stage", "attached", "worked"}

\* Stage n of the command is done, or was skipped.
Done(command, n) ==
    config.command = command /\ Running /\ (stage > n \/ (stage = n /\ pc = "worked"))

\* Each stage adds one version of the root file system at most, and only the first eight do.
RootInv ==
    /\ image.root <= stage + 1
    /\ pc \in {"stage", "attached"} => image.root <= stage

\* The stage that writes to the ESP.
EspStage == IF config.command = "customize" THEN 9 ELSE 3

EspInv ==
    /\ image.esp <= 2
    /\ Running /\ ~Done(config.command, EspStage) => image.esp <= 1

\* Which of the two files is rc.RawImageFile.
NewLayout == config.command = "customize" /\ config.storage = "partitions"

FileInv ==
    /\ rawImageFile = "image2.raw" => NewLayout /\ stage > 4
    /\ NewLayout /\ Running /\ stage > 4 => rawImageFile = "image2.raw"
    /\ NewLayout /\ stage = 4 /\ pc \in {"attached", "worked"} => raw["image2.raw"] = "made"

\* The command has made its raw image.
RawImageMade ==
    CASE config.command = "customize" -> stage > 1 /\ (config.inputIsIso => RebuildRaw)
      [] config.command = "create" -> stage > 1 \/ pc # "stage"
      [] OTHER -> stage > 2

RawInv == Running /\ RawImageMade => raw[rawImageFile] = "made"

\* A raw image that customize made is rc.RawImageFile, or in the making, or could not be removed.
LeftoverInv ==
    config.command = "customize" =>
        \A f \in Files : raw[f] = "made" =>
            \/ f \in removeFailed
            \/ f = rawImageFile /\ pc # "exited"
            \/ f = "image2.raw" /\ NewLayout /\ stage = 4 /\ pc \in {"attached", "worked", "deferClose"}

UkiBuilt == config.uki \in {"create", "modify"}

\* Verity that is kept: nothing writes to the root file system, and a new UKI gets the root hash
\* of the old one.
BaseInv ==
    config.verity = "base" =>
        /\ image.hash = image.root
        /\ image.hash = (IF config.uki = "none" THEN image.bootHash ELSE image.espHash)
        /\ UkiBuilt /\ Done("customize", 5) => image.kernelInfo = image.hash

\* Verity that is added or reinitialized: nothing writes to the root file system after the hash
\* tree is made.
VerityInv ==
    config.verity \in {"new", "reinit"} =>
        /\ Done("customize", 8) =>
              /\ image.hash = image.root
              /\ image.hash = (IF config.uki = "none" THEN image.bootHash ELSE image.kernelInfo)
        /\ Done("customize", 9) /\ config.uki # "none" => image.espHash = image.hash

\* Nothing writes to the ESP after it is described.
CosiInv ==
    config.output = "cosi" /\ (Done("customize", 10) \/ Done("inject", 4) \/ Done("convert", 3)) =>
        image.cosiEsp = image.esp

\* A device that may still write is left by the last stage that opens the image, or by one that fails.
StaleInv ==
    /\ attached # {} => pc \in {"attached", "worked", "deferClose"}
    /\ (\E f \in Files : lingering[f] = "dirty") =>
           \/ pc \in {"deferTools", "deferStore", "deferRaw", "exited"}
           \/ On("customize", 15) /\ pc = "stage"

\* A stage is opened only if it is to be run.
OpenInv == pc \in {"attached", "worked"} => Runs(Current) /\ ~WithoutImage(Current)

OutputInv == VerityMatchesRoot /\ CosiMetadataCurrent

PipelineInv ==
    /\ config \in Legal /\ TypeOK
    /\ RootInv /\ EspInv /\ FileInv /\ RawInv /\ LeftoverInv
    /\ BaseInv /\ VerityInv /\ CosiInv /\ StaleInv /\ OpenInv /\ OutputInv

-----------------------------------------------------------------------------
(* The stages of each command, and the configurations.                      *)

\* customize: the sequence is put together from three.
LEMMA StagesOfCustomize ==
    ASSUME config.command = "customize"
    PROVE  /\ Len(Stages) = 15
           /\ Stages[1] = "convertInputImageToWriteableFormat" /\ Stages[2] = "initToolsChroot"
           /\ Stages[3] = "validateTargetOs" /\ Stages[4] = "customizePartitions"
           /\ Stages[5] = "customizeImageHelper" /\ Stages[6] = "collectVerityMetadataFromImage"
           /\ Stages[7] = "shrinkFilesystemsHelper" /\ Stages[8] = "customizeVerityImage"
           /\ Stages[9] = "createUki" /\ Stages[10] = "collectOSInfo"
           /\ Stages[11] = "checkFileSystems" /\ Stages[12] = "outputArtifacts"
           /\ Stages[13] = "outputSelinuxPolicy"
           /\ Stages[14] = "convertWriteableFormatToOutputImage"
           /\ Stages[15] = "toolsChrootCleanClose"
<1>1. Stages = <<"convertInputImageToWriteableFormat", "initToolsChroot">> \o customizeStages
                   \o <<"toolsChrootCleanClose">>
  BY DEF Stages
<1> QED
  BY <1>1 DEF customizeStages

\* inject-files.
LEMMA StagesOfInject ==
    ASSUME config.command = "inject"
    PROVE  /\ Len(Stages) = 7
           /\ Stages[1] = "initToolsChroot" /\ Stages[2] = "convertImageToRaw"
           /\ Stages[3] = "injectFilesIntoImage" /\ Stages[4] = "prepareImageConversionData"
           /\ Stages[5] = "shrinkFilesystemsHelper"
           /\ Stages[6] = "convertWriteableFormatToOutputImage" /\ Stages[7] = "toolsChrootCleanClose"
<1>1. Stages = injectFilesWithOptions
  BY DEF Stages
<1> QED
  BY <1>1 DEF injectFilesWithOptions, convertRawImageToOutputFormat

\* convert, to COSI and to the other formats.
LEMMA StagesOfConvert ==
    ASSUME config.command = "convert"
    PROVE  /\ config.output = "cosi" =>
                 /\ Len(Stages) = 6
                 /\ Stages[1] = "initToolsChroot" /\ Stages[2] = "convertImageToRaw"
                 /\ Stages[3] = "prepareImageConversionData" /\ Stages[4] = "shrinkFilesystemsHelper"
                 /\ Stages[5] = "convertWriteableFormatToOutputImage"
                 /\ Stages[6] = "toolsChrootCleanClose"
           /\ config.output # "cosi" =>
                 Len(Stages) = 1 /\ Stages[1] = "ConvertImageFileFromAnyFormat"
<1>1. Stages = ConvertImage
  BY DEF Stages
<1>2. CASE config.output = "cosi"
  BY <1>1, <1>2 DEF ConvertImage, convertRawImageToOutputFormat
<1>3. CASE config.output # "cosi"
  BY <1>1, <1>3 DEF ConvertImage
<1> QED
  BY <1>2, <1>3

\* create.
LEMMA StagesOfCreate ==
    ASSUME config.command = "create"
    PROVE  /\ Len(Stages) = 5
           /\ Stages[1] = "CreateNewImage" /\ Stages[2] = "initToolsChroot"
           /\ Stages[3] = "CustomizeImageHelperCreate" /\ Stages[4] = "toolsChrootCleanClose"
           /\ Stages[5] = "convertWriteableFormatToOutputImage"
<1>1. Stages = CreateImage
  BY DEF Stages
<1> QED
  BY <1>1 DEF CreateImage

\* What the four commands accept, as far as the proofs need it.
LEMMA LegalFacts ==
    ASSUME config \in Legal
    PROVE  /\ config \in Configs
           /\ config.inputIsIso => config.command = "customize" /\ config.output = "live"
           /\ config.output = "live" => config.command = "customize" /\ config.verity = "none"
           /\ config.output = "cosi" => config.command # "create"
           /\ config.verity = "base" => config.storage # "partitions" /\ config.command # "create"
           /\ config.verity \in {"new", "reinit"} =>
                 config.command = "customize" /\ config.uki # "passthrough"
           /\ config.command # "customize" => ~UkiBuilt
           /\ ~IsoExports /\ config.inputIsIso /\ ~CustomizeOSPartitions(config) =>
                 ~config.artifacts /\ ~config.selinuxPolicy
<1>1. CASE config \in ValidateConfig
  <2>1. /\ config \in Configs /\ config.command = "customize"
        /\ IsValid(config) /\ validateIsoPxeCustomization(config) /\ InScope(config)
    BY <1>1 DEF ValidateConfig
  <2> QED
    BY <2>1 DEF Configs, IsValid, validateIsoPxeCustomization, InScope
<1>2. CASE config \in ConvertAndInjectOptions
  <2>1. PICK cmd \in {"convert", "inject"}, format \in {"image", "cosi"}, v \in {"none", "base"},
             u \in {"none", "passthrough"}, dir \in BOOLEAN :
               config = Options(cmd, format, v, u, dir)
    BY <1>2 DEF ConvertAndInjectOptions
  <2>2. /\ config.command = cmd /\ config.output = format /\ config.verity = v /\ config.uki = u
        /\ config.inputIsIso = FALSE /\ config.storage = "none"
    BY <2>1 DEF Options, NoSettings
  <2>3. config \in Configs
    BY <2>1 DEF Options, NoSettings, Configs
  <2> QED
    BY <2>2, <2>3 DEF UkiBuilt
<1>3. CASE config \in validateCreateImageConfig
  <2>1. config = [NoSettings EXCEPT !.command = "create", !.os = TRUE, !.storage = "partitions",
                                    !.toolsDir = TRUE, !.preview = TRUE]
    BY <1>3 DEF validateCreateImageConfig
  <2>2. /\ config.command = "create" /\ config.output = "image" /\ config.verity = "none"
        /\ config.uki = "none" /\ config.inputIsIso = FALSE
    BY <2>1 DEF NoSettings
  <2>3. config \in Configs
    BY <2>1 DEF NoSettings, Configs
  <2> QED
    BY <2>2, <2>3 DEF UkiBuilt
<1> QED
  BY <1>1, <1>2, <1>3 DEF Legal

\* At which stages of which commands the code runs that a stage's name stands for.
LEMMA Positions ==
    ASSUME config \in Legal, stage \in 1 .. Len(Stages)
    PROVE  /\ Current = "convertInputImageToWriteableFormat" <=> On("customize", 1)
           /\ Current = "validateTargetOs" <=> On("customize", 3)
           /\ Current = "customizePartitions" <=> On("customize", 4)
           /\ Current = "customizeImageHelper" <=> On("customize", 5)
           /\ Current = "collectVerityMetadataFromImage" <=> On("customize", 6)
           /\ Current = "customizeVerityImage" <=> On("customize", 8)
           /\ Current = "createUki" <=> On("customize", 9)
           /\ Current = "collectOSInfo" <=> On("customize", 10)
           /\ Current = "checkFileSystems" <=> On("customize", 11)
           /\ Current = "outputArtifacts" <=> On("customize", 12)
           /\ Current = "outputSelinuxPolicy" <=> On("customize", 13)
           /\ Current = "injectFilesIntoImage" <=> On("inject", 3)
           /\ Current = "CreateNewImage" <=> On("create", 1)
           /\ Current = "CustomizeImageHelperCreate" <=> On("create", 3)
           /\ Current = "ConvertImageFileFromAnyFormat" <=> On("convert", 1) /\ config.output # "cosi"
           /\ Current = "convertImageToRaw" <=>
                 On("inject", 2) \/ (On("convert", 2) /\ config.output = "cosi")
           /\ Current = "prepareImageConversionData" <=>
                 On("inject", 4) \/ (On("convert", 3) /\ config.output = "cosi")
           /\ Current = "shrinkFilesystemsHelper" <=>
                 On("customize", 7) \/ On("inject", 5) \/ (On("convert", 4) /\ config.output = "cosi")
           /\ Current = "initToolsChroot" <=>
                 \/ On("customize", 2) \/ On("inject", 1) \/ On("create", 2)
                 \/ On("convert", 1) /\ config.output = "cosi"
           /\ Current = "convertWriteableFormatToOutputImage" <=>
                 \/ On("customize", 14) \/ On("inject", 6) \/ On("create", 5)
                 \/ On("convert", 5) /\ config.output = "cosi"
           /\ Current = "toolsChrootCleanClose" <=>
                 \/ On("customize", 15) \/ On("inject", 7) \/ On("create", 4)
                 \/ On("convert", 6) /\ config.output = "cosi"
           /\ config.command = "customize" => stage \in 1 .. 15 /\ Len(Stages) = 15
           /\ config.command \in {"inject", "convert", "create"} => stage \in 1 .. 7 /\ Len(Stages) \in 1 .. 7
           /\ config.command \in {"customize", "inject", "convert", "create"}
<1>1. config.command \in {"customize", "inject", "convert", "create"}
  BY LegalFacts DEF Configs
<1>2. CASE config.command = "customize"
  <2>1. stage \in 1 .. 15
    BY <1>2, StagesOfCustomize
  <2>2. Current = Stages[stage]
    BY DEF Current
  <2> QED
    BY <1>2, <2>1, <2>2, StagesOfCustomize, SMTT(60) DEF On
<1>3. CASE config.command = "inject"
  <2>1. stage \in 1 .. 7 /\ Current = Stages[stage]
    BY <1>3, StagesOfInject DEF Current
  <2> QED
    BY <1>3, <2>1, StagesOfInject, SMTT(60) DEF On
<1>4. CASE config.command = "convert"
  <2>1. Current = Stages[stage]
    BY DEF Current
  <2>2. CASE config.output = "cosi"
    <3>1. stage \in 1 .. 6
      BY <1>4, <2>2, StagesOfConvert
    <3> QED
      BY <1>4, <2>1, <2>2, <3>1, StagesOfConvert, SMTT(60) DEF On
  <2>3. CASE config.output # "cosi"
    <3>1. stage \in 1 .. 1
      BY <1>4, <2>3, StagesOfConvert
    <3> QED
      BY <1>4, <2>1, <2>3, <3>1, StagesOfConvert, SMTT(60) DEF On
  <2> QED
    BY <2>2, <2>3
<1>5. CASE config.command = "create"
  <2>1. stage \in 1 .. 5 /\ Current = Stages[stage]
    BY <1>5, StagesOfCreate DEF Current
  <2> QED
    BY <1>5, <2>1, StagesOfCreate, SMTT(60) DEF On
<1> QED
  BY <1>1, <1>2, <1>3, <1>4, <1>5

\* The stages that make the raw image are not the last ones.
LEMMA EarlyStages ==
    ASSUME stage \in 1 .. Len(Stages)
    PROVE  /\ On("convert", 2) => config.output = "cosi"
           /\ On("customize", 1) \/ On("inject", 2) \/ On("convert", 2) => stage < Len(Stages)
<1>1. CASE config.command = "customize"
  <2>1. Len(Stages) = 15
    BY <1>1, StagesOfCustomize
  <2> QED
    BY <1>1, <2>1 DEF On
<1>2. CASE config.command = "inject"
  <2>1. Len(Stages) = 7
    BY <1>2, StagesOfInject
  <2> QED
    BY <1>2, <2>1 DEF On
<1>3. CASE config.command = "convert" /\ config.output = "cosi"
  <2>1. Len(Stages) = 6
    BY <1>3, StagesOfConvert
  <2> QED
    BY <1>3, <2>1 DEF On
<1>4. CASE config.command = "convert" /\ config.output # "cosi"
  <2>1. Len(Stages) = 1
    BY <1>4, StagesOfConvert
  <2>2. stage # 2
    BY <2>1
  <2> QED
    BY <1>4, <2>2 DEF On
<1>5. CASE config.command \notin {"customize", "inject", "convert"}
  BY <1>5 DEF On
<1> QED
  BY <1>1, <1>2, <1>3, <1>4, <1>5

-----------------------------------------------------------------------------
(* The invariant, with more stages done or with none in hand.               *)

\* The stages of a run are those of its configuration.
LEMMA SameStages ==
    ASSUME config' = config
    PROVE  Stages' = Stages
BY Zenon DEF Stages, ConvertImage

\* NextStage stays among the stages.
LEMMA NextStageTyped ==
    ASSUME PipelineInv, config' = config, NextStage
    PROVE  /\ stage' \in 1 .. Len(Stages')
           /\ \/ pc' = "stage" /\ stage' = stage + 1
              \/ pc' = "deferTools" /\ stage' = stage
<1>1. Len(Stages) \in Nat /\ stage \in 1 .. Len(Stages)
  BY Positions DEF PipelineInv, TypeOK
<1>2. Stages' = Stages
  BY SameStages DEF PipelineInv
<1> QED
  BY <1>1, <1>2 DEF NextStage

\* The parts that depend on the stage alone, once no stage is in hand.
LEMMA Stops ==
    ASSUME PipelineInv, ~Running', UNCHANGED <<config, image, stage, output>>
    PROVE  RootInv' /\ EspInv' /\ RawInv' /\ BaseInv' /\ VerityInv' /\ CosiInv' /\ OutputInv'
<1>1. image.root <= stage + 1 /\ image.esp <= 2
  BY DEF PipelineInv, RootInv, EspInv
<1>2. RootInv' /\ EspInv' /\ RawInv'
  BY <1>1 DEF RootInv, EspInv, RawInv, Running
<1>3. BaseInv'
  BY DEF PipelineInv, BaseInv, Done, Running, UkiBuilt
<1>4. VerityInv' /\ CosiInv'
  BY DEF VerityInv, CosiInv, Done
<1>5. OutputInv'
  BY DEF PipelineInv, OutputInv, VerityMatchesRoot, CosiMetadataCurrent
<1> QED
  BY <1>2, <1>3, <1>4, <1>5

\* The stage in hand need not be done for what comes after it.
LEMMA SkippedStages ==
    ASSUME PipelineInv, ~Runs(Current)
    PROVE  /\ On("customize", 5) => config.verity # "base"
           /\ On("customize", 8) => config.verity = "none"
           /\ On("customize", 9) => config.verity = "none" \/ ~UkiBuilt
           /\ On("customize", 10) \/ On("inject", 4) \/ On("convert", 3) => config.output # "cosi"
<1>1. config \in Legal /\ stage \in 1 .. Len(Stages)
  BY DEF PipelineInv, TypeOK
<1>2. config.verity # "none" \/ config.output = "cosi" => ~config.inputIsIso
  BY <1>1, LegalFacts
<1>3. ~config.inputIsIso => customizeOSContents
  BY DEF customizeOSContents
<1>4. On("customize", 5) => Current = "customizeImageHelper"
  BY <1>1, Positions
<1>5. On("customize", 8) => Current = "customizeVerityImage"
  BY <1>1, Positions
<1>6. On("customize", 9) => Current = "createUki"
  BY <1>1, Positions
<1>7. On("customize", 10) => Current = "collectOSInfo"
  BY <1>1, Positions
<1>8. (On("inject", 4) \/ On("convert", 3)) /\ config.output = "cosi" =>
          Current = "prepareImageConversionData"
  BY <1>1, Positions
<1> QED
  BY <1>2, <1>3, <1>4, <1>5, <1>6, <1>7, <1>8 DEF Runs, UkiBuilt

\* The parts that are about the image, after a stage that is done, or has nothing to do.
LEMMA Advances ==
    ASSUME PipelineInv, NextStage, UNCHANGED <<config, image, output>>,
           \/ pc = "worked"
           \/ pc = "stage" /\ (~Runs(Current) \/ Current \in {"initToolsChroot", "toolsChrootCleanClose"})
    PROVE  RootInv' /\ EspInv' /\ BaseInv' /\ VerityInv' /\ CosiInv' /\ OutputInv'
<1>1. config \in Legal /\ stage \in 1 .. Len(Stages) /\ Len(Stages) \in Nat
  BY Positions DEF PipelineInv, TypeOK
<1>2. \/ pc' = "stage" /\ stage' = stage + 1
      \/ pc' = "deferTools" /\ stage' = stage
  BY NextStageTyped
<1>3. CASE pc' = "deferTools" /\ stage' = stage
  BY <1>3, Stops DEF Running
<1>4. CASE pc' = "stage" /\ stage' = stage + 1
  <2>1. /\ pc # "worked" /\ On("customize", 5) => config.verity # "base"
        /\ pc # "worked" /\ On("customize", 8) => config.verity = "none"
        /\ pc # "worked" /\ On("customize", 9) => config.verity = "none" \/ ~UkiBuilt
        /\ pc # "worked" /\ (On("customize", 10) \/ On("inject", 4) \/ On("convert", 3)) =>
               config.output # "cosi"
    <3>1. CASE pc = "worked"
      BY <3>1
    <3>2. CASE pc = "stage" /\ ~Runs(Current)
      BY <3>2, SkippedStages
    <3>3. CASE Current \in {"initToolsChroot", "toolsChrootCleanClose"}
      BY <1>1, <3>3, Positions DEF On
    <3> QED
      BY <3>1, <3>2, <3>3
  <2>2. \A command, n : n \in Nat /\ Done(command, n)' =>
            Done(command, n) \/ (pc # "worked" /\ On(command, n))
    BY <1>1, <1>4 DEF Done, Running, On
  <2>3. RootInv'
    BY <1>1, <1>4 DEF PipelineInv, TypeOK, Images, Versions, RootInv
  <2>4. EspInv'
    BY <1>1, <1>4 DEF PipelineInv, EspInv, EspStage, Done, Running
  <2>5. BaseInv'
    <3>1. Done("customize", 5)' => Done("customize", 5) \/ (pc # "worked" /\ On("customize", 5))
      BY <2>2
    <3> QED
      BY <2>1, <3>1 DEF PipelineInv, BaseInv, UkiBuilt
  <2>6. VerityInv'
    <3>1. Done("customize", 8)' => Done("customize", 8) \/ (pc # "worked" /\ On("customize", 8))
      BY <2>2
    <3>2. Done("customize", 9)' => Done("customize", 9) \/ (pc # "worked" /\ On("customize", 9))
      BY <2>2
    <3>3. config.verity \in {"new", "reinit"} /\ config.uki # "none" => UkiBuilt
      BY <1>1, LegalFacts DEF Configs, UkiBuilt
    <3> QED
      BY <2>1, <3>1, <3>2, <3>3 DEF PipelineInv, VerityInv
  <2>7. CosiInv'
    <3>1. /\ Done("customize", 10)' => Done("customize", 10) \/ (pc # "worked" /\ On("customize", 10))
          /\ Done("inject", 4)' => Done("inject", 4) \/ (pc # "worked" /\ On("inject", 4))
          /\ Done("convert", 3)' => Done("convert", 3) \/ (pc # "worked" /\ On("convert", 3))
      BY <2>2
    <3> QED
      BY <2>1, <3>1 DEF PipelineInv, CosiInv
  <2>8. OutputInv'
    BY DEF PipelineInv, OutputInv, VerityMatchesRoot, CosiMetadataCurrent
  <2> QED
    BY <2>3, <2>4, <2>5, <2>6, <2>7, <2>8
<1> QED
  BY <1>2, <1>3, <1>4

-----------------------------------------------------------------------------
(* The stages at work.                                                      *)

\* Of a configuration whose stage in hand stays the same, so does the code that runs it.
LEMMA SameCurrent ==
    ASSUME config' = config, stage' = stage
    PROVE  Current' = Current /\ (Runs(Current)' <=> Runs(Current))
<1>1. Stages' = Stages
  BY SameStages
<1> QED
  BY <1>1 DEF Current, Runs, InOSContents, customizeOSContents, CustomizeOSPartitions

\* What a stage at work leaves alone.
LEMMA Works ==
    ASSUME PipelineInv, NEW s, NEW newImage, Work(s, newImage), newImage \in Images,
           output' \in Images
    PROVE  /\ config' \in Legal /\ TypeOK'
           /\ FileInv' /\ RawInv' /\ LeftoverInv' /\ StaleInv' /\ OpenInv'
<1> USE DEF Work
<1>1. Stages' = Stages /\ config' \in Legal
  BY SameStages DEF PipelineInv
<1>2. TypeOK'
  BY <1>1 DEF PipelineInv, TypeOK
<1>3. FileInv'
  BY DEF PipelineInv, FileInv, NewLayout, Running
<1>4. RawInv'
  <2>1. RawImageMade' <=> RawImageMade
    BY DEF RawImageMade, RebuildRaw, CustomizeOSPartitions
  <2> QED
    BY <2>1 DEF PipelineInv, RawInv, Running
<1>5. LeftoverInv'
  BY DEF PipelineInv, LeftoverInv, NewLayout
<1>6. StaleInv'
  BY DEF PipelineInv, StaleInv
<1>7. OpenInv'
  BY SameCurrent DEF PipelineInv, OpenInv, WithoutImage
<1> QED
  BY <1>1, <1>2, <1>3, <1>4, <1>5, <1>6, <1>7

\* A stage at work is the one that is done next.
LEMMA WorkDone ==
    ASSUME PipelineInv, NEW s, NEW newImage, Work(s, newImage)
    PROVE  /\ Current = s /\ Runs(s) /\ config \in Legal /\ stage \in 1 .. Len(Stages) /\ stage \in Nat
           /\ image.root \in Nat /\ image.esp \in Nat /\ image \in Images
           /\ image.root <= stage /\ image.esp <= 2
           /\ \A command, n : n \in Nat => (Done(command, n)' <=> Done(command, n) \/ On(command, n))
<1>1. stage \in 1 .. Len(Stages) /\ Len(Stages) \in Nat /\ image \in Images
  BY Positions DEF PipelineInv, TypeOK
<1> QED
  BY <1>1 DEF Work, PipelineInv, OpenInv, RootInv, EspInv, Images, Versions, Done, Running, On

\* The parts about the image after work that wrote to the root file system only.
LEMMA RootWritten ==
    ASSUME PipelineInv, NEW s, NEW newImage, Work(s, newImage), UNCHANGED output,
           newImage.root = image.root \/ newImage.root = image.root + 1,
           newImage.esp = image.esp
    PROVE  RootInv' /\ EspInv' /\ OutputInv'
<1>1. image' = newImage /\ stage' = stage /\ config' = config /\ pc' = "worked" /\ pc = "attached"
  BY DEF Work
<1>2. /\ image.root <= stage /\ image.esp <= 2 /\ stage \in Nat /\ image.root \in Nat
      /\ \A command, n : n \in Nat => (Done(command, n)' <=> Done(command, n) \/ On(command, n))
  BY WorkDone
<1>3. RootInv'
  BY <1>1, <1>2 DEF RootInv
<1>4. EspInv'
  <2>1. EspStage' = EspStage /\ EspStage \in Nat
    BY <1>1 DEF EspStage
  <2>2. Done(config.command, EspStage) => Done(config.command, EspStage)'
    BY <1>1, <1>2, <2>1 DEF Done, Running
  <2> QED
    BY <1>1, <1>2, <2>1, <2>2 DEF PipelineInv, EspInv, Running
<1>5. OutputInv'
  BY <1>1 DEF PipelineInv, OutputInv, VerityMatchesRoot, CosiMetadataCurrent
<1> QED
  BY <1>3, <1>4, <1>5

\* Before the hash tree is made, and before the ESP is described, nothing is promised of them.
LEMMA EarlyWork ==
    ASSUME PipelineInv, NEW s, NEW newImage, Work(s, newImage)
    PROVE  /\ config.command # "customize" \/ stage < 8 => VerityInv'
           /\ config.command = "customize" /\ stage < 10 => CosiInv'
           /\ config.command = "inject" /\ stage < 4 => CosiInv'
           /\ config.command = "create" => CosiInv'
<1>1. /\ stage \in Nat
      /\ \A command, n : n \in Nat => (Done(command, n)' <=> Done(command, n) \/ On(command, n))
  BY WorkDone
<1>2. /\ Done("customize", 8)' => config.command = "customize" /\ stage >= 8
      /\ Done("customize", 9)' => config.command = "customize" /\ stage >= 9
      /\ Done("customize", 10)' => config.command = "customize" /\ stage >= 10
      /\ Done("inject", 4)' => config.command = "inject" /\ stage >= 4
      /\ Done("convert", 3)' => config.command = "convert"
  BY <1>1 DEF Done, On
<1> QED
  BY <1>1, <1>2 DEF VerityInv, CosiInv

\* The base image, which may have verity.
BaseImageInv(im) ==
    /\ im \in Images /\ im.root = 1 /\ im.esp = 1
    /\ config.verity = "base" =>
          im.hash = 1 /\ im.hash = (IF config.uki = "none" THEN im.bootHash ELSE im.espHash)

\* BaseImage is one.
LEMMA BaseImageFacts == BaseImageInv(BaseImage)
<1>1. 0 \in Versions /\ 1 \in Versions
  BY DEF Versions
<1> QED
  BY <1>1 DEF BaseImageInv, BaseImage, Images

\* customizePartitions.
LEMMA CustomizePartitionsStep ==
    ASSUME PipelineInv, customizePartitions
    PROVE  PipelineInv'
<1> DEFINE new == [image EXCEPT !.root = @ + 1]
<1>1. /\ Work("customizePartitions", new) /\ UNCHANGED output
      /\ config.storage = "resetUuids" => config.verity # "base"
  BY DEF customizePartitions
<1>2. /\ config \in Legal /\ stage \in 1 .. Len(Stages) /\ Current = "customizePartitions"
      /\ Runs("customizePartitions") /\ image.root <= stage /\ image \in Images
      /\ \A command, n : n \in Nat => (Done(command, n)' <=> Done(command, n) \/ On(command, n))
  BY <1>1, WorkDone
<1>3. On("customize", 4)
  BY <1>2, Positions
<1>4. new \in Images
  BY <1>2, <1>3 DEF On, Images, Versions
<1>5. image' = new /\ config' = config /\ output' \in Images
  BY <1>1 DEF Work, PipelineInv, TypeOK
<1>6. config.verity # "base"
  BY <1>1, <1>2, LegalFacts DEF Runs, Configs
<1>7. BaseInv'
  BY <1>5, <1>6 DEF BaseInv
<1>8. VerityInv' /\ CosiInv'
  BY <1>1, <1>2, <1>3, EarlyWork DEF On
<1>9. RootInv' /\ EspInv' /\ OutputInv'
  BY <1>1, <1>2, RootWritten DEF Images
<1> QED
  BY <1>1, <1>4, <1>5, <1>7, <1>8, <1>9, Works DEF PipelineInv

\* customizeImageHelper.
LEMMA CustomizeImageHelperStep ==
    ASSUME PipelineInv, customizeImageHelper
    PROVE  PipelineInv'
<1> DEFINE new == [image EXCEPT !.root = IF ReadOnlyRoot THEN @ ELSE @ + 1,
                                !.kernelInfo = IF config.uki \in {"create", "modify"}
                                               THEN image.espHash ELSE @]
<1>1. Work("customizeImageHelper", new) /\ UNCHANGED output
  BY DEF customizeImageHelper
<1>2. /\ config \in Legal /\ stage \in 1 .. Len(Stages) /\ Current = "customizeImageHelper"
      /\ image.root <= stage /\ image \in Images
      /\ \A command, n : n \in Nat => (Done(command, n)' <=> Done(command, n) \/ On(command, n))
  BY <1>1, WorkDone
<1>3. On("customize", 5)
  BY <1>2, Positions
<1>4. new \in Images
  <2>1. image.root + 1 \in Versions /\ image.root \in Versions /\ image.espHash \in Versions
    BY <1>2, <1>3 DEF On, Images, Versions
  <2> QED
    BY <1>2, <2>1 DEF Images
<1>5. image' = new /\ config' = config /\ output' \in Images
  BY <1>1 DEF Work, PipelineInv, TypeOK
<1>6. /\ new.hash = image.hash /\ new.bootHash = image.bootHash /\ new.espHash = image.espHash
      /\ new.esp = image.esp /\ (ReadOnlyRoot => new.root = image.root)
      /\ new.root = image.root \/ new.root = image.root + 1
      /\ UkiBuilt => new.kernelInfo = image.espHash
  BY <1>2 DEF Images, UkiBuilt
<1>7. BaseInv'
  <2>1. UkiBuilt' <=> UkiBuilt
    BY <1>5 DEF UkiBuilt
  <2> QED
    BY <1>5, <1>6, <2>1 DEF PipelineInv, BaseInv, ReadOnlyRoot, UkiBuilt
<1>8. VerityInv' /\ CosiInv'
  BY <1>1, <1>2, <1>3, EarlyWork DEF On
<1>9. RootInv' /\ EspInv' /\ OutputInv'
  BY <1>1, <1>6, RootWritten
<1> QED
  BY <1>1, <1>4, <1>5, <1>7, <1>8, <1>9, Works DEF PipelineInv

\* shrinkFilesystemsHelper.
LEMMA ShrinkFilesystemsStep ==
    ASSUME PipelineInv, shrinkFilesystemsHelper
    PROVE  PipelineInv'
<1> DEFINE new == [image EXCEPT !.root = IF ReadOnlyRoot THEN @ ELSE @ + 1]
<1>1. Work("shrinkFilesystemsHelper", new) /\ UNCHANGED output
  BY DEF shrinkFilesystemsHelper
<1>2. /\ config \in Legal /\ stage \in 1 .. Len(Stages) /\ Current = "shrinkFilesystemsHelper"
      /\ image.root <= stage /\ image \in Images
      /\ \A command, n : n \in Nat => (Done(command, n)' <=> Done(command, n) \/ On(command, n))
  BY <1>1, WorkDone
<1>3. On("customize", 7) \/ On("inject", 5) \/ On("convert", 4)
  BY <1>2, Positions
<1>4. new \in Images
  BY <1>2, <1>3 DEF On, Images, Versions
<1>5. image' = new /\ config' = config /\ output' \in Images
  BY <1>1 DEF Work, PipelineInv, TypeOK
<1>6. /\ new.hash = image.hash /\ new.bootHash = image.bootHash /\ new.espHash = image.espHash
      /\ new.esp = image.esp /\ (ReadOnlyRoot => new.root = image.root)
      /\ new.root = image.root \/ new.root = image.root + 1
      /\ new.kernelInfo = image.kernelInfo /\ new.cosiEsp = image.cosiEsp
  BY <1>2 DEF Images
<1>7. BaseInv'
  <2>1. (UkiBuilt' <=> UkiBuilt) /\ (Done("customize", 5)' => Done("customize", 5))
    BY <1>2, <1>3, <1>5 DEF UkiBuilt, On
  <2> QED
    BY <1>5, <1>6, <2>1 DEF PipelineInv, BaseInv, ReadOnlyRoot
<1>8. VerityInv'
  BY <1>1, <1>2, <1>3, EarlyWork DEF On
<1>9. CosiInv'
  <2>1. /\ Done("customize", 10)' => Done("customize", 10)
        /\ Done("inject", 4)' => Done("inject", 4)
        /\ Done("convert", 3)' => Done("convert", 3)
    BY <1>2, <1>3 DEF On
  <2> QED
    BY <1>5, <1>6, <2>1 DEF PipelineInv, CosiInv
<1>10. RootInv' /\ EspInv' /\ OutputInv'
  BY <1>1, <1>6, RootWritten
<1> QED
  BY <1>1, <1>4, <1>5, <1>7, <1>8, <1>9, <1>10, Works DEF PipelineInv

\* customizeVerityImage.
LEMMA CustomizeVerityStep ==
    ASSUME PipelineInv, customizeVerityImage
    PROVE  PipelineInv'
<1> DEFINE new == IF ReadOnlyRoot THEN image ELSE KernelArgsForVerity(image.root)
<1>1. Work("customizeVerityImage", new) /\ UNCHANGED output
  BY DEF customizeVerityImage
<1>2. /\ config \in Legal /\ stage \in 1 .. Len(Stages) /\ Current = "customizeVerityImage"
      /\ image.root <= stage /\ image \in Images
      /\ \A command, n : n \in Nat => (Done(command, n)' <=> Done(command, n) \/ On(command, n))
  BY <1>1, WorkDone
<1>3. On("customize", 8)
  BY <1>2, Positions
<1>4. /\ new \in Images
      /\ new.root = image.root /\ new.esp = image.esp /\ new.espHash = image.espHash
  BY <1>2 DEF Images, KernelArgsForVerity
<1>5. image' = new /\ config' = config /\ output' \in Images
  BY <1>1 DEF Work, PipelineInv, TypeOK
<1>6. BaseInv'
  <2>1. Done("customize", 5)' => Done("customize", 5)
    BY <1>2, <1>3 DEF On
  <2> QED
    BY <1>5, <2>1 DEF PipelineInv, BaseInv, ReadOnlyRoot, UkiBuilt
<1>7. VerityInv'
  <2>0. ~Done("customize", 9) /\ ~On("customize", 9)
    BY <1>3 DEF On, Done
  <2>1. ~Done("customize", 9)'
    BY <1>2, <2>0
  <2>2. config.verity \in {"new", "reinit"} =>
            /\ new.hash = image.root
            /\ new.hash = (IF config.uki = "none" THEN new.bootHash ELSE new.kernelInfo)
    BY <1>2, LegalFacts DEF KernelArgsForVerity, ReadOnlyRoot, Images, Configs
  <2> QED
    BY <1>4, <1>5, <2>1, <2>2 DEF VerityInv
<1>8. CosiInv'
  BY <1>1, <1>2, <1>3, EarlyWork DEF On
<1>9. RootInv' /\ EspInv' /\ OutputInv'
  BY <1>1, <1>4, RootWritten
<1> QED
  BY <1>1, <1>4, <1>5, <1>6, <1>7, <1>8, <1>9, Works DEF PipelineInv

\* createUki.
LEMMA CreateUkiStep ==
    ASSUME PipelineInv, createUki
    PROVE  PipelineInv'
<1> DEFINE new == [image EXCEPT !.esp = @ + 1, !.espHash = image.kernelInfo]
<1>1. Work("createUki", new) /\ UNCHANGED output
  BY DEF createUki
<1>2. /\ config \in Legal /\ stage \in 1 .. Len(Stages) /\ Current = "createUki" /\ Runs("createUki")
      /\ stage \in Nat /\ image.root <= stage /\ image \in Images
      /\ \A command, n : n \in Nat => (Done(command, n)' <=> Done(command, n) \/ On(command, n))
  BY <1>1, WorkDone
<1>3. On("customize", 9)
  BY <1>2, Positions
<1>4. image.esp <= 1
  BY <1>1, <1>3 DEF Work, PipelineInv, EspInv, EspStage, On, Done, Running
<1>5. /\ new \in Images /\ new.esp <= 2
      /\ new.root = image.root /\ new.hash = image.hash /\ new.bootHash = image.bootHash
      /\ new.kernelInfo = image.kernelInfo /\ new.espHash = image.kernelInfo
  <2>1. image.esp + 1 \in Versions /\ image.kernelInfo \in Versions /\ image.esp + 1 <= 2
    BY <1>2, <1>4 DEF Images, Versions
  <2> QED
    BY <1>2, <2>1 DEF Images
<1>6. /\ image' = new /\ config' = config /\ stage' = stage /\ output' \in Images
      /\ pc = "attached" /\ pc' = "worked"
  BY <1>1 DEF Work, PipelineInv, TypeOK
<1>7. UkiBuilt
  BY <1>2 DEF Runs, UkiBuilt
<1>8. Done("customize", 5) /\ Done("customize", 8) /\ Done("customize", 9)'
  BY <1>2, <1>3, <1>6 DEF Done, On, Running
<1>9. BaseInv'
  <2>1. config.verity = "base" => image.kernelInfo = image.hash /\ image.hash = image.root
    BY <1>7, <1>8 DEF PipelineInv, BaseInv
  <2> QED
    BY <1>5, <1>6, <1>7, <2>1 DEF BaseInv, UkiBuilt
<1>10. VerityInv'
  <2>1. config.verity \in {"new", "reinit"} => image.hash = image.root /\ image.kernelInfo = image.hash
    BY <1>7, <1>8 DEF PipelineInv, VerityInv, UkiBuilt
  <2> QED
    BY <1>5, <1>6, <1>7, <2>1 DEF VerityInv, UkiBuilt
<1>11. CosiInv'
  BY <1>1, <1>2, <1>3, EarlyWork DEF On
<1>12. RootInv' /\ EspInv'
  BY <1>2, <1>5, <1>6, <1>8, <1>3 DEF RootInv, EspInv, EspStage, On, Images, Versions
<1>13. OutputInv'
  BY <1>1, <1>6 DEF PipelineInv, OutputInv, VerityMatchesRoot, CosiMetadataCurrent
<1> QED
  BY <1>1, <1>5, <1>6, <1>9, <1>10, <1>11, <1>12, <1>13, Works DEF PipelineInv

\* collectOSInfo of customize, and prepareImageConversionData of the other commands.
LEMMA DescribeStep ==
    ASSUME PipelineInv, collectOSInfo \/ prepareImageConversionData
    PROVE  PipelineInv'
<1> DEFINE new == [image EXCEPT !.cosiEsp = image.esp]
<1>1. PICK s \in {"collectOSInfo", "prepareImageConversionData"} : Work(s, new) /\ UNCHANGED output
  BY DEF collectOSInfo, prepareImageConversionData
<1>2. /\ config \in Legal /\ stage \in 1 .. Len(Stages) /\ Current = s /\ stage \in Nat
      /\ image.root <= stage /\ image \in Images
      /\ \A command, n : n \in Nat => (Done(command, n)' <=> Done(command, n) \/ On(command, n))
  BY <1>1, WorkDone
<1>3. On("customize", 10) \/ On("inject", 4) \/ On("convert", 3)
  BY <1>2, Positions
<1>4. /\ new \in Images /\ new.root = image.root /\ new.esp = image.esp /\ new.hash = image.hash
      /\ new.bootHash = image.bootHash /\ new.espHash = image.espHash
      /\ new.kernelInfo = image.kernelInfo /\ new.cosiEsp = image.esp
  BY <1>2 DEF Images
<1>5. image' = new /\ config' = config /\ output' \in Images
  BY <1>1 DEF Work, PipelineInv, TypeOK
<1>6. /\ Done("customize", 5)' => Done("customize", 5)
      /\ Done("customize", 8)' => Done("customize", 8)
      /\ Done("customize", 9)' => Done("customize", 9)
  BY <1>2, <1>3 DEF On
<1>7. BaseInv' /\ VerityInv'
  BY <1>4, <1>5, <1>6 DEF PipelineInv, BaseInv, VerityInv, UkiBuilt
<1>8. CosiInv'
  BY <1>4, <1>5 DEF CosiInv
<1>9. RootInv' /\ EspInv' /\ OutputInv'
  BY <1>1, <1>4, RootWritten
<1> QED
  BY <1>1, <1>4, <1>5, <1>7, <1>8, <1>9, Works DEF PipelineInv

\* injectFilesIntoImage.
LEMMA InjectFilesStep ==
    ASSUME PipelineInv, injectFilesIntoImage
    PROVE  PipelineInv'
<1> DEFINE new == [image EXCEPT !.esp = @ + 1]
<1>1. Work("injectFilesIntoImage", new) /\ UNCHANGED output
  BY DEF injectFilesIntoImage
<1>2. /\ config \in Legal /\ stage \in 1 .. Len(Stages) /\ Current = "injectFilesIntoImage"
      /\ stage \in Nat /\ image.root <= stage /\ image \in Images
      /\ \A command, n : n \in Nat => (Done(command, n)' <=> Done(command, n) \/ On(command, n))
  BY <1>1, WorkDone
<1>3. On("inject", 3)
  BY <1>2, Positions
<1>4. image.esp <= 1
  BY <1>1, <1>3 DEF Work, PipelineInv, EspInv, EspStage, On, Done, Running
<1>5. /\ new \in Images /\ new.esp <= 2
      /\ new.root = image.root /\ new.hash = image.hash /\ new.bootHash = image.bootHash
      /\ new.espHash = image.espHash /\ new.kernelInfo = image.kernelInfo
  BY <1>2, <1>4 DEF Images, Versions
<1>6. /\ image' = new /\ config' = config /\ stage' = stage /\ output' \in Images
      /\ pc = "attached" /\ pc' = "worked"
  BY <1>1 DEF Work, PipelineInv, TypeOK
<1>7. BaseInv'
  <2>1. ~Done("customize", 5)'
    BY <1>2, <1>3 DEF On, Done
  <2> QED
    BY <1>5, <1>6, <2>1 DEF PipelineInv, BaseInv
<1>8. VerityInv' /\ CosiInv'
  BY <1>1, <1>2, <1>3, EarlyWork DEF On
<1>9. Done("inject", 3)' /\ EspStage' = 3
  BY <1>2, <1>3, <1>6 DEF On, EspStage
<1>10. RootInv' /\ EspInv'
  BY <1>2, <1>3, <1>5, <1>6, <1>9 DEF RootInv, EspInv, On, Images, Versions
<1>11. OutputInv'
  BY <1>1, <1>6 DEF PipelineInv, OutputInv, VerityMatchesRoot, CosiMetadataCurrent
<1> QED
  BY <1>1, <1>5, <1>6, <1>7, <1>8, <1>10, <1>11, Works DEF PipelineInv

\* The two stages of create that write.
LEMMA CreateStep ==
    ASSUME PipelineInv, CreateNewImage \/ CustomizeImageHelperCreate
    PROVE  PipelineInv'
<1>1. PICK s \in {"CreateNewImage", "CustomizeImageHelperCreate"} :
          /\ Work(s, image') /\ UNCHANGED output
          /\ \/ s = "CreateNewImage" /\ image' = [NoImage EXCEPT !.root = 1, !.esp = 1]
             \/ /\ s = "CustomizeImageHelperCreate"
                /\ image' = [image EXCEPT !.root = @ + 1, !.esp = @ + 1]
  BY DEF CreateNewImage, CustomizeImageHelperCreate, Work
<1>2. /\ config \in Legal /\ stage \in 1 .. Len(Stages) /\ Current = s /\ stage \in Nat
      /\ image.root <= stage /\ image \in Images
      /\ \A command, n : n \in Nat => (Done(command, n)' <=> Done(command, n) \/ On(command, n))
  BY <1>1, WorkDone
<1>3. /\ config.command = "create" /\ stage \in {1, 3}
      /\ s = "CreateNewImage" <=> stage = 1
  BY <1>2, Positions DEF On
<1>4. image.esp <= 1
  BY <1>1, <1>3 DEF Work, PipelineInv, EspInv, EspStage, Done, Running
<1>5. /\ image' \in Images /\ image'.root <= stage + 1 /\ image'.esp <= 2
      /\ stage = 1 => image'.esp <= 1
  <2>1. CASE s = "CreateNewImage"
    <3>1. image' = [NoImage EXCEPT !.root = 1, !.esp = 1]
      BY <1>1, <2>1
    <3>2. image' = [root |-> 1, esp |-> 1, hash |-> 0, bootHash |-> 0, espHash |-> 0,
                    kernelInfo |-> 0, cosiEsp |-> 0]
      BY <3>1 DEF NoImage
    <3>3. 0 \in Versions /\ 1 \in Versions
      BY DEF Versions
    <3> QED
      BY <1>2, <3>2, <3>3 DEF Images
  <2>2. CASE s = "CustomizeImageHelperCreate"
    <3>1. image' = [image EXCEPT !.root = @ + 1, !.esp = @ + 1] /\ stage = 3
      BY <1>1, <1>3, <2>2
    <3>2. image.root + 1 \in Versions /\ image.esp + 1 \in Versions
      BY <1>2, <1>4, <3>1 DEF Images, Versions
    <3>3. image' \in Images /\ image'.root = image.root + 1 /\ image'.esp = image.esp + 1
      BY <1>2, <3>1, <3>2 DEF Images
    <3> QED
      BY <1>2, <1>4, <3>1, <3>3 DEF Images, Versions
  <2> QED
    BY <2>1, <2>2
<1>6. config' = config /\ stage' = stage /\ pc' = "worked" /\ output' \in Images
  BY <1>1 DEF Work, PipelineInv, TypeOK
<1>7. BaseInv'
  BY <1>2, <1>3, <1>6, LegalFacts DEF BaseInv
<1>8. VerityInv' /\ CosiInv'
  BY <1>1, <1>3, EarlyWork
<1>9. RootInv' /\ EspInv'
  BY <1>3, <1>5, <1>6 DEF RootInv, EspInv, EspStage, Done, Running
<1>10. OutputInv'
  BY <1>1, <1>6 DEF PipelineInv, OutputInv, VerityMatchesRoot, CosiMetadataCurrent
<1> QED
  BY <1>1, <1>5, <1>6, <1>7, <1>8, <1>9, <1>10, Works DEF PipelineInv

\* The stages that only look at the image.
LEMMA InspectStep ==
    ASSUME PipelineInv, Inspect
    PROVE  PipelineInv'
<1>1. /\ Work(Current, image) /\ UNCHANGED output
      /\ Current \in {"validateTargetOs", "collectVerityMetadataFromImage", "checkFileSystems",
                      "outputArtifacts", "outputSelinuxPolicy"}
  BY DEF Inspect
<1>2. /\ config \in Legal /\ stage \in 1 .. Len(Stages) /\ image \in Images
      /\ \A command, n : n \in Nat => (Done(command, n)' <=> Done(command, n) \/ On(command, n))
  BY <1>1, WorkDone
<1>3. On("customize", 3) \/ On("customize", 6) \/ On("customize", 11) \/ On("customize", 12)
      \/ On("customize", 13)
  BY <1>1, <1>2, Positions
<1>4. /\ Done("customize", 5)' => Done("customize", 5)
      /\ Done("customize", 8)' => Done("customize", 8)
      /\ Done("customize", 9)' => Done("customize", 9)
      /\ Done("customize", 10)' => Done("customize", 10)
      /\ Done("inject", 4)' => Done("inject", 4)
      /\ Done("convert", 3)' => Done("convert", 3)
  BY <1>2, <1>3 DEF On
<1>5. image' = image /\ config' = config /\ output' \in Images
  BY <1>1 DEF Work, PipelineInv, TypeOK
<1>6. BaseInv' /\ VerityInv' /\ CosiInv'
  BY <1>4, <1>5 DEF PipelineInv, BaseInv, VerityInv, CosiInv, UkiBuilt
<1>7. RootInv' /\ EspInv' /\ OutputInv'
  BY <1>1, RootWritten
<1> QED
  BY <1>1, <1>2, <1>5, <1>6, <1>7, Works DEF PipelineInv

\* The output is written: what is promised of it has been done at an earlier stage.
LEMMA OutputStep ==
    ASSUME PipelineInv, convertWriteableFormatToOutputImage \/ convertToCosi
    PROVE  PipelineInv'
<1>1. Work("convertWriteableFormatToOutputImage", image) /\ output' = image
  BY DEF convertWriteableFormatToOutputImage, convertToCosi
<1>2. /\ config \in Legal /\ stage \in 1 .. Len(Stages) /\ image \in Images
      /\ Current = "convertWriteableFormatToOutputImage" /\ image.root <= stage /\ image.esp <= 2
      /\ \A command, n : n \in Nat => (Done(command, n)' <=> Done(command, n) \/ On(command, n))
  BY <1>1, WorkDone
<1>3. \/ On("customize", 14) \/ On("inject", 6) \/ On("create", 5)
      \/ On("convert", 5) /\ config.output = "cosi"
  BY <1>2, Positions
<1>4. /\ Done("customize", 5)' => Done("customize", 5)
      /\ Done("customize", 8)' => Done("customize", 8)
      /\ Done("customize", 9)' => Done("customize", 9)
      /\ Done("customize", 10)' => Done("customize", 10)
      /\ Done("inject", 4)' => Done("inject", 4)
      /\ Done("convert", 3)' => Done("convert", 3)
  BY <1>2, <1>3 DEF On
<1>5. /\ image' = image /\ config' = config /\ stage' = stage /\ output' = image
      /\ pc = "attached" /\ pc' = "worked"
  BY <1>1 DEF Work
<1>6. BaseInv' /\ VerityInv' /\ CosiInv'
  BY <1>4, <1>5 DEF PipelineInv, BaseInv, VerityInv, CosiInv, UkiBuilt
<1>7. RootInv' /\ EspInv'
  BY <1>2, <1>3, <1>5 DEF PipelineInv, RootInv, EspInv, EspStage, On, Done, Running, Images, Versions
<1>8. /\ config.command = "customize" => Done("customize", 8) /\ Done("customize", 9) /\ Done("customize", 10)
      /\ config.command = "inject" => Done("inject", 4)
      /\ config.command = "convert" => Done("convert", 3)
  BY <1>3, <1>5 DEF Done, On, Running
<1>9. VerityMatchesRoot'
  <2>1. CASE config.verity = "base"
    BY <1>5, <2>1 DEF PipelineInv, BaseInv, VerityMatchesRoot
  <2>2. CASE config.verity \in {"new", "reinit"}
    BY <1>2, <1>5, <1>8, <2>2, LegalFacts DEF PipelineInv, VerityInv, VerityMatchesRoot
  <2>3. CASE config.verity = "none"
    BY <1>5, <2>3 DEF VerityMatchesRoot
  <2> QED
    BY <1>2, <2>1, <2>2, <2>3, LegalFacts DEF Configs
<1>10. CosiMetadataCurrent'
  BY <1>2, <1>3, <1>5, <1>8, LegalFacts DEF PipelineInv, CosiInv, CosiMetadataCurrent, On
<1> QED
  BY <1>1, <1>2, <1>6, <1>7, <1>9, <1>10, Works DEF PipelineInv, OutputInv

\* A conversion without a raw image.
LEMMA ConvertStep ==
    ASSUME PipelineInv, ConvertImageFileFromAnyFormat
    PROVE  PipelineInv'
<1>1. Work("ConvertImageFileFromAnyFormat", BaseImage) /\ output' = BaseImage
  BY DEF ConvertImageFileFromAnyFormat
<1>2. /\ config \in Legal /\ stage \in 1 .. Len(Stages) /\ Current = "ConvertImageFileFromAnyFormat"
      /\ \A command, n : n \in Nat => (Done(command, n)' <=> Done(command, n) \/ On(command, n))
  BY <1>1, WorkDone
<1>3. On("convert", 1) /\ config.output # "cosi"
  BY <1>2, Positions
<1>4. BaseImageInv(BaseImage)
  BY BaseImageFacts
<1>5. /\ image' = BaseImage /\ config' = config /\ stage' = stage /\ output' = BaseImage
      /\ pc' = "worked"
  BY <1>1 DEF Work
<1>6. /\ config.verity \in {"none", "base"}
      /\ config.command = "convert"
  BY <1>2, <1>3, LegalFacts DEF On, Configs
<1>7. BaseInv' /\ VerityInv' /\ CosiInv'
  BY <1>3, <1>4, <1>5, <1>6 DEF BaseInv, VerityInv, CosiInv, BaseImageInv, Done
<1>8. RootInv' /\ EspInv'
  BY <1>3, <1>4, <1>5 DEF RootInv, EspInv, BaseImageInv, On
<1>9. OutputInv'
  BY <1>3, <1>4, <1>5, <1>6 DEF OutputInv, VerityMatchesRoot, CosiMetadataCurrent, BaseImageInv
<1> QED
  BY <1>1, <1>2, <1>4, <1>5, <1>7, <1>8, <1>9, Works DEF PipelineInv, BaseImageInv

-----------------------------------------------------------------------------
(* The steps between the stages.                                            *)

\* The files, when the next stage begins and they are left as they are.
LEMMA AdvancesFiles ==
    ASSUME PipelineInv, NextStage, UNCHANGED <<config, raw, rawImageFile, removeFailed>>,
           \/ pc = "worked" /\ ~(NewLayout /\ On("customize", 4))
           \/ pc = "stage" /\ (~Runs(Current) \/ Current \in {"initToolsChroot", "toolsChrootCleanClose"})
    PROVE  FileInv' /\ RawInv' /\ LeftoverInv' /\ OpenInv'
<1>1. /\ config \in Legal /\ stage \in 1 .. Len(Stages) /\ Len(Stages) \in Nat /\ stage \in Nat
      /\ rawImageFile \in Files
  BY Positions DEF PipelineInv, TypeOK
<1>2. \/ pc' = "stage" /\ stage' = stage + 1
      \/ pc' = "deferTools" /\ stage' = stage
  BY NextStageTyped
<1>3. ~(NewLayout /\ On("customize", 4))
  <2>1. ASSUME NewLayout, On("customize", 4)
        PROVE  Current = "customizePartitions" /\ Runs(Current)
    <3>1. Current = "customizePartitions"
      BY <1>1, <2>1, Positions
    <3> QED
      BY <2>1, <3>1 DEF NewLayout, Runs, customizeOSContents, CustomizeOSPartitions
  <2> QED
    BY <2>1
<1>4. NewLayout' = NewLayout
  BY DEF NewLayout
<1>5. FileInv'
  BY <1>1, <1>2, <1>3, <1>4 DEF PipelineInv, FileInv, NewLayout, On, Running
<1>6. pc' = "stage" /\ RawImageMade' => RawImageMade
  <2>1. config.command # "customize" => customizeOSContents
    BY <1>1, LegalFacts DEF customizeOSContents
  <2>2. ~On("customize", 1) /\ ~On("inject", 2) /\ ~On("convert", 2)
    <3>1. CASE Current \in {"convertInputImageToWriteableFormat", "convertImageToRaw"}
      <4>1. Runs(Current)
        <5>1. CASE Current = "convertInputImageToWriteableFormat"
          BY <5>1 DEF Runs, InOSContents
        <5>2. CASE Current = "convertImageToRaw"
          <6>1. config.command # "customize"
            BY <1>1, <5>2, Positions DEF On
          <6> QED
            BY <2>1, <5>2, <6>1 DEF Runs
        <5> QED
          BY <3>1, <5>1, <5>2
      <4> QED
        BY <3>1, <4>1 DEF PipelineInv, OpenInv, WithoutImage
    <3>2. CASE Current \notin {"convertInputImageToWriteableFormat", "convertImageToRaw"}
      <4>1. On("convert", 2) => config.output = "cosi"
        BY <1>1, EarlyStages
      <4> QED
        BY <1>1, <3>2, <4>1, Positions
    <3> QED
      BY <3>1, <3>2
  <2>3. config.command = "create" /\ stage = 1 => pc = "worked"
    <3>1. ASSUME config.command = "create", stage = 1
          PROVE  Current = "CreateNewImage" /\ Runs(Current)
      <4>1. Current = "CreateNewImage"
        BY <1>1, <3>1, Positions DEF On
      <4> QED
        BY <2>1, <3>1, <4>1 DEF Runs
    <3> QED
      BY <3>1
  <2>4. config.command \in {"customize", "inject", "convert", "create"}
    BY <1>1, Positions
  <2>5. RebuildRaw' = RebuildRaw
    BY DEF RebuildRaw, CustomizeOSPartitions
  <2> QED
    BY <1>1, <1>2, <2>2, <2>3, <2>4, <2>5 DEF RawImageMade, On
<1>7. RawInv'
  BY <1>2, <1>6 DEF PipelineInv, RawInv, Running
<1>8. LeftoverInv'
  BY <1>1, <1>2, <1>3, <1>4 DEF PipelineInv, LeftoverInv, NewLayout, On
<1>9. OpenInv'
  BY <1>2 DEF OpenInv
<1> QED
  BY <1>5, <1>7, <1>8, <1>9

\* The raw image is made.
LEMMA ConvertInputStep ==
    ASSUME PipelineInv, convertInputImageToWriteableFormat
    PROVE  PipelineInv'
<1> USE DEF convertInputImageToWriteableFormat
<1>1. /\ config \in Legal /\ stage \in 1 .. Len(Stages) /\ Len(Stages) \in Nat /\ stage \in Nat
      /\ rawImageFile \in Files /\ image \in Images /\ output \in Images
  BY Positions DEF PipelineInv, TypeOK
<1>2. /\ pc = "stage"
      /\ \/ On("customize", 1) \/ On("inject", 2)
         \/ On("convert", 2) /\ config.output = "cosi"
  BY <1>1, Positions DEF At
<1>3. pc' = "stage" /\ stage' = stage + 1 /\ stage' \in 1 .. Len(Stages')
  <2>1. stage < Len(Stages)
    BY <1>1, <1>2, EarlyStages
  <2>2. Stages' = Stages
    BY SameStages
  <2> QED
    BY <1>1, <2>1, <2>2 DEF NextStage
<1>4. rawImageFile = "image.raw"
  BY <1>1, <1>2 DEF PipelineInv, FileInv, On, Files
<1>5. /\ raw' \in [Files -> {"absent", "left", "made"}]
      /\ \A f \in Files : raw'[f] # raw[f] => f = "image.raw"
      /\ ~(config.inputIsIso /\ ~RebuildRaw) => raw'["image.raw"] = "made" /\ image' = BaseImage
      /\ config.inputIsIso /\ ~RebuildRaw => image' = image
  BY DEF PipelineInv, TypeOK, Files
<1>6. config.inputIsIso => config.verity = "none" /\ config.output = "live"
  BY <1>1, LegalFacts
<1>7. BaseImageInv(BaseImage)
  BY BaseImageFacts
<1>8. TypeOK'
  <2>1. image' \in Images
    BY <1>1, <1>5, <1>7 DEF BaseImageInv
  <2> QED
    BY <1>1, <1>3, <1>5, <2>1 DEF PipelineInv, TypeOK, Legal, Configs
<1>9. RootInv' /\ EspInv'
  <2>1. image.root <= stage /\ image.root \in Nat
    BY <1>1, <1>2 DEF PipelineInv, RootInv, Images, Versions
  <2>2. ~Done(config.command, EspStage)
    BY <1>1, <1>2 DEF EspStage, Done, On
  <2>3. image.esp <= 1 /\ image.esp \in Nat
    BY <1>1, <1>2, <2>2 DEF PipelineInv, EspInv, Running, Images, Versions
  <2>4. image' = image \/ (image'.root = 1 /\ image'.esp = 1)
    BY <1>5, <1>7 DEF BaseImageInv
  <2> QED
    BY <1>1, <1>3, <2>1, <2>3, <2>4 DEF RootInv, EspInv
<1>10. FileInv' /\ OpenInv'
  BY <1>1, <1>2, <1>3, <1>4 DEF FileInv, OpenInv, On
<1>11. RawInv'
  <2>1. RebuildRaw' = RebuildRaw
    BY DEF RebuildRaw, CustomizeOSPartitions
  <2>2. config.command # "customize" => ~config.inputIsIso
    BY <1>1, LegalFacts
  <2>3. RawImageMade' => ~(config.inputIsIso /\ ~RebuildRaw)
    BY <2>1, <2>2 DEF RawImageMade
  <2> QED
    BY <1>4, <1>5, <2>3 DEF RawInv
<1>12. LeftoverInv'
  BY <1>2, <1>3, <1>4, <1>5 DEF PipelineInv, LeftoverInv, On
<1>13. BaseInv' /\ VerityInv' /\ CosiInv'
  <2>1. /\ ~Done("customize", 5)' /\ ~Done("customize", 8)' /\ ~Done("customize", 9)'
        /\ ~Done("customize", 10)' /\ ~Done("inject", 4)' /\ ~Done("convert", 3)'
    BY <1>1, <1>2, <1>3 DEF Done, On
  <2> QED
    BY <1>5, <1>6, <1>7, <2>1 DEF BaseInv, VerityInv, CosiInv, BaseImageInv
<1>14. StaleInv'
  BY <1>2 DEF PipelineInv, StaleInv, On
<1>15. OutputInv'
  BY DEF PipelineInv, OutputInv, VerityMatchesRoot, CosiMetadataCurrent
<1> QED
  BY <1>1, <1>8, <1>9, <1>10, <1>11, <1>12, <1>13, <1>14, <1>15 DEF PipelineInv

\* An error while it is made.
LEMMA ConvertInputFailsStep ==
    ASSUME PipelineInv, ConvertInputFails
    PROVE  PipelineInv'
<1> USE DEF ConvertInputFails, stageVars
<1>1. /\ config \in Legal /\ stage \in 1 .. Len(Stages) /\ rawImageFile \in Files
  BY DEF PipelineInv, TypeOK
<1>2. pc = "stage" /\ (On("customize", 1) \/ On("inject", 2) \/ On("convert", 2))
  BY <1>1, Positions DEF At
<1>3. rawImageFile = "image.raw"
  BY <1>1, <1>2 DEF PipelineInv, FileInv, On, Files
<1>4. pc' \in {"deferRaw", "deferTools"} /\ ~Running'
  BY DEF Running
<1>5. /\ raw' \in [Files -> {"absent", "left", "made"}]
      /\ \A f \in Files : raw'[f] # raw[f] => f = "image.raw"
  BY DEF PipelineInv, TypeOK, Files
<1>6. RootInv' /\ EspInv' /\ RawInv' /\ BaseInv' /\ VerityInv' /\ CosiInv' /\ OutputInv'
  BY <1>4, Stops
<1>7. TypeOK'
  <2>1. Stages' = Stages
    BY SameStages
  <2>2. store' \in BOOLEAN
    BY <1>1, LegalFacts DEF Configs
  <2> QED
    BY <1>4, <1>5, <2>1, <2>2 DEF PipelineInv, TypeOK
<1>8. FileInv' /\ OpenInv' /\ StaleInv'
  BY <1>2, <1>3, <1>4 DEF PipelineInv, FileInv, OpenInv, StaleInv, NewLayout, Running
<1>9. LeftoverInv'
  BY <1>2, <1>3, <1>4, <1>5 DEF PipelineInv, LeftoverInv, NewLayout
<1> QED
  BY <1>1, <1>6, <1>7, <1>8, <1>9 DEF PipelineInv

\* The tools chroot is opened, or is not.
LEMMA InitToolsStep ==
    ASSUME PipelineInv, initToolsChroot
    PROVE  PipelineInv'
<1> USE DEF initToolsChroot
<1>1. /\ config \in Legal /\ stage \in 1 .. Len(Stages)
      /\ config.command = "customize" => stage = 2
      /\ pc = "stage" /\ Current = "initToolsChroot" /\ Len(Stages) \in Nat
  BY Positions DEF PipelineInv, TypeOK, At, On
<1>2. Stages' = Stages /\ tools' \in BOOLEAN
  <2>1. config.toolsDir \in BOOLEAN
    BY <1>1, LegalFacts DEF Configs
  <2> QED
    BY <2>1, SameStages
<1>3. CASE NextStage
  <2>1. /\ stage' \in 1 .. Len(Stages')
        /\ \/ pc' = "stage" /\ stage' = stage + 1
           \/ pc' = "deferTools" /\ stage' = stage
    BY <1>3, NextStageTyped
  <2>2. failing' \in BOOLEAN
    BY DEF PipelineInv, TypeOK
  <2>3. TypeOK'
    BY <1>2, <2>1, <2>2 DEF PipelineInv, TypeOK
  <2>4. RootInv' /\ EspInv' /\ BaseInv' /\ VerityInv' /\ CosiInv' /\ OutputInv'
    BY <1>1, <1>3, Advances
  <2>5. FileInv' /\ RawInv' /\ LeftoverInv' /\ OpenInv'
    BY <1>1, <1>3, AdvancesFiles
  <2>6. StaleInv'
    <3>1. ~On("customize", 15)
      BY <1>1 DEF On
    <3>2. \A f \in Files : lingering[f] # "dirty"
      BY <1>1, <3>1 DEF PipelineInv, StaleInv
    <3>3. attached = {}
      BY <1>1 DEF PipelineInv, StaleInv
    <3> QED
      BY <3>2, <3>3 DEF StaleInv
  <2> QED
    BY <1>1, <2>3, <2>4, <2>5, <2>6 DEF PipelineInv
<1>4. CASE failing' = TRUE /\ pc' = AfterTools /\ UNCHANGED stage
  <2>1. pc' \in {"deferStore", "exited"} /\ (config.command = "customize" => pc' = "deferStore")
    BY <1>4 DEF AfterTools
  <2>2. RootInv' /\ EspInv' /\ RawInv' /\ BaseInv' /\ VerityInv' /\ CosiInv' /\ OutputInv'
    BY <1>4, <2>1, Stops DEF Running
  <2>3. TypeOK'
    BY <1>2, <1>4, <2>1 DEF PipelineInv, TypeOK
  <2>4. FileInv' /\ OpenInv' /\ StaleInv'
    BY <1>1, <1>4, <2>1 DEF PipelineInv, FileInv, OpenInv, StaleInv, NewLayout, Running
  <2>5. LeftoverInv'
    BY <1>1, <1>4, <2>1 DEF PipelineInv, LeftoverInv, NewLayout
  <2> QED
    BY <1>1, <2>2, <2>3, <2>4, <2>5 DEF PipelineInv
<1> QED
  BY <1>3, <1>4

\* A stage with nothing to do.
LEMMA StageSkippedStep ==
    ASSUME PipelineInv, StageSkipped
    PROVE  PipelineInv'
<1> USE DEF StageSkipped
<1>1. /\ config \in Legal /\ stage \in 1 .. Len(Stages)
      /\ pc = "stage" /\ ~Runs(Current) /\ NextStage
  BY DEF PipelineInv, TypeOK
<1>2. /\ stage' \in 1 .. Len(Stages')
      /\ pc' \in {"stage", "deferTools"}
  BY <1>1, NextStageTyped
<1>3. TypeOK'
  BY <1>2 DEF PipelineInv, TypeOK
<1>4. RootInv' /\ EspInv' /\ BaseInv' /\ VerityInv' /\ CosiInv' /\ OutputInv'
  BY <1>1, Advances
<1>5. FileInv' /\ RawInv' /\ LeftoverInv' /\ OpenInv'
  BY <1>1, AdvancesFiles
<1>6. ~On("customize", 15)
  <2>1. On("customize", 15) => Current = "toolsChrootCleanClose"
    BY <1>1, Positions
  <2> QED
    BY <1>1, <2>1 DEF Runs, InOSContents
<1>7. StaleInv'
  BY <1>1, <1>6 DEF PipelineInv, StaleInv
<1> QED
  BY <1>1, <1>3, <1>4, <1>5, <1>7 DEF PipelineInv

\* A stage opens the image.
LEMMA StageOpensStep ==
    ASSUME PipelineInv, StageOpens
    PROVE  PipelineInv'
<1> USE DEF StageOpens
<1>1. /\ config \in Legal /\ stage \in 1 .. Len(Stages) /\ stage \in Nat /\ Len(Stages) \in Nat
      /\ rawImageFile \in Files /\ pc = "stage" /\ pc' = "attached"
      /\ Runs(Current) /\ ~WithoutImage(Current)
  BY Positions DEF PipelineInv, TypeOK
<1>2. /\ Stages' = Stages /\ Current' = Current /\ (Runs(Current)' <=> Runs(Current))
  BY SameStages, SameCurrent
<1>3. \A command, n : n \in Nat => (Done(command, n)' <=> Done(command, n))
  BY <1>1 DEF Done, Running
<1>4. rawImageFile = "image.raw" /\ "image2.raw" \in Writes(Current) <=>
          NewLayout /\ On("customize", 4)
  <2>1. "image2.raw" \in Writes(Current) /\ rawImageFile = "image.raw" =>
            Current = "customizePartitions" /\ config.storage = "partitions"
    BY DEF Writes
  <2>2. Current = "customizePartitions" <=> On("customize", 4)
    BY <1>1, Positions
  <2>3. On("customize", 4) => rawImageFile = "image.raw"
    BY <1>1 DEF PipelineInv, FileInv, On, Files
  <2>4. On("customize", 4) /\ NewLayout => "image2.raw" \in Writes(Current)
    <3>1. ASSUME On("customize", 4), NewLayout
          PROVE  Writes(Current) = {"image2.raw"}
      <4>1. Current = "customizePartitions" /\ config.storage = "partitions"
        BY <2>2, <3>1 DEF NewLayout
      <4> QED
        BY <4>1 DEF Writes
    <3> QED
      BY <3>1
  <2> QED
    BY <2>1, <2>2, <2>3, <2>4 DEF NewLayout, On
<1>5. /\ raw' \in [Files -> {"absent", "left", "made"}]
      /\ \A f \in Files : raw[f] = "made" => raw'[f] = "made"
      /\ NewLayout /\ On("customize", 4) => raw'["image2.raw"] = "made"
      /\ \A f \in Files : raw'[f] # raw[f] =>
             (f = "image2.raw" /\ NewLayout /\ On("customize", 4)) \/ f = rawImageFile
      /\ MakesRawImage(Current) /\ Current # "customizePartitions" => raw'[rawImageFile] = "made"
  <2>0. raw \in [Files -> {"absent", "left", "made"}] /\ "image2.raw" \in Files
    BY DEF PipelineInv, TypeOK, Files
  <2>1. CASE NewLayout /\ On("customize", 4)
    <3>1. raw' = [raw EXCEPT !["image2.raw"] = "made"]
      BY <1>4, <2>1
    <3>2. Current = "customizePartitions"
      BY <1>1, <2>1, Positions
    <3> QED
      BY <1>1, <2>0, <2>1, <3>1, <3>2
  <2>2. CASE ~(NewLayout /\ On("customize", 4)) /\ MakesRawImage(Current)
    <3>1. raw' = [raw EXCEPT ![rawImageFile] = "made"]
      BY <1>4, <2>2
    <3> QED
      BY <1>1, <2>0, <2>2, <3>1
  <2>3. CASE ~(NewLayout /\ On("customize", 4)) /\ ~MakesRawImage(Current)
    <3>1. raw' = raw
      BY <1>4, <2>3
    <3> QED
      BY <2>0, <2>3, <3>1
  <2> QED
    BY <2>1, <2>2, <2>3
<1>6. TypeOK'
  <2>1. attached' \subseteq Files
    BY <1>1 DEF Opens, Files
  <2> QED
    BY <1>1, <1>2, <1>5, <2>1 DEF PipelineInv, TypeOK
<1>7. RootInv' /\ EspInv'
  <2>1. EspStage' = EspStage /\ EspStage \in Nat
    BY DEF EspStage
  <2>2. Done(config.command, EspStage)' <=> Done(config.command, EspStage)
    BY <1>3, <2>1
  <2> QED
    BY <1>1, <2>1, <2>2 DEF PipelineInv, RootInv, EspInv, Running
<1>8. FileInv'
  BY <1>1, <1>5 DEF PipelineInv, FileInv, NewLayout, On, Running
<1>9. RawInv'
  <2>1. config.command = "create" /\ stage = 1 => raw'[rawImageFile] = "made"
    <3>1. config.command = "create" /\ stage = 1 => Current = "CreateNewImage"
      BY <1>1, Positions DEF On
    <3> QED
      BY <1>5, <3>1 DEF MakesRawImage
  <2>2. RawImageMade' => RawImageMade \/ (config.command = "create" /\ stage = 1)
    BY <1>1 DEF RawImageMade, RebuildRaw, CustomizeOSPartitions
  <2> QED
    BY <1>1, <1>5, <2>1, <2>2 DEF PipelineInv, RawInv, Running
<1>10. LeftoverInv'
  BY <1>1, <1>5 DEF PipelineInv, LeftoverInv, NewLayout, On
<1>11. BaseInv' /\ VerityInv' /\ CosiInv'
  BY <1>3 DEF PipelineInv, BaseInv, VerityInv, CosiInv, UkiBuilt
<1>12. StaleInv'
  <2>1. On("customize", 15) => Current = "toolsChrootCleanClose"
    BY <1>1, Positions
  <2> QED
    BY <1>1, <2>1 DEF PipelineInv, StaleInv, WithoutImage
<1>13. OpenInv' /\ OutputInv'
  BY <1>1, <1>2 DEF PipelineInv, OpenInv, OutputInv, VerityMatchesRoot, CosiMetadataCurrent, WithoutImage
<1> QED
  BY <1>1, <1>6, <1>7, <1>8, <1>9, <1>10, <1>11, <1>12, <1>13 DEF PipelineInv

\* A stage fails before, while or after it works.
LEMMA StageFailsStep ==
    ASSUME PipelineInv, StageFails
    PROVE  PipelineInv'
<1> USE DEF StageFails, stageVars
<1>1. /\ config \in Legal /\ stage \in 1 .. Len(Stages)
      /\ pc \in {"stage", "attached", "worked"} /\ pc' = "deferClose" /\ ~WithoutImage(Current)
  BY DEF PipelineInv, TypeOK
<1>2. RootInv' /\ EspInv' /\ RawInv' /\ BaseInv' /\ VerityInv' /\ CosiInv' /\ OutputInv'
  BY <1>1, Stops DEF Running
<1>3. TypeOK'
  BY <1>1, SameStages DEF PipelineInv, TypeOK
<1>4. FileInv' /\ OpenInv'
  BY <1>1 DEF PipelineInv, FileInv, OpenInv, NewLayout, Running
<1>5. LeftoverInv'
  BY <1>1 DEF PipelineInv, LeftoverInv, NewLayout
<1>6. StaleInv'
  <2>1. ~On("customize", 15)
    BY <1>1, Positions DEF WithoutImage
  <2> QED
    BY <1>1, <2>1 DEF PipelineInv, StaleInv
<1> QED
  BY <1>1, <1>2, <1>3, <1>4, <1>5, <1>6 DEF PipelineInv

\* What os.Remove may change.
LEMMA TryRemoveFacts ==
    ASSUME NEW f \in Files, TryRemove(f), raw \in [Files -> {"absent", "left", "made"}],
           removeFailed \subseteq Files \cup {"from-iso"}
    PROVE  /\ raw' \in [Files -> {"absent", "left", "made"}]
           /\ removeFailed' \subseteq Files \cup {"from-iso"} /\ removeFailed \subseteq removeFailed'
           /\ \A g \in Files : g # f => raw'[g] = raw[g]
           /\ raw'[f] = "made" => f \in removeFailed'
           /\ \A g \in Files : raw'[g] = "made" => raw[g] = "made"
BY DEF TryRemove

\* Devices that are left behind.
LEMMA LingeringTyped ==
    ASSUME NEW files \in SUBSET Files, lingering \in [Files -> {"none", "clean", "dirty"}]
    PROVE  /\ Lingering(files) \in [Files -> {"none", "clean", "dirty"}]
           /\ \A f \in Files : Lingering(files)[f] = "dirty" =>
                  lingering[f] = "dirty" \/ f \in Writes(Current)
BY DEF Lingering

\* A stage that is done closes the image.
LEMMA StageClosesStep ==
    ASSUME PipelineInv, StageCloses
    PROVE  PipelineInv'
<1> USE DEF StageCloses
<1>1. /\ config \in Legal /\ stage \in 1 .. Len(Stages) /\ stage \in Nat /\ Len(Stages) \in Nat
      /\ rawImageFile \in Files /\ pc = "worked" /\ NextStage /\ attached \in SUBSET Files
      /\ raw \in [Files -> {"absent", "left", "made"}]
      /\ lingering \in [Files -> {"none", "clean", "dirty"}]
      /\ removeFailed \subseteq Files \cup {"from-iso"}
  BY Positions DEF PipelineInv, TypeOK
<1>2. /\ stage' \in 1 .. Len(Stages')
      /\ \/ pc' = "stage" /\ stage' = stage + 1
         \/ pc' = "deferTools" /\ stage' = stage
  BY <1>1, NextStageTyped
<1>3. RootInv' /\ EspInv' /\ BaseInv' /\ VerityInv' /\ CosiInv' /\ OutputInv'
  BY <1>1, Advances
<1>4. Current = "customizePartitions" <=> On("customize", 4)
  BY <1>1, Positions
<1>5. /\ lingering' \in [Files -> {"none", "clean", "dirty"}]
      /\ (\E f \in Files : lingering'[f] = "dirty") => On("customize", 14)
  <2>1. \A f \in Files : lingering[f] # "dirty"
    BY <1>1 DEF PipelineInv, StaleInv
  <2>2. CASE LeftToDefer(Current)
    <3>1. Writes("validateTargetOs") = {}
      BY DEF Writes
    <3>2. Current = "validateTargetOs" \/ (Current = "convertWriteableFormatToOutputImage" /\ config.output = "live")
      BY <2>2 DEF LeftToDefer
    <3>3. Current = "convertWriteableFormatToOutputImage" /\ config.output = "live" => On("customize", 14)
      BY <1>1, Positions, LegalFacts DEF On
    <3> QED
      BY <1>1, <2>1, <2>2, <3>1, <3>2, <3>3, LingeringTyped
  <2>3. CASE ~LeftToDefer(Current)
    BY <1>1, <2>1, <2>3
  <2> QED
    BY <2>2, <2>3
<1>6. StaleInv'
  <2>1. On("customize", 14) => pc' = "deferTools" \/ On("customize", 15)'
    BY <1>2 DEF On
  <2>2. (\E f \in Files : lingering'[f] = "dirty") => pc' = "deferTools" \/ (On("customize", 15)' /\ pc' = "stage")
    BY <1>2, <1>5, <2>1
  <2> QED
    BY <2>2 DEF StaleInv
<1>7. FileInv' /\ RawInv' /\ LeftoverInv' /\ OpenInv' /\ rawImageFile' \in Files
      /\ raw' \in [Files -> {"absent", "left", "made"}] /\ removeFailed' \subseteq Files \cup {"from-iso"}
  <2>1. CASE NewLayout /\ On("customize", 4)
    <3>1. rawImageFile = "image.raw" /\ raw["image2.raw"] = "made"
      BY <1>1, <2>1 DEF PipelineInv, FileInv, On, Files
    <3>2. "image2.raw" \in Writes(Current)
      BY <1>4, <2>1 DEF Writes, NewLayout
    <3>3. TryRemove("image.raw") /\ rawImageFile' = "image2.raw"
      BY <1>4, <2>1, <3>1, <3>2 DEF NewRawImageFile, NewLayout
    <3>4. "image.raw" \in Files /\ "image2.raw" \in Files /\ \A f \in Files : f = "image.raw" \/ f = "image2.raw"
      BY DEF Files
    <3>5. /\ raw' \in [Files -> {"absent", "left", "made"}]
          /\ removeFailed' \subseteq Files \cup {"from-iso"}
          /\ raw'["image2.raw"] = "made"
          /\ raw'["image.raw"] = "made" => "image.raw" \in removeFailed'
      BY <1>1, <3>1, <3>3, <3>4, TryRemoveFacts
    <3>6. pc' = "stage" /\ stage' = 5
      <4>1. Len(Stages) = 15
        BY <2>1, StagesOfCustomize DEF On
      <4> QED
        BY <1>1, <2>1, <4>1 DEF On, NextStage
    <3>7. FileInv' /\ OpenInv'
      BY <2>1, <3>3, <3>6 DEF FileInv, OpenInv, NewLayout
    <3>8. RawInv' /\ LeftoverInv'
      BY <3>3, <3>4, <3>5, <3>6 DEF RawInv, LeftoverInv
    <3> QED
      BY <3>3, <3>4, <3>5, <3>7, <3>8
  <2>2. CASE ~(NewLayout /\ On("customize", 4))
    <3>1. NewRawImageFile = rawImageFile
      BY <1>4, <2>2 DEF NewRawImageFile, NewLayout, On
    <3>2. ~("image2.raw" \in Writes(Current) /\ rawImageFile = "image.raw")
      BY <1>4, <2>2 DEF Writes, NewLayout, On
    <3>3. UNCHANGED <<raw, rawImageFile, removeFailed>>
      BY <3>1, <3>2
    <3>4. FileInv' /\ RawInv' /\ LeftoverInv' /\ OpenInv'
      BY <1>1, <2>2, <3>3, AdvancesFiles
    <3> QED
      BY <1>1, <3>3, <3>4
  <2> QED
    BY <2>1, <2>2
<1>8. TypeOK'
  BY <1>2, <1>5, <1>7 DEF PipelineInv, TypeOK
<1> QED
  BY <1>1, <1>3, <1>6, <1>7, <1>8 DEF PipelineInv

\* The image has been customized, and its verity needs a preview feature.
LEMMA VerityPreviewStep ==
    ASSUME PipelineInv, ErrVerityPreviewFeatureRequired
    PROVE  PipelineInv'
<1> USE DEF ErrVerityPreviewFeatureRequired
<1>1. /\ config \in Legal /\ stage \in 1 .. Len(Stages)
      /\ pc = "worked" /\ pc' = "deferTools" /\ Current = "customizeImageHelper"
  BY DEF PipelineInv, TypeOK, VerityPreviewRequired
<1>2. On("customize", 5)
  BY <1>1, Positions
<1>3. RootInv' /\ EspInv' /\ RawInv' /\ BaseInv' /\ VerityInv' /\ CosiInv' /\ OutputInv'
  BY <1>1, Stops DEF Running
<1>4. TypeOK'
  BY <1>1, SameStages DEF PipelineInv, TypeOK
<1>5. FileInv' /\ OpenInv' /\ StaleInv'
  BY <1>1 DEF PipelineInv, FileInv, OpenInv, StaleInv, NewLayout, Running
<1>6. LeftoverInv'
  BY <1>1, <1>2 DEF PipelineInv, LeftoverInv, NewLayout, On
<1> QED
  BY <1>1, <1>3, <1>4, <1>5, <1>6 DEF PipelineInv

\* The tools chroot is closed, or is not.
LEMMA ToolsCloseStep ==
    ASSUME PipelineInv, toolsChrootCleanClose
    PROVE  PipelineInv'
<1> USE DEF toolsChrootCleanClose
<1>1. /\ config \in Legal /\ stage \in 1 .. Len(Stages)
      /\ pc = "stage" /\ Current = "toolsChrootCleanClose"
  BY DEF PipelineInv, TypeOK, At
<1>2. config.command = "customize" => stage = 15 /\ Len(Stages) = 15
  BY <1>1, Positions, StagesOfCustomize DEF On
<1>3. Stages' = Stages
  BY SameStages
<1>4. CASE tools' = FALSE /\ NextStage /\ UNCHANGED failing
  <2>1. /\ stage' \in 1 .. Len(Stages')
        /\ pc' \in {"stage", "deferTools"}
    BY <1>4, NextStageTyped
  <2>2. TypeOK'
    BY <1>4, <2>1 DEF PipelineInv, TypeOK
  <2>3. RootInv' /\ EspInv' /\ BaseInv' /\ VerityInv' /\ CosiInv' /\ OutputInv'
    BY <1>1, <1>4, Advances
  <2>4. FileInv' /\ RawInv' /\ LeftoverInv' /\ OpenInv'
    BY <1>1, <1>4, AdvancesFiles
  <2>5. On("customize", 15) => pc' = "deferTools"
    <3>1. ASSUME On("customize", 15)
          PROVE  ~(stage < Len(Stages))
      <4>1. stage = 15 /\ Len(Stages) = 15
        BY <1>2, <3>1 DEF On
      <4> QED
        BY <4>1
    <3> QED
      BY <1>4, <3>1 DEF NextStage
  <2>6. StaleInv'
    BY <1>1, <2>5 DEF PipelineInv, StaleInv
  <2> QED
    BY <1>1, <2>2, <2>3, <2>4, <2>6 DEF PipelineInv
<1>5. CASE tools /\ failing' = TRUE /\ pc' = "deferTools" /\ UNCHANGED <<tools, stage>>
  <2>1. RootInv' /\ EspInv' /\ RawInv' /\ BaseInv' /\ VerityInv' /\ CosiInv' /\ OutputInv'
    BY <1>5, Stops DEF Running
  <2>2. TypeOK'
    BY <1>3, <1>5 DEF PipelineInv, TypeOK
  <2>3. FileInv' /\ OpenInv' /\ StaleInv'
    BY <1>1, <1>5 DEF PipelineInv, FileInv, OpenInv, StaleInv, NewLayout, Running
  <2>4. LeftoverInv'
    BY <1>1, <1>5 DEF PipelineInv, LeftoverInv, NewLayout
  <2> QED
    BY <1>1, <2>1, <2>2, <2>3, <2>4 DEF PipelineInv
<1> QED
  BY <1>4, <1>5

-----------------------------------------------------------------------------
(* Deferred calls, and the kernel.                                          *)

\* The deferred Close of the stage that failed.
LEMMA StageDeferredCloseStep ==
    ASSUME PipelineInv, StageDeferredClose
    PROVE  PipelineInv'
<1> USE DEF StageDeferredClose
<1>1. /\ config \in Legal /\ stage \in 1 .. Len(Stages)
      /\ pc = "deferClose" /\ pc' = "deferTools" /\ attached \in SUBSET Files
      /\ raw \in [Files -> {"absent", "left", "made"}]
      /\ lingering \in [Files -> {"none", "clean", "dirty"}]
      /\ removeFailed \subseteq Files \cup {"from-iso"}
  BY DEF PipelineInv, TypeOK
<1>2. RootInv' /\ EspInv' /\ RawInv' /\ BaseInv' /\ VerityInv' /\ CosiInv' /\ OutputInv'
  BY <1>1, Stops DEF Running
<1>3. lingering' \in [Files -> {"none", "clean", "dirty"}]
  BY <1>1, LingeringTyped
<1>4. "image2.raw" \in Files
  BY DEF Files
<1>5. /\ raw' \in [Files -> {"absent", "left", "made"}]
      /\ removeFailed' \subseteq Files \cup {"from-iso"} /\ removeFailed \subseteq removeFailed'
      /\ \A f \in Files : raw'[f] = "made" => raw[f] = "made"
      /\ NewLayout /\ On("customize", 4) /\ raw'["image2.raw"] = "made" => "image2.raw" \in removeFailed'
  <2>1. CASE Current = "customizePartitions" /\ config.storage = "partitions" /\ raw["image2.raw"] # "absent"
    BY <1>1, <1>4, <2>1, TryRemoveFacts
  <2>2. CASE ~(Current = "customizePartitions" /\ config.storage = "partitions" /\ raw["image2.raw"] # "absent")
    <3>1. UNCHANGED <<raw, removeFailed>>
      BY <2>2
    <3>2. NewLayout /\ On("customize", 4) => raw["image2.raw"] = "absent"
      BY <1>1, <2>2, Positions DEF NewLayout
    <3> QED
      BY <1>1, <3>1, <3>2
  <2> QED
    BY <2>1, <2>2
<1>6. TypeOK'
  BY <1>1, <1>3, <1>5, SameStages DEF PipelineInv, TypeOK
<1>7. FileInv' /\ OpenInv' /\ StaleInv'
  BY <1>1 DEF PipelineInv, FileInv, OpenInv, StaleInv, NewLayout, Running
<1>8. LeftoverInv'
  BY <1>1, <1>5 DEF PipelineInv, LeftoverInv, NewLayout, On
<1> QED
  BY <1>1, <1>2, <1>6, <1>7, <1>8 DEF PipelineInv

\* The deferred calls of the caller, with the store and the tools chroot.
LEMMA CallerDefersStep ==
    ASSUME PipelineInv, toolsChrootClose \/ inputIsoArtifactsCleanUp
    PROVE  PipelineInv'
<1> USE DEF toolsChrootClose, inputIsoArtifactsCleanUp, stageVars
<1>1. /\ config \in Legal /\ pc \in {"deferTools", "deferStore"}
      /\ pc' \in {"deferStore", "deferRaw", "exited"}
      /\ config.command = "customize" => pc' # "exited"
      /\ UNCHANGED <<config, raw, rawImageFile, image, stage, attached, lingering, output>>
      /\ {store', tools', failing'} \subseteq BOOLEAN
      /\ removeFailed' \subseteq Files \cup {"from-iso"} /\ removeFailed \subseteq removeFailed'
  BY DEF PipelineInv, TypeOK, AfterTools
<1> HIDE DEF toolsChrootClose, inputIsoArtifactsCleanUp
<1>2. RootInv' /\ EspInv' /\ RawInv' /\ BaseInv' /\ VerityInv' /\ CosiInv' /\ OutputInv'
  BY <1>1, Stops DEF Running
<1>3. TypeOK'
  BY <1>1, SameStages DEF PipelineInv, TypeOK
<1>4. FileInv' /\ OpenInv' /\ StaleInv'
  BY <1>1 DEF PipelineInv, FileInv, OpenInv, StaleInv, NewLayout, Running
<1>5. LeftoverInv'
  BY <1>1 DEF PipelineInv, LeftoverInv, NewLayout
<1> QED
  BY <1>1, <1>2, <1>3, <1>4, <1>5 DEF PipelineInv

\* The raw image is removed.
LEMMA CleanUpStep ==
    ASSUME PipelineInv, cleanUp
    PROVE  PipelineInv'
<1> USE DEF cleanUp, stageVars
<1>1. /\ config \in Legal /\ pc = "deferRaw" /\ pc' = "exited" /\ rawImageFile \in Files
      /\ raw \in [Files -> {"absent", "left", "made"}]
      /\ removeFailed \subseteq Files \cup {"from-iso"} /\ failing \in BOOLEAN
  BY DEF PipelineInv, TypeOK
<1>2. RootInv' /\ EspInv' /\ RawInv' /\ BaseInv' /\ VerityInv' /\ CosiInv' /\ OutputInv'
  BY <1>1, Stops DEF Running
<1>3. /\ raw' \in [Files -> {"absent", "left", "made"}]
      /\ removeFailed' \subseteq Files \cup {"from-iso"} /\ removeFailed \subseteq removeFailed'
      /\ raw'[rawImageFile] = "made" => rawImageFile \in removeFailed'
      /\ \A f \in Files : raw'[f] = "made" => raw[f] = "made"
  BY <1>1, TryRemoveFacts
<1>4. TypeOK'
  <2>1. failing' \in BOOLEAN
    BY <1>1
  <2> QED
    BY <1>1, <1>3, <2>1, SameStages DEF PipelineInv, TypeOK
<1>5. FileInv' /\ OpenInv' /\ StaleInv'
  BY <1>1 DEF PipelineInv, FileInv, OpenInv, StaleInv, NewLayout, Running
<1>6. LeftoverInv'
  BY <1>1, <1>3 DEF PipelineInv, LeftoverInv
<1> QED
  BY <1>1, <1>2, <1>4, <1>5, <1>6 DEF PipelineInv

\* A step that leaves all but the lingering devices alone.
LEMMA OthersUnchanged ==
    ASSUME PipelineInv, UNCHANGED <<config, raw, rawImageFile, image, stage, attached, store, tools,
                                    output, removeFailed, failing, pc>>,
           lingering' \in [Files -> {"none", "clean", "dirty"}],
           \A f \in Files : lingering'[f] = "dirty" => lingering[f] = "dirty"
    PROVE  PipelineInv'
<1>1. config' \in Legal /\ Stages' = Stages
  BY SameStages DEF PipelineInv
<1>2. TypeOK'
  BY <1>1 DEF PipelineInv, TypeOK
<1>3. RootInv' /\ EspInv' /\ FileInv'
  BY DEF PipelineInv, RootInv, EspInv, EspStage, FileInv, NewLayout, Done, Running
<1>4. RawInv' /\ LeftoverInv'
  BY DEF PipelineInv, RawInv, LeftoverInv, RawImageMade, RebuildRaw, CustomizeOSPartitions, NewLayout, Running
<1>5. BaseInv' /\ VerityInv' /\ CosiInv'
  BY DEF PipelineInv, BaseInv, VerityInv, CosiInv, UkiBuilt, Done, Running
<1>6. StaleInv'
  BY DEF PipelineInv, StaleInv, On
<1>7. OpenInv'
  BY SameCurrent DEF PipelineInv, OpenInv, WithoutImage
<1>8. OutputInv'
  BY DEF PipelineInv, OutputInv, VerityMatchesRoot, CosiMetadataCurrent
<1> QED
  BY <1>1, <1>2, <1>3, <1>4, <1>5, <1>6, <1>7, <1>8 DEF PipelineInv

\* The kernel is done with a device.
LEMMA DeviceReleasedStep ==
    ASSUME PipelineInv, NEW f \in Files, DeviceReleased(f)
    PROVE  PipelineInv'
<1>1. lingering \in [Files -> {"none", "clean", "dirty"}]
  BY DEF PipelineInv, TypeOK
<1> QED
  BY <1>1, OthersUnchanged DEF DeviceReleased, stageVars

-----------------------------------------------------------------------------
(* The theorems.                                                            *)

\* Before the first stage, with or without leftovers of a run that was killed.
LEMMA PipelineInit == Init => PipelineInv
<1> SUFFICES ASSUME Init
             PROVE  PipelineInv
  OBVIOUS
<1> USE DEF Init
<1>1. config \in Legal
  BY DEF Legal
<1>2. config \in Configs
  BY <1>1, LegalFacts
<1>3. 1 \in 1 .. Len(Stages)
  <2>1. config.command \in {"customize", "inject", "convert", "create"}
    BY <1>2 DEF Configs
  <2>2. CASE config.command = "customize"
    <3>1. Len(Stages) = 15
      BY <2>2, StagesOfCustomize
    <3> QED
      BY <3>1
  <2>3. CASE config.command = "inject"
    <3>1. Len(Stages) = 7
      BY <2>3, StagesOfInject
    <3> QED
      BY <3>1
  <2>4. CASE config.command = "convert"
    <3>1. Len(Stages) = 6 \/ Len(Stages) = 1
      BY <2>4, StagesOfConvert
    <3> QED
      BY <3>1
  <2>5. CASE config.command = "create"
    <3>1. Len(Stages) = 5
      BY <2>5, StagesOfCreate
    <3> QED
      BY <3>1
  <2> QED
    BY <2>1, <2>2, <2>3, <2>4, <2>5
<1>4. NoImage \in Images
  BY DEF NoImage, Images, Versions
<1>5. TypeOK
  BY <1>2, <1>3, <1>4 DEF TypeOK, Files
<1>6. /\ ~Done("customize", 5) /\ ~Done("customize", 8) /\ ~Done("customize", 9)
      /\ ~Done("customize", 10) /\ ~Done("inject", 4) /\ ~Done("convert", 3)
  BY DEF Done
<1>7. RootInv /\ EspInv /\ BaseInv /\ VerityInv /\ CosiInv
  BY <1>6 DEF RootInv, EspInv, BaseInv, VerityInv, CosiInv, NoImage
<1>8. FileInv /\ RawInv /\ LeftoverInv
  <2>1. config.command \in {"customize", "inject", "convert", "create"}
    BY <1>2 DEF Configs
  <2> QED
    BY <2>1 DEF FileInv, RawInv, RawImageMade, LeftoverInv, Files
<1>9. StaleInv /\ OpenInv /\ OutputInv
  BY DEF StaleInv, OpenInv, OutputInv, VerityMatchesRoot, CosiMetadataCurrent
<1> QED
  BY <1>1, <1>5, <1>7, <1>8, <1>9 DEF PipelineInv

\* Every step of every command.
LEMMA PipelineNext == PipelineInv /\ [Next]_vars => PipelineInv'
<1> SUFFICES ASSUME PipelineInv, [Next]_vars
             PROVE  PipelineInv'
  OBVIOUS
<1>1. CASE UNCHANGED vars
  <2>1. lingering \in [Files -> {"none", "clean", "dirty"}]
    BY DEF PipelineInv, TypeOK
  <2> QED
    BY <1>1, <2>1, OthersUnchanged DEF vars
<1>2. CASE convertInputImageToWriteableFormat
  BY <1>2, ConvertInputStep
<1>3. CASE ConvertInputFails
  BY <1>3, ConvertInputFailsStep
<1>4. CASE initToolsChroot
  BY <1>4, InitToolsStep
<1>5. CASE StageSkipped
  BY <1>5, StageSkippedStep
<1>6. CASE StageOpens
  BY <1>6, StageOpensStep
<1>7. CASE StageFails
  BY <1>7, StageFailsStep
<1>8. CASE customizePartitions
  BY <1>8, CustomizePartitionsStep
<1>9. CASE customizeImageHelper
  BY <1>9, CustomizeImageHelperStep
<1>10. CASE shrinkFilesystemsHelper
  BY <1>10, ShrinkFilesystemsStep
<1>11. CASE customizeVerityImage
  BY <1>11, CustomizeVerityStep
<1>12. CASE createUki
  BY <1>12, CreateUkiStep
<1>13. CASE collectOSInfo \/ prepareImageConversionData
  BY <1>13, DescribeStep
<1>14. CASE Inspect
  BY <1>14, InspectStep
<1>15. CASE injectFilesIntoImage
  BY <1>15, InjectFilesStep
<1>16. CASE CreateNewImage \/ CustomizeImageHelperCreate
  BY <1>16, CreateStep
<1>17. CASE convertWriteableFormatToOutputImage \/ convertToCosi
  BY <1>17, OutputStep
<1>18. CASE ConvertImageFileFromAnyFormat
  BY <1>18, ConvertStep
<1>19. CASE StageCloses
  BY <1>19, StageClosesStep
<1>20. CASE ErrVerityPreviewFeatureRequired
  BY <1>20, VerityPreviewStep
<1>21. CASE toolsChrootCleanClose
  BY <1>21, ToolsCloseStep
<1>22. CASE StageDeferredClose
  BY <1>22, StageDeferredCloseStep
<1>23. CASE toolsChrootClose \/ inputIsoArtifactsCleanUp
  BY <1>23, CallerDefersStep
<1>24. CASE cleanUp
  BY <1>24, CleanUpStep
<1>25. CASE \E f \in Files : DeviceReleased(f)
  BY <1>25, DeviceReleasedStep
<1>26. CASE Exited
  BY <1>1, <1>26 DEF Exited
<1> QED
  BY <1>1, <1>2, <1>3, <1>4, <1>5, <1>6, <1>7, <1>8, <1>9, <1>10, <1>11, <1>12, <1>13, <1>14,
     <1>15, <1>16, <1>17, <1>18, <1>19, <1>20, <1>21, <1>22, <1>23, <1>24, <1>25, <1>26 DEF Next

\* The invariant holds of every run of every command.
THEOREM PipelineAlways == Spec => []PipelineInv
BY PipelineInit, PipelineNext, PTL DEF Spec

\* Type correctness: among others, no configuration runs out of the versions that are enumerated.
THEOREM PipelineTypeCorrect == Spec => []TypeOK
<1>1. PipelineInv => TypeOK
  BY DEF PipelineInv
<1> QED
  BY <1>1, PipelineAlways, PTL

\* No stage of any command works on a file to which the device of an earlier stage may still
\* write, because the stages that write are closed with CleanClose (customizeOSContents).
THEOREM StagesSeeWhatWasWritten == Spec => []NoStaleImage
<1>1. PipelineInv => NoStaleImage
  BY DEF PipelineInv, TypeOK, StaleInv, NoStaleImage, InUse
<1> QED
  BY <1>1, PipelineAlways, PTL

\* The output's hash tree is that of its root file system, and what boots it has its root hash:
\* customizeVerityImage comes after everything that writes to the root file system, and before
\* createUki.
THEOREM OutputVerityMatches == Spec => []VerityMatchesRoot
<1>1. PipelineInv => VerityMatchesRoot
  BY DEF PipelineInv, OutputInv
<1> QED
  BY <1>1, PipelineAlways, PTL

\* A COSI file describes the ESP that is in it: collectOSInfo comes after createUki.
THEOREM CosiDescribesItsEsp == Spec => []CosiMetadataCurrent
<1>1. PipelineInv => CosiMetadataCurrent
  BY DEF PipelineInv, OutputInv
<1> QED
  BY <1>1, PipelineAlways, PTL

\* However customize ends, a raw image that it made stays in the build directory only if its
\* removal failed (cleanUp, and the deferred os.Remove of customizePartitions).
THEOREM RawImagesAreRemoved == Spec => []RawFilesRemoved
<1>1. PipelineInv => RawFilesRemoved
  BY DEF PipelineInv, LeftoverInv, RawFilesRemoved
<1> QED
  BY <1>1, PipelineAlways, PTL

\* Without exports from an input ISO whose OS is not customized, a stage that works on
\* rc.RawImageFile finds the file that this run made: rebuildFullOsImage is asked the same
\* question when the raw image is made and when it is used.
THEOREM StagesFindTheirImage ==
    ASSUME ~IsoExports
    PROVE  Spec => []RawImagePresent
<1>1. PipelineInv => RawImagePresent
  <2> SUFFICES ASSUME PipelineInv, pc \in {"stage", "attached"}, Runs(Current),
                      UsesRawImage(Current), ~MakesRawImage(Current)
               PROVE  raw[rawImageFile] = "made"
    BY DEF RawImagePresent
  <2>1. config \in Legal /\ stage \in 1 .. Len(Stages) /\ stage \in Nat
    BY Positions DEF PipelineInv, TypeOK
  <2>2. ~WithoutImage(Current) /\ Current # "ConvertImageFileFromAnyFormat" /\ Current # "CreateNewImage"
    BY DEF UsesRawImage, MakesRawImage
  <2>3. config.inputIsIso => RebuildRaw
    <3>1. SUFFICES ASSUME config.inputIsIso, ~RebuildRaw
                   PROVE  FALSE
      OBVIOUS
    <3>2. ~customizeOSContents /\ ~RebuildFullOsImage /\ config.output = "live"
          /\ ~config.artifacts /\ ~config.selinuxPolicy
      BY <2>1, <3>1, LegalFacts DEF RebuildRaw, RebuildFullOsImage, customizeOSContents
    <3>3. Current = "convertWriteableFormatToOutputImage"
      BY <2>2, <3>2 DEF Runs, InOSContents, WithoutImage
    <3> QED
      BY <3>2, <3>3 DEF UsesRawImage
  <2>4. RawImageMade
    <3>1. CASE config.command = "customize"
      <4>1. stage # 1
        BY <2>1, <2>2, <3>1, Positions DEF On, WithoutImage
      <4> QED
        BY <2>1, <2>3, <3>1, <4>1 DEF RawImageMade
    <3>2. CASE config.command = "create"
      <4>1. stage # 1
        BY <2>1, <2>2, <3>2, Positions DEF On
      <4> QED
        BY <2>1, <3>2, <4>1 DEF RawImageMade
    <3>3. CASE config.command \in {"inject", "convert"}
      <4>1. stage # 1 /\ stage # 2
        BY <2>1, <2>2, <3>3, EarlyStages, Positions DEF On, WithoutImage
      <4> QED
        BY <2>1, <3>3, <4>1 DEF RawImageMade
    <3> QED
      BY <2>1, <3>1, <3>2, <3>3, Positions
  <2> QED
    BY <2>4 DEF PipelineInv, RawInv, Running
<1> QED
  BY <1>1, PipelineAlways, PTL
=============================================================================
