----------------------------- MODULE MCCodegen -----------------------------
(***************************************************************************)
(* Command lines and targets for Codegen.  A line takes its switches from  *)
(* one group: switches of different groups set different variables.        *)
(***************************************************************************)
EXTENDS Codegen

MCTriples == {Triple("linux", "x86_64"), Triple("linux", "aarch64"), Triple("cuda", "nvptx64")}

PICGroup == PICSwitches \cup {"-mrelocation-model=static", "--target=x86_64-windows", "-emit-c"}
FeatureGroup == DOMAIN FeatureSwitches \cup
    {"-march=armv8-a+crc+what", "-march=armv9-z", "-mcpu=what", "-mtune=cortex-a53", "-mabi=lp64"}
OutputGroup == {"--dump-ir", "--write-bc", "-emit-c", "-emit-llvm", "-S", "-fno-optimize-ir",
    "-fsanitize=address", "-fpass-plugin=p"}
PassGroup == {"-emit-c", "-O2", "-fvectorize", "-fmerge-functions", "-fno-lto", "-flto", "-flto=thin",
    "-fsanitize=fuzzer", "-fsanitize=address", "-mabi=purecap"}

UpTo(n, S) == UNION {[1 .. k -> S] : k \in 0 .. n}
MCLines == UpTo(3, PICGroup) \cup UpTo(3, FeatureGroup) \cup UpTo(3, OutputGroup) \cup UpTo(3, PassGroup)
=============================================================================
