------------------------------- MODULE MCEfiVM -------------------------------
(* Instances of EfiVM for TLC. *)
EXTENDS EfiVM, TLC

CONSTANTS img, code, vrs, code2, vrs2

MCOvmf == [code |-> <<code, code2>>, vars |-> <<vrs, vrs2>>]
MCLength == [f \in Originals |-> 2]
MCHosts == {Originals, Originals \ {img}, Originals \ {code, vrs}}
MCEnvs == {[p \in Parts |-> NoFile],
           [p \in Parts |-> IF p = "vars" THEN vrs2 ELSE NoFile]}

NoOptions == [k \in {} |-> k]

\* A drive with and without overlay, with a spelling that is not understood, and
\* with a relative path; pflash images of each kind, with sizes around the
\* length of their files.
Drives ==
  {ParseDrive(img, FALSE, "overlay" :> "on"),
   ParseDrive(img, TRUE, "overlay" :> "" @@ "size" :> 3),
   ParseDrive(img, FALSE, "overlay" :> "1" @@ "size" :> BadSize)}

MCConfigs ==
  {BuildConfig(<<d>>, <<>>) : d \in Drives} \cup
  {BuildConfig(<<ParseDrive(img, FALSE, "overlay" :> "true")>>,
               <<ParsePflash(code, "readonly" :> "true"),
                 ParsePflash(vrs, NoOptions)>>),
   BuildConfig(<<>>, <<ParsePflash(code, "readonly" :> "yes" @@ "size" :> 1),
                       ParsePflash(NoFile, "size" :> 3)>>),
   BuildConfig(<<>>,
               <<ParsePflash(code, "size" :> EmptySize),
                 ParsePflash(vrs, "readonly" :> "" @@ "size" :> EmptySize)>>)}
=============================================================================
