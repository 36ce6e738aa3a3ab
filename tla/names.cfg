SPECIFICATION Spec
CONSTANTS
    Names = {"plain", "quoted"}
    MaxAttrs = 2
    MaxRuns = 2
INVARIANT LinesAreJson
