SPECIFICATION Spec
CONSTANTS
    Chars = {"a", " "}
    Nul = "NUL"
    Space = " "
    Letters = {"a"}
    MaxSize = 3
    Cols = 4
    PromptSize <- MCPromptSize
    Recalled <- MCRecalled
    Wordless <- MCWordless
    Kills = FALSE
INVARIANT ReadIsShown
PROPERTY ImplementsEditor
