SPECIFICATION Spec
CONSTANTS
    Chars = {"a", "b", " "}
    Nul = "NUL"
    Space = " "
    Letters = {"a", "b"}
    MaxSize = 3
    Cols = 3
    PromptSize <- MCPromptSize
    Recalled <- MCRecalled
    Wordless <- MCWordless
    Kills = TRUE
INVARIANTS TypeOK NoHole ScreenShowsLine PasswordHidden
