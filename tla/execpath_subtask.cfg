SPECIFICATION Spec
CONSTANTS
    Tasks = {shell, command}
    FirstTask = shell
    Addresses = {a1, a2, a3}
    Paths = {"/", "/bin"}
    Missing = {}
    SubArguments = {TRUE}
INVARIANT SingleEnvironment
