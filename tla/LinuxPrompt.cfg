SPECIFICATION Spec
CONSTANT MaxHistory = 2
PROPERTY PromptAnswered
